----------------------------- MODULE MatchingProofs -----------------------------
(***************************************************************************)
(* The epipolar search loses no match, for any image and line; the vectors *)
(* of the tracked corners of an initialization stay parallel, for any      *)
(* number of corners and of images.                                        *)
(***************************************************************************)
EXTENDS EpipolarSearch, KltHomographyInit, SequenceTheorems, TLAPS

-----------------------------------------------------------------------------
(* The epipolar search                                                      *)

(* What the loop knows of the samples before the i-th.                      *)
Known ==
  /\ uv_best = NoSample => zmssd_best = Threshold
  /\ uv_best # NoSample =>
       /\ uv_best \in 0 .. i - 1
       /\ InFrame(pxi[uv_best]) /\ zmssd[pxi[uv_best]] = zmssd_best
       /\ zmssd_best < Threshold
  /\ \A k \in 0 .. i - 1 : InFrame(pxi[k]) =>
       /\ zmssd_best <= zmssd[pxi[k]]
       /\ k < uv_best => zmssd_best < zmssd[pxi[k]]

(* The last pixel that was checked is that of the sample before, except at  *)
(* the beginning.                                                          *)
LastChecked == last_checked_pxi = IF i = 0 THEN <<0, 0>> ELSE pxi[i - 1]

SInv ==
  /\ pxi \in [Nat -> Position] /\ zmssd \in [Position -> Int]
  /\ width \in Nat /\ height \in Nat
  /\ n_steps \in Nat /\ i \in Nat /\ i <= n_steps
  /\ zmssd_best \in Int /\ uv_best \in Nat \cup {NoSample}
  /\ pc \in {"idle", "line", "refine", "search", "matched", "unmatched"}
  /\ pc = "line" => zmssd_best = Threshold /\ uv_best = NoSample
  /\ pc = "search" => LastChecked
  /\ pc \in {"search", "matched", "unmatched"} => Known
  /\ pc \in {"matched", "unmatched"} => i = n_steps
  /\ pc = "matched" => zmssd_best < Threshold
  /\ pc = "unmatched" => zmssd_best >= Threshold

LEMMA ThresholdInt == Threshold \in Int
BY DEF Threshold

LEMMA StepSInv == SInv /\ [Next]_vars => SInv'
<1> SUFFICES ASSUME SInv, [Next]_vars PROVE SInv'
  OBVIOUS
<1>1. CASE FindEpipolarMatchDirect
  BY <1>1, ThresholdInt DEF FindEpipolarMatchDirect, SInv
<1>2. CASE ShortLine
  BY <1>2 DEF ShortLine, SInv, image, search
<1>3. CASE LongLine
  <2>1. CASE UNCHANGED search /\ pc' = "idle"
    BY <1>3, <2>1 DEF LongLine, SInv, image, search
  <2>2. CASE /\ pc' = "search" /\ n_steps' \in Nat /\ i' = 0 /\ last_checked_pxi' = <<0, 0>>
             /\ UNCHANGED <<zmssd_best, uv_best>>
    <3>1. LastChecked'
      BY <2>2 DEF LastChecked
    <3>2. Known'
      BY <1>3, <2>2 DEF LongLine, SInv, Known
    <3> QED BY <1>3, <2>2, <3>1, <3>2 DEF LongLine, SInv, image
  <2> QED BY <1>3, <2>1, <2>2 DEF LongLine
<1>4. ASSUME Sampled
      PROVE  /\ i \in Nat /\ i' = i + 1 /\ i' <= n_steps' /\ LastChecked'
             /\ Known /\ LastChecked /\ pc' = "search" /\ pc = "search"
             /\ UNCHANGED <<pxi, zmssd, width, height, n_steps>>
             /\ pxi[i] \in Position /\ zmssd[pxi[i]] \in Int
  BY <1>4 DEF Sampled, SInv, LastChecked, image
<1>5. CASE Skip
  <2>1. ~InFrame(<<0, 0>>)
    BY DEF InFrame, patch_size_
  <2>2. InFrame(pxi[i]) => i # 0 /\ pxi[i] = pxi[i - 1]
    BY <1>4, <1>5, <2>1 DEF Skip, LastChecked
  <2>3. UNCHANGED <<zmssd_best, uv_best>>
    BY <1>5 DEF Skip
  <2>4. ASSUME NEW k \in 0 .. i, InFrame(pxi[k])
        PROVE  /\ zmssd_best <= zmssd[pxi[k]]
               /\ k < uv_best => zmssd_best < zmssd[pxi[k]]
    <3>1. CASE k < i
      BY <1>4, <1>5, <2>4, <3>1 DEF Skip, Known
    <3>2. CASE k = i
      <4>1. i - 1 \in 0 .. i - 1 /\ InFrame(pxi[i - 1]) /\ pxi[k] = pxi[i - 1]
        BY <1>4, <1>5, <2>2, <2>4, <3>2 DEF Skip
      <4>2. zmssd_best <= zmssd[pxi[k]]
        BY <1>4, <1>5, <4>1 DEF Skip, Known
      <4>3. ~(k < uv_best)
        BY <1>4, <1>5, <3>2 DEF Skip, Known, NoSample
      <4> QED BY <4>2, <4>3
    <3> QED BY <1>4, <1>5, <3>1, <3>2 DEF Skip
  <2>5. Known'
    BY <1>4, <1>5, <2>3, <2>4 DEF Skip, Known, InFrame, NoSample
  <2> QED BY <1>4, <1>5, <2>3, <2>5 DEF Skip, SInv
<1>6. CASE Compare
  <2>1. CASE Better /\ zmssd_best' = zmssd[pxi[i]] /\ uv_best' = i
    <3>1. Known'
      BY <1>4, <1>6, <2>1, ThresholdInt DEF Compare, Better, Known, InFrame, NoSample, SInv
    <3> QED BY <1>4, <1>6, <2>1, <3>1 DEF Compare, SInv
  <2>2. CASE ~Better /\ UNCHANGED <<zmssd_best, uv_best>>
    <3>1. Known'
      BY <1>4, <1>6, <2>2 DEF Compare, Better, Known, InFrame, NoSample, SInv
    <3> QED BY <1>4, <1>6, <2>2, <3>1 DEF Compare, SInv
  <2> QED BY <1>6, <2>1, <2>2 DEF Compare
<1>7. CASE EndSearch
  BY <1>7, ThresholdInt DEF EndSearch, SInv, Known, InFrame, image, search
<1>8. CASE Return
  BY <1>8 DEF Return, SInv, image, search
<1>9. CASE UNCHANGED vars
  BY <1>9 DEF vars, SInv, Known, LastChecked, InFrame, image, search
<1> QED BY <1>1, <1>2, <1>3, <1>5, <1>6, <1>7, <1>8, <1>9 DEF Next

(* The best sample is found, the first of equals, or none is good enough.   *)
THEOREM SearchCorrect == Spec => []SearchExact
<1>1. Init => SInv
  BY ThresholdInt DEF Init, SInv
<1>2. SInv => SearchExact
  BY ThresholdInt DEF SInv, SearchExact, Known, Samples, NoSample
<1> QED BY <1>1, <1>2, StepSInv, PTL DEF Spec

-----------------------------------------------------------------------------
(* The tracked corners                                                      *)

LEMMA Erased ==
  ASSUME NEW s \in Seq(Nat), NEW k \in 1 .. Len(s)
  PROVE  /\ Erase(s, k) \in Seq(Nat) /\ Len(Erase(s, k)) = Len(s) - 1
         /\ \A j \in 1 .. Len(s) - 1 : Erase(s, k)[j] = IF j < k THEN s[j] ELSE s[j + 1]
<1> DEFINE before == SubSeq(s, 1, k - 1)
           after == SubSeq(s, k + 1, Len(s))
<1>1. Len(s) \in Nat /\ k \in Nat /\ 1 <= k /\ k <= Len(s) /\ \A j \in 1 .. Len(s) : s[j] \in Nat
  BY LenProperties, ElementOfSeq
<1>2. /\ before \in Seq(Nat) /\ Len(before) = k - 1
      /\ \A j \in 1 .. k - 1 : before[j] = s[j]
  <2>1. \A j \in 1 .. k - 1 : s[j] \in Nat
    BY <1>1
  <2>2. /\ before \in Seq(Nat) /\ Len(before) = IF 1 <= k - 1 THEN (k - 1) - 1 + 1 ELSE 0
        /\ \A j \in 1 .. (k - 1) - 1 + 1 : before[j] = s[1 + j - 1]
    <3>1. 1 \in Int /\ k - 1 \in Int
      BY <1>1
    <3> QED BY <2>1, <3>1, SubSeqProperties
  <2> QED BY <1>1, <2>2
<1>3. /\ after \in Seq(Nat) /\ Len(after) = Len(s) - k
      /\ \A j \in 1 .. Len(s) - k : after[j] = s[k + j]
  <2>1. \A j \in k + 1 .. Len(s) : s[j] \in Nat
    BY <1>1
  <2>2. /\ after \in Seq(Nat)
        /\ Len(after) = IF k + 1 <= Len(s) THEN Len(s) - (k + 1) + 1 ELSE 0
        /\ \A j \in 1 .. Len(s) - (k + 1) + 1 : after[j] = s[(k + 1) + j - 1]
    <3>1. k + 1 \in Int /\ Len(s) \in Int
      BY <1>1
    <3> QED BY <2>1, <3>1, SubSeqProperties
  <2> QED BY <1>1, <2>2
<1> HIDE DEF before, after
<1>4. /\ before \o after \in Seq(Nat) /\ Len(before \o after) = Len(before) + Len(after)
      /\ \A j \in 1 .. Len(before) + Len(after) :
           (before \o after)[j] = IF j <= Len(before) THEN before[j] ELSE after[j - Len(before)]
  BY <1>2, <1>3, ConcatProperties
<1>5. Erase(s, k) = before \o after
  BY DEF Erase, before, after
<1>6. Len(before) + Len(after) = Len(s) - 1
  BY <1>1, <1>2, <1>3
<1>7. ASSUME NEW j \in 1 .. Len(s) - 1
      PROVE  (before \o after)[j] = IF j < k THEN s[j] ELSE s[j + 1]
  <2>1. (before \o after)[j] = IF j <= k - 1 THEN before[j] ELSE after[j - (k - 1)]
    BY <1>2, <1>4, <1>6
  <2>2. CASE j < k
    BY <1>1, <1>2, <2>1, <2>2
  <2>3. CASE ~(j < k)
    <3>1. j - (k - 1) \in 1 .. Len(s) - k /\ k + (j - (k - 1)) = j + 1 /\ ~(j <= k - 1)
      BY <1>1, <2>3
    <3> QED BY <1>3, <2>1, <2>3, <3>1
  <2> QED BY <2>2, <2>3
<1> QED BY <1>4, <1>5, <1>6, <1>7

(* Between the iterators and the end are the corners whose status has not   *)
(* been read; before them are those that were found.                       *)
WalkInv ==
  /\ status \subseteq 1 .. Len(tracked)
  /\ at <= Len(px_ref_) + 1 /\ Len(px_ref_) + entry = Len(tracked) + at
  /\ \A d \in Nat : at + d <= Len(px_ref_) => px_ref_[at + d] = tracked[entry + d]
  /\ disparities_ = at - 1 /\ Len(f_cur_) = at - 1
  /\ \A j \in 1 .. at - 1 : f_cur_[j] = px_ref_[j]
  /\ \A j \in 1 .. at - 1 : \E k \in status : k < entry /\ px_ref_[j] = tracked[k]
  /\ \A k \in status : k < entry => \E j \in 1 .. at - 1 : px_ref_[j] = tracked[k]

KltInv ==
  /\ px_ref_ \in Seq(Nat) /\ f_cur_ \in Seq(Nat) /\ tracked \in Seq(Nat)
  /\ at \in Nat \ {0} /\ entry \in Nat \ {0}
  /\ frame_ref_ \in BOOLEAN /\ call \in {"none", "trackKlt", "success"}
  /\ call # "none" => frame_ref_
  /\ f_ref_ = px_ref_ /\ (frame_ref_ => px_cur_ = px_ref_)
  /\ \A j, k \in 1 .. Len(px_ref_) : px_ref_[j] = px_ref_[k] => j = k
  /\ call = "trackKlt" => WalkInv
  /\ OneCorner

LEMMA KltInitInv == KltInit => KltInv
<1>1. <<>> \in Seq(Nat) /\ Len(<<>>) = 0
  BY EmptySeq
<1>2. ASSUME KltInit PROVE KltInv
  <2>1. /\ frame_ref_ = FALSE /\ call = "none" /\ px_ref_ = <<>> /\ f_ref_ = <<>>
        /\ f_cur_ = <<>> /\ tracked = <<>> /\ at = 1 /\ entry = 1
    BY <1>2 DEF KltInit
  <2>2. \A j, k \in 1 .. Len(px_ref_) : px_ref_[j] = px_ref_[k] => j = k
    BY <1>1, <2>1
  <2>3. frame_ref_ \in BOOLEAN /\ ~frame_ref_
    BY <2>1, Zenon
  <2>4. at \in Nat \ {0} /\ entry \in Nat \ {0}
    BY <2>1
  <2>5. px_ref_ \in Seq(Nat) /\ f_cur_ \in Seq(Nat) /\ tracked \in Seq(Nat) /\ f_ref_ = px_ref_
    BY <1>1, <2>1
  <2> QED BY <2>1, <2>2, <2>3, <2>4, <2>5, Zenon DEF KltInv, OneCorner
<1> QED BY <1>2

LEMMA AddFirstFrameInv ==
  ASSUME KltInv, AddFirstFrame PROVE KltInv'
<1>1. PICK n \in Nat :
        /\ px_ref_' = [k \in 1 .. n |-> k] /\ f_ref_' = px_ref_'
        /\ \/ n < MinCorners /\ frame_ref_' = FALSE /\ px_cur_' = <<>>
           \/ n >= MinCorners /\ frame_ref_' = TRUE /\ px_cur_' = px_ref_'
  BY DEF AddFirstFrame, DetectFeatures
<1>2. call = "none" /\ UNCHANGED <<f_cur_, disparities_, at, entry, status, tracked, call>>
  BY DEF AddFirstFrame, bearings, walk
<1>3. px_ref_' \in Seq(Nat) /\ Len(px_ref_') = n /\ \A k \in 1 .. n : px_ref_'[k] = k
  <2>1. px_ref_' \in [1 .. n -> Nat]
    BY <1>1
  <2>2. px_ref_' \in Seq(Nat)
    BY <2>1, SeqDef
  <2>3. 1 .. Len(px_ref_') = 1 .. n /\ Len(px_ref_') \in Nat
    BY <2>1, <2>2, LenProperties
  <2>4. Len(px_ref_') = n
    BY <2>3
  <2> QED BY <1>1, <2>2, <2>4
<1>4. frame_ref_' \in BOOLEAN /\ (frame_ref_' => px_cur_' = px_ref_')
  BY <1>1
<1>5. \A j, k \in 1 .. Len(px_ref_') : px_ref_'[j] = px_ref_'[k] => j = k
  BY <1>3
<1> QED BY <1>1, <1>2, <1>3, <1>4, <1>5 DEF KltInv, OneCorner

LEMMA AddSecondFrameInv ==
  ASSUME KltInv, AddSecondFrame PROVE KltInv'
<1>1. /\ call = "none" /\ frame_ref_ /\ call' = "trackKlt"
      /\ f_cur_' = <<>> /\ disparities_' = 0
      /\ at' = 1 /\ entry' = 1 /\ tracked' = px_ref_
      /\ status' \in SUBSET (1 .. Len(px_ref_))
      /\ UNCHANGED <<frame_ref_, px_ref_, px_cur_, f_ref_, features>>
  BY DEF AddSecondFrame, vectors
<1>2. <<>> \in Seq(Nat) /\ Len(<<>>) = 0
  BY EmptySeq
<1>3. Len(px_ref_) \in Nat
  BY LenProperties DEF KltInv
<1>4. WalkInv'
  BY <1>1, <1>2, <1>3 DEF WalkInv
<1> QED BY <1>1, <1>2, <1>4 DEF KltInv, OneCorner

(* What holds while the iterators have not reached the end.                 *)
LEMMA WhileWalking ==
  ASSUME KltInv, Walking
  PROVE  /\ WalkInv /\ frame_ref_ /\ px_cur_ = px_ref_ /\ f_ref_ = px_ref_
         /\ Len(px_ref_) \in Nat /\ Len(tracked) \in Nat /\ at \in 1 .. Len(px_ref_)
         /\ entry \in 1 .. Len(tracked) /\ px_ref_[at] = tracked[entry] /\ px_ref_[at] \in Nat
<1>1. Len(px_ref_) \in Nat /\ Len(tracked) \in Nat
  BY LenProperties DEF KltInv
<1>2. WalkInv /\ frame_ref_ /\ px_cur_ = px_ref_ /\ f_ref_ = px_ref_
  BY DEF KltInv, Walking
<1>3. at \in 1 .. Len(px_ref_) /\ entry \in 1 .. Len(tracked)
  BY <1>1, <1>2 DEF KltInv, Walking, WalkInv
<1>4. px_ref_[at] = tracked[entry]
  <2>1. at + 0 = at /\ entry + 0 = entry /\ at + 0 <= Len(px_ref_)
    BY <1>1, <1>3
  <2>2. px_ref_[at + 0] = tracked[entry + 0]
    BY <1>2, <2>1 DEF WalkInv
  <2> QED BY <2>1, <2>2
<1>5. px_ref_[at] \in Nat
  BY <1>3, ElementOfSeq DEF KltInv
<1> QED BY <1>1, <1>2, <1>3, <1>4, <1>5

LEMMA LoseCornerInv ==
  ASSUME KltInv, LoseCorner PROVE KltInv'
<1>1. /\ Walking /\ entry \notin status
      /\ px_ref_' = Erase(px_ref_, at) /\ px_cur_' = Erase(px_cur_, at) /\ f_ref_' = Erase(f_ref_, at)
      /\ entry' = entry + 1
      /\ UNCHANGED <<frame_ref_, f_cur_, disparities_, at, status, tracked, features, call>>
  BY DEF LoseCorner, bearings
<1>2. /\ WalkInv /\ frame_ref_ /\ px_cur_ = px_ref_ /\ f_ref_ = px_ref_
      /\ Len(px_ref_) \in Nat /\ Len(tracked) \in Nat /\ at \in 1 .. Len(px_ref_)
      /\ entry \in 1 .. Len(tracked)
  BY <1>1, WhileWalking
<1>3. /\ px_ref_' \in Seq(Nat) /\ Len(px_ref_') = Len(px_ref_) - 1
      /\ \A j \in 1 .. Len(px_ref_) - 1 : px_ref_'[j] = IF j < at THEN px_ref_[j] ELSE px_ref_[j + 1]
  BY <1>1, <1>2, Erased DEF KltInv
<1>4. px_cur_' = px_ref_' /\ f_ref_' = px_ref_'
  BY <1>1, <1>2
<1>5. ASSUME NEW j \in 1 .. Len(px_ref_'), NEW k \in 1 .. Len(px_ref_'), px_ref_'[j] = px_ref_'[k]
      PROVE  j = k
  <2> DEFINE old(l) == IF l < at THEN l ELSE l + 1
  <2>1. \A l \in 1 .. Len(px_ref_) - 1 : old(l) \in 1 .. Len(px_ref_) /\ px_ref_'[l] = px_ref_[old(l)]
    <3> SUFFICES ASSUME NEW l \in 1 .. Len(px_ref_) - 1
                 PROVE  old(l) \in 1 .. Len(px_ref_) /\ px_ref_'[l] = px_ref_[old(l)]
      OBVIOUS
    <3>1. CASE l < at
      BY <1>2, <1>3, <3>1
    <3>2. CASE ~(l < at)
      BY <1>2, <1>3, <3>2
    <3> QED BY <3>1, <3>2
  <2>2. j \in 1 .. Len(px_ref_) - 1 /\ k \in 1 .. Len(px_ref_) - 1
    BY <1>3
  <2>3. px_ref_[old(j)] = px_ref_[old(k)]
    BY <1>5, <2>1, <2>2
  <2>4. old(j) = old(k)
    <3> HIDE DEF old
    <3> QED BY <2>1, <2>2, <2>3 DEF KltInv
  <2> QED BY <1>2, <2>2, <2>4
<1>6. WalkInv'
  <2>1. /\ status' \subseteq 1 .. Len(tracked')
        /\ at' <= Len(px_ref_') + 1 /\ Len(px_ref_') + entry' = Len(tracked') + at'
        /\ disparities_' = at' - 1 /\ Len(f_cur_') = at' - 1
    <3>1. /\ status \subseteq 1 .. Len(tracked) /\ disparities_ = at - 1 /\ Len(f_cur_) = at - 1
          /\ Len(px_ref_) + entry = Len(tracked) + at
      BY <1>2 DEF WalkInv
    <3>2. at <= Len(px_ref_') + 1 /\ Len(px_ref_') + (entry + 1) = Len(tracked) + at
      <4>1. Len(px_ref_') = Len(px_ref_) - 1
        BY <1>3
      <4>2. Len(px_ref_) \in Nat /\ Len(tracked) \in Nat /\ at \in Nat /\ entry \in Nat /\ at <= Len(px_ref_)
        BY <1>2
      <4> HIDE <1>2, <1>3
      <4> QED BY <3>1, <4>1, <4>2
    <3> QED BY <1>1, <3>1, <3>2
  <2>2. ASSUME NEW d \in Nat, at + d <= Len(px_ref_') PROVE px_ref_'[at + d] = tracked[entry' + d]
    <3>1. /\ px_ref_'[at + d] = px_ref_[at + (d + 1)] /\ at + (d + 1) <= Len(px_ref_)
          /\ d + 1 \in Nat /\ entry' + d = entry + (d + 1)
      BY <1>1, <1>2, <1>3, <2>2
    <3>2. px_ref_[at + (d + 1)] = tracked[entry + (d + 1)]
      BY <1>2, <3>1 DEF WalkInv
    <3> QED BY <1>1, <1>2, <3>1, <3>2
  <2>3. \A j \in 1 .. at - 1 : px_ref_'[j] = px_ref_[j]
    BY <1>2, <1>3
  <2>4. \A j \in 1 .. at - 1 : \E k \in status : k < entry' /\ px_ref_'[j] = tracked[k]
    <3> SUFFICES ASSUME NEW j \in 1 .. at - 1
                 PROVE  \E k \in status : k < entry' /\ px_ref_'[j] = tracked[k]
      OBVIOUS
    <3>1. PICK k \in status : k < entry /\ px_ref_[j] = tracked[k]
      BY <1>2 DEF WalkInv
    <3>2. k \in Nat
      BY <1>2 DEF WalkInv
    <3> QED BY <1>1, <1>2, <2>3, <3>1, <3>2
  <2>5. ASSUME NEW k \in status, k < entry' PROVE \E j \in 1 .. at - 1 : px_ref_'[j] = tracked[k]
    <3>1. k \in Nat /\ k < entry
      BY <1>1, <1>2, <2>5 DEF WalkInv
    <3>2. PICK j \in 1 .. at - 1 : px_ref_[j] = tracked[k]
      BY <1>2, <3>1 DEF WalkInv
    <3> QED BY <2>3, <3>2
  <2>6. \A j \in 1 .. at' - 1 : f_cur_'[j] = px_ref_'[j]
    BY <1>1, <1>2, <2>3 DEF WalkInv
  <2> QED BY <1>1, <2>1, <2>2, <2>4, <2>5, <2>6 DEF WalkInv
<1>7. call' = "trackKlt" /\ OneCorner'
  BY <1>1 DEF Walking, OneCorner
<1> QED BY <1>1, <1>2, <1>3, <1>4, <1>5, <1>6, <1>7 DEF KltInv

LEMMA KeepCornerInv ==
  ASSUME KltInv, KeepCorner PROVE KltInv'
<1>1. /\ Walking /\ entry \in status
      /\ f_cur_' = Append(f_cur_, px_cur_[at]) /\ disparities_' = disparities_ + 1
      /\ at' = at + 1 /\ entry' = entry + 1
      /\ UNCHANGED <<frame_ref_, px_ref_, px_cur_, f_ref_, status, tracked, features, call>>
  BY DEF KeepCorner, vectors
<1>2. /\ WalkInv /\ frame_ref_ /\ px_cur_ = px_ref_
      /\ Len(px_ref_) \in Nat /\ Len(tracked) \in Nat /\ at \in 1 .. Len(px_ref_)
      /\ entry \in 1 .. Len(tracked) /\ px_ref_[at] = tracked[entry] /\ px_ref_[at] \in Nat
  BY <1>1, WhileWalking
<1>3. /\ f_cur_' \in Seq(Nat) /\ Len(f_cur_') = at
      /\ \A j \in 1 .. at - 1 : f_cur_'[j] = f_cur_[j]
      /\ f_cur_'[at] = px_ref_[at]
  <2>1. f_cur_ \in Seq(Nat) /\ Len(f_cur_) = at - 1
    BY <1>2 DEF KltInv, WalkInv
  <2> QED BY <1>1, <1>2, <2>1, AppendProperties, SMTT(30)
<1>4. WalkInv'
  <2>1. /\ at' <= Len(px_ref_') + 1 /\ Len(px_ref_') + entry' = Len(tracked') + at'
        /\ disparities_' = at' - 1 /\ Len(f_cur_') = at' - 1
        /\ status' \subseteq 1 .. Len(tracked')
    <3>1. /\ status \subseteq 1 .. Len(tracked) /\ disparities_ = at - 1
          /\ Len(px_ref_) + entry = Len(tracked) + at
      BY <1>2 DEF WalkInv
    <3>2. /\ at + 1 <= Len(px_ref_) + 1 /\ Len(px_ref_) + (entry + 1) = Len(tracked) + (at + 1)
          /\ disparities_ + 1 = (at + 1) - 1 /\ at = (at + 1) - 1
      BY <1>2, <3>1
    <3> QED BY <1>1, <1>3, <3>1, <3>2
  <2>2. ASSUME NEW d \in Nat, at' + d <= Len(px_ref_) PROVE px_ref_[at' + d] = tracked[entry' + d]
    <3>1. at' + d = at + (d + 1) /\ entry' + d = entry + (d + 1) /\ d + 1 \in Nat
      BY <1>1, <1>2
    <3>2. at + (d + 1) <= Len(px_ref_) => px_ref_[at + (d + 1)] = tracked[entry + (d + 1)]
      BY <1>2, <3>1 DEF WalkInv
    <3> QED BY <2>2, <3>1, <3>2
  <2>3. \A j \in 1 .. at' - 1 : j \in 1 .. at - 1 \/ j = at
    BY <1>1, <1>2
  <2>4. \A j \in 1 .. at' - 1 : f_cur_'[j] = px_ref_[j]
    BY <1>2, <1>3, <2>3 DEF WalkInv
  <2>5. ASSUME NEW j \in 1 .. at' - 1 PROVE \E k \in status : k < entry' /\ px_ref_[j] = tracked[k]
    <3>1. CASE j = at
      <4>1. entry < entry'
        BY <1>1, <1>2
      <4> QED BY <1>1, <1>2, <3>1, <4>1
    <3>2. CASE j \in 1 .. at - 1
      <4>1. PICK k \in status : k < entry /\ px_ref_[j] = tracked[k]
        BY <1>2, <3>2 DEF WalkInv
      <4>2. k \in Nat
        BY <1>2 DEF WalkInv
      <4> QED BY <1>1, <1>2, <4>1, <4>2
    <3> QED BY <2>3, <3>1, <3>2
  <2>6. ASSUME NEW k \in status, k < entry' PROVE \E j \in 1 .. at' - 1 : px_ref_[j] = tracked[k]
    <3>1. k < entry \/ k = entry
      BY <1>1, <1>2, <2>6 DEF WalkInv
    <3>2. CASE k = entry
      <4>1. at \in 1 .. at' - 1
        BY <1>1, <1>2
      <4> QED BY <1>2, <3>2, <4>1
    <3>3. CASE k < entry
      <4>1. PICK j \in 1 .. at - 1 : px_ref_[j] = tracked[k]
        BY <1>2, <3>3 DEF WalkInv
      <4>2. j \in 1 .. at' - 1
        BY <1>1, <1>2
      <4> QED BY <4>1, <4>2
    <3> QED BY <3>1, <3>2, <3>3
  <2> QED BY <1>1, <2>1, <2>2, <2>4, <2>5, <2>6 DEF WalkInv
<1>5. call' = "trackKlt" /\ OneCorner' /\ at' \in Nat \ {0} /\ entry' \in Nat \ {0}
  BY <1>1, <1>2 DEF Walking, OneCorner
<1> QED BY <1>1, <1>3, <1>4, <1>5 DEF KltInv

(* What holds when they have.                                               *)
LEMMA WhenTracked ==
  ASSUME KltInv, Tracked
  PROVE  /\ WalkInv /\ px_cur_ = px_ref_ /\ f_ref_ = px_ref_ /\ Len(f_cur_) = Len(px_ref_)
         /\ Len(px_ref_) \in Nat /\ disparities_ = Len(px_ref_)
         /\ \A j \in 1 .. Len(px_ref_) : f_cur_[j] = px_ref_[j]
         /\ \A j \in 1 .. Len(px_ref_) : \E k \in status : px_ref_[j] = tracked[k]
         /\ \A k \in status : \E j \in 1 .. Len(px_ref_) : px_ref_[j] = tracked[k]
<1>1. Len(px_ref_) \in Nat /\ Len(tracked) \in Nat /\ WalkInv
  BY LenProperties DEF KltInv, Tracked
<1>2. at = Len(px_ref_) + 1 /\ entry = Len(tracked) + 1 /\ at - 1 = Len(px_ref_)
  BY <1>1 DEF KltInv, Tracked, WalkInv
<1>3. \A k \in status : k < entry
  BY <1>1, <1>2 DEF WalkInv
<1> QED BY <1>1, <1>2, <1>3 DEF KltInv, Tracked, WalkInv

LEMMA CreatePointsInv ==
  ASSUME KltInv, CreatePoints PROVE KltInv'
<1>1. PICK seen \in SUBSET (1 .. Len(f_cur_)) :
        features' = {[px_cur |-> px_cur_[k], f_cur |-> f_cur_[k],
                      px_ref |-> px_ref_[k], f_ref |-> f_ref_[k]] : k \in seen}
  BY DEF CreatePoints, Inliers
<1>2. /\ Tracked /\ call' = "success"
      /\ UNCHANGED <<frame_ref_, px_ref_, px_cur_, f_ref_, f_cur_, disparities_, at, entry, status,
                     tracked>>
  BY DEF CreatePoints, vectors, bearings, walk
<1>3. ASSUME NEW f \in features'
      PROVE  /\ f.px_cur = f.px_ref /\ f.f_cur = f.px_ref /\ f.f_ref = f.px_ref
             /\ \E k \in status : f.px_ref = tracked[k]
  <2>1. PICK k \in seen : f = [px_cur |-> px_cur_[k], f_cur |-> f_cur_[k],
                               px_ref |-> px_ref_[k], f_ref |-> f_ref_[k]]
    BY <1>1
  <2>2. k \in 1 .. Len(px_ref_)
    BY <1>2, WhenTracked
  <2>3. px_cur_[k] = px_ref_[k] /\ f_cur_[k] = px_ref_[k] /\ f_ref_[k] = px_ref_[k]
    BY <1>2, <2>2, WhenTracked
  <2>4. \E l \in status : px_ref_[k] = tracked[l]
    BY <1>2, <2>2, WhenTracked
  <2> QED BY <2>1, <2>3, <2>4
<1>4. OneCorner'
  BY <1>2, <1>3 DEF OneCorner
<1> QED BY <1>2, <1>4 DEF KltInv, Tracked

LEMMA KltStep == KltInv /\ [KltNext]_kltVars => KltInv'
<1> SUFFICES ASSUME KltInv, [KltNext]_kltVars PROVE KltInv'
  OBVIOUS
<1>1. CASE NotYet
  <2>1. /\ call' = "none"
        /\ UNCHANGED <<frame_ref_, px_ref_, px_cur_, f_ref_, f_cur_, at, entry, tracked, features>>
    BY <1>1 DEF NotYet, vectors, bearings, walk
  <2> QED BY <2>1 DEF KltInv, OneCorner
<1>2. CASE KltReset
  <2>1. /\ call' = "none" /\ frame_ref_' = FALSE
        /\ UNCHANGED <<px_ref_, f_ref_, f_cur_, at, entry, tracked, features>>
    BY <1>2 DEF KltReset, bearings, walk
  <2> QED BY <2>1 DEF KltInv, OneCorner
<1>3. CASE UNCHANGED kltVars
  <2>1. UNCHANGED <<frame_ref_, px_ref_, px_cur_, f_ref_, f_cur_, disparities_, at, entry, status,
                    tracked, features, call>>
    BY <1>3 DEF kltVars, vectors, bearings, walk
  <2> QED BY <2>1 DEF KltInv, WalkInv, OneCorner
<1> QED BY <1>1, <1>2, <1>3, AddFirstFrameInv, AddSecondFrameInv, LoseCornerInv, KeepCornerInv,
           CreatePointsInv DEF KltNext

LEMMA KltInvariance == KltSpec => []KltInv
BY KltInitInv, KltStep, PTL DEF KltSpec

(* trackKlt reads the status of the corner its iterators are at, however    *)
(* many were erased before, and leaves vectors of one length to the next   *)
(* call.                                                                   *)
THEOREM StatusCorrect == KltSpec => []StatusOfCorner
<1>1. KltInv => StatusOfCorner
  <2>1. KltInv /\ frame_ref_ => Len(px_cur_) = Len(px_ref_) /\ Len(f_ref_) = Len(px_ref_)
    BY DEF KltInv
  <2>2. KltInv /\ Walking => /\ at <= Len(px_cur_) /\ at <= Len(f_ref_)
                             /\ entry \in 1 .. Len(tracked) /\ px_ref_[at] = tracked[entry]
    BY WhileWalking
  <2> QED BY <2>1, <2>2 DEF StatusOfCorner
<1> QED BY <1>1, KltInvariance, PTL

(* After trackKlt exactly the corners that were found again are left, each  *)
(* once, and disparities_ has one entry for each.                          *)
THEOREM TrackingCorrect == KltSpec => []KeptExactly
<1>1. ASSUME KltInv, Tracked
      PROVE  /\ {px_ref_[k] : k \in 1 .. Len(px_ref_)} = {tracked[k] : k \in status}
             /\ \A j, k \in 1 .. Len(px_ref_) : px_ref_[j] = px_ref_[k] => j = k
             /\ disparities_ = Len(px_ref_)
  <2>1. \A j \in 1 .. Len(px_ref_) : \E k \in status : px_ref_[j] = tracked[k]
    BY <1>1, WhenTracked
  <2>2. \A k \in status : \E j \in 1 .. Len(px_ref_) : px_ref_[j] = tracked[k]
    BY <1>1, WhenTracked
  <2>3. {px_ref_[k] : k \in 1 .. Len(px_ref_)} = {tracked[k] : k \in status}
    BY <2>1, <2>2
  <2> QED BY <1>1, <2>3, WhenTracked DEF KltInv
<1>2. KltInv => KeptExactly
  BY <1>1 DEF KeptExactly
<1> QED BY <1>2, KltInvariance, PTL

(* Each point of the first map gets its two pixels and its two bearings     *)
(* from one corner, which was found in every image up to this one.         *)
THEOREM PointsCorrect == KltSpec => []OneCorner
<1>1. KltInv => OneCorner
  BY DEF KltInv
<1> QED BY <1>1, KltInvariance, PTL
=============================================================================
