---------------------------- MODULE HandlerProofs ----------------------------
(***************************************************************************)
(* Theorems about the state machine of SVO, for every configuration        *)
(* (FrameHandlerBase); about the ring buffers it keeps its timings and its *)
(* numbers of observations in, for every size and all values (RingBuffer); *)
(* and about the keys its user types, however the two threads run that     *)
(* hand them over (UserInputThread).                                       *)
(***************************************************************************)
EXTENDS FrameHandlerBase, RingBuffer, UserInputThread, FiniteSetTheorems, SequenceTheorems, TLAPS

(* What holds in the middle of addImage: resetAll has a caller, what it has *)
(* emptied is empty, and a paused tracker processes nothing.                *)
CallsAgree ==
  /\ pc \in {"reset", "clear"} <=> caller # "none"
  /\ pc = "clear" => stage_ = "paused" /\ map_size = 0
  /\ pc = "process" => stage_ # "paused"

SInv == TypeOK /\ StageOfMap /\ CallsAgree

LEMMA InitSInv == Init => SInv
<1> SUFFICES ASSUME Init PROVE SInv
  OBVIOUS
<1>1. TypeOK
  <2>1. map_size = 0 /\ (MaxNKfs > 2 => map_size <= MaxNKfs)
    BY ConfigAssumption DEF Init
  <2>2. set_start_ \in BOOLEAN /\ set_reset_ \in BOOLEAN
    BY DEF Init
  <2>3. num_obs_last_ \in Nat /\ map_size \in Nat
    BY DEF Init
  <2> QED BY <2>1, <2>2, <2>3, Zenon DEF Init, TypeOK, Stages, PCs, Callers
<1> QED BY <1>1 DEF SInv, Init, StageOfMap, CallsAgree

(* A full map does not grow.                                                *)
LEMMA SizeKept ==
  ASSUME map_size \in Nat, MaxNKfs > 2 => map_size <= MaxNKfs
  PROVE  /\ SizeWithKeyframe \in Nat /\ SizeWithKeyframe >= map_size
         /\ MaxNKfs > 2 => SizeWithKeyframe <= MaxNKfs
BY ConfigAssumption DEF SizeWithKeyframe, MapFull

(* The quality of a frame is one of the two.                                *)
LEMMA QualityTyped ==
  ASSUME tracking_quality_ \in {"insufficient", "good"}, NEW matches, NEW edges
  PROVE  QualityAfter(matches, edges) \in {"insufficient", "good"}
BY DEF QualityAfter, SetTrackingQuality

(* One step at a time.                                                      *)
LEMMA StepSInv == SInv /\ [Next]_vars => SInv'
<1>s. SUFFICES ASSUME SInv, [Next]_vars PROVE SInv'
  OBVIOUS
<1> USE <1>s, ConfigAssumption, MatchesAssumption
<1> USE DEF SInv, TypeOK, StageOfMap, CallsAgree, Stages, PCs, Callers, requests, tracking
<1>1. CASE Start
  BY <1>1 DEF Start
<1>2. CASE Reset
  BY <1>2 DEF Reset
<1>3. CASE AddImage
  BY <1>3 DEF AddImage, StartRequested, CallReset, Goto
<1>4. CASE ProcessFirstFrame
  BY <1>4 DEF ProcessFirstFrame, Finish, Goto
<1>5. CASE ProcessSecondFrame
  BY <1>5 DEF ProcessSecondFrame, Finish, FinishFailed, CanRelocalize, LostQuality, CallReset, Goto
<1>6. CASE ProcessFrame
  <2>1. PICK matches \in Matches : \E edges \in 0 .. matches :
          \/ \E size \in {map_size, SizeWithKeyframe} : Finish("default", "good", size, matches)
          \/ FinishFailed(QualityAfter(matches, edges), matches)
    BY <1>6 DEF ProcessFrame
  <2>2. CanRelocalize(stage_) /\ matches \in Nat
    BY <1>6 DEF ProcessFrame
  <2>3. CASE \E size \in {map_size, SizeWithKeyframe} : Finish("default", "good", size, matches)
    BY <2>2, <2>3, SizeKept DEF Finish, Goto, CanRelocalize
  <2>4. CASE \E edges \in 0 .. matches : FinishFailed(QualityAfter(matches, edges), matches)
    BY <2>2, <2>4 DEF FinishFailed, Finish, LostQuality, Goto, CanRelocalize
  <2> QED BY <2>1, <2>3, <2>4
<1>7. CASE RelocalizeFrameFails
  BY <1>7 DEF RelocalizeFrameFails, FinishFailed, Finish, CanRelocalize, LostQuality, Goto
<1>8. CASE FinishTest
  BY <1>8 DEF FinishTest, ResetRequested, CallReset, Goto
<1>9. CASE ResetCommon
  <2>1. map_size' = 0 /\ (MaxNKfs > 2 => map_size' <= MaxNKfs)
    BY <1>9 DEF ResetCommon
  <2>2. set_reset_' \in BOOLEAN
    BY <1>9, Zenon DEF ResetCommon
  <2>3. map_size' \in Nat
    BY <2>1
  <2> QED BY <1>9, <2>1, <2>2, <2>3 DEF ResetCommon, Goto
<1>10. CASE ResetReturn
  <2>1. pc = "clear" /\ caller \in Callers
    BY <1>10 DEF ResetReturn
  <2>2. /\ pc' = IF caller = "start" THEN "process" ELSE IF caller = "failure" THEN "test" ELSE "idle"
        /\ stage_' = IF caller = "start" THEN "first" ELSE "paused"
        /\ caller' = "none" /\ map_size' = 0 /\ map_size' = map_size
    BY <1>10, <2>1 DEF ResetReturn, After
  <2> QED BY <1>10, <2>1, <2>2 DEF ResetReturn
<1>11. CASE RelocalizeFrameAtPose
  <2>1. PICK matches \in Matches : \E edges \in 0 .. matches :
          \/ /\ stage_' = "default" /\ tracking_quality_' = "good"
             /\ map_size' \in {map_size, SizeWithKeyframe}
          \/ /\ tracking_quality_' = QualityAfter(matches, edges)
             /\ UNCHANGED <<stage_, map_size>>
    BY <1>11 DEF RelocalizeFrameAtPose
  <2>2. Goto("idle", "idle") /\ map_size > 1 /\ UNCHANGED <<requests, num_obs_last_>>
    BY <1>11 DEF RelocalizeFrameAtPose
  <2> QED BY <2>1, <2>2, SizeKept, QualityTyped DEF Goto
<1>12. CASE UNCHANGED vars
  BY <1>12 DEF vars
<1> QED
  BY <1>1, <1>2, <1>3, <1>4, <1>5, <1>6, <1>7, <1>8, <1>9, <1>10, <1>11, <1>12 DEF Next, ImageStep

(* The types, and the limit on the number of keyframes, for every limit:    *)
(* with a limit of two or less none is ever removed.                        *)
THEOREM TypesCorrect == Spec => []TypeOK
<1>1. SInv => TypeOK
  BY DEF SInv
<1> QED BY InitSInv, StepSInv, <1>1, PTL DEF Spec

(* The stage agrees with the number of keyframes, whenever the user asks    *)
(* for what, and whichever frames fail.                                     *)
THEOREM StagesCorrect == Spec => []StageOfMap
<1>1. SInv => StageOfMap
  BY DEF SInv
<1> QED BY InitSInv, StepSInv, <1>1, PTL DEF Spec

(* Except in the middle of a reset, a good quality means that frames are    *)
(* tracked.                                                                *)
GoodMeansTracked ==
  pc \notin {"reset", "clear"} /\ tracking_quality_ = "good" => stage_ = "default"

QInv == SInv /\ GoodMeansTracked

(* A failure in the default stage leaves the quality insufficient, whatever *)
(* processFrame made of it, and so does a reset.                            *)
THEOREM QualityCorrect == Spec => []QualityOfStage
<1>1. Init => QInv
  BY InitSInv DEF Init, QInv, GoodMeansTracked
<1>2. QInv /\ [Next]_vars => QInv'
  <2>s. SUFFICES ASSUME QInv, [Next]_vars PROVE GoodMeansTracked'
    BY StepSInv DEF QInv
  <2> USE <2>s
  <2> USE DEF QInv, GoodMeansTracked, requests, tracking
  <2>1. CASE Start \/ Reset
    BY <2>1 DEF Start, Reset
  <2>2. CASE AddImage
    BY <2>2 DEF AddImage, CallReset, Goto
  <2>3. CASE ProcessFirstFrame
    BY <2>3 DEF ProcessFirstFrame, Finish, Goto
  <2>4. CASE ProcessSecondFrame
    BY <2>4 DEF ProcessSecondFrame, Finish, FinishFailed, LostQuality, CallReset, Goto
  <2>5. CASE ProcessFrame
    BY <2>5 DEF ProcessFrame, Finish, FinishFailed, LostQuality, CallReset, Goto
  <2>6. CASE RelocalizeFrameFails
    BY <2>6 DEF RelocalizeFrameFails, Finish, FinishFailed, LostQuality, CallReset, Goto
  <2>7. CASE FinishTest
    BY <2>7 DEF FinishTest, CallReset, Goto
  <2>8. CASE ResetCommon
    BY <2>8 DEF ResetCommon, Goto
  <2>9. CASE ResetReturn
    BY <2>9 DEF ResetReturn
  <2>10. CASE RelocalizeFrameAtPose
    <3>1. PICK matches \in Matches : \E edges \in 0 .. matches :
            \/ stage_' = "default"
            \/ /\ ~Tracked(matches, edges)
               /\ tracking_quality_' = QualityAfter(matches, edges) /\ stage_' = stage_
      BY <2>10 DEF RelocalizeFrameAtPose
    <3>2. pc = "idle"
      BY <2>10 DEF RelocalizeFrameAtPose, Goto
    <3>3. ASSUME NEW edges \in 0 .. matches, ~Tracked(matches, edges)
          PROVE  QualityAfter(matches, edges) \in {"insufficient", tracking_quality_}
      BY <3>3, MatchesAssumption, ConfigAssumption DEF Tracked, QualityAfter, SetTrackingQuality
    <3> QED BY <3>1, <3>2, <3>3
  <2>11. CASE UNCHANGED vars
    BY <2>11 DEF vars
  <2> QED
    BY <2>1, <2>2, <2>3, <2>4, <2>5, <2>6, <2>7, <2>8, <2>9, <2>10, <2>11 DEF Next, ImageStep
<1>3. QInv => QualityOfStage
  BY DEF QInv, GoodMeansTracked, QualityOfStage
<1> QED BY <1>1, <1>2, <1>3, PTL DEF Spec

(* Every step of the state machine is one of the stages, or shows nothing   *)
(* of itself: a reset empties the map and pauses at once, and a start that  *)
(* returns from one finds the stage paused.                                 *)
LEMMA StepStages == SInv /\ [Next]_vars => [StageGraph!Next]_<<stage_, map_size>>
<1>s. SUFFICES ASSUME SInv, [Next]_vars PROVE StageGraph!Next \/ UNCHANGED <<stage_, map_size>>
  OBVIOUS
<1> USE <1>s
<1> USE DEF StageGraph!Next
<1>1. CASE Start \/ Reset \/ AddImage \/ FinishTest
  BY <1>1 DEF Start, Reset, AddImage, FinishTest
<1>2. CASE ProcessFirstFrame
  BY <1>2 DEF ProcessFirstFrame, Finish, StageGraph!FirstKeyframe
<1>3. CASE ProcessSecondFrame
  <2>1. ~CanRelocalize(stage_)
    BY <1>3 DEF ProcessSecondFrame, CanRelocalize
  <2> QED BY <1>3, <2>1 DEF ProcessSecondFrame, FinishFailed, Finish, StageGraph!SecondKeyframe
<1>4. CASE ProcessFrame
  <2>1. StageGraph!Tracks
    BY <1>4 DEF ProcessFrame, CanRelocalize, StageGraph!Tracks
  <2>2. PICK matches \in Matches : \E edges \in 0 .. matches :
          \/ \E size \in {map_size, SizeWithKeyframe} : Finish("default", "good", size, matches)
          \/ FinishFailed(QualityAfter(matches, edges), matches)
    BY <1>4 DEF ProcessFrame
  <2>3. CASE \E size \in {map_size, SizeWithKeyframe} : Finish("default", "good", size, matches)
    BY <2>1, <2>3
       DEF Finish, SizeWithKeyframe, MapFull, StageGraph!TrackFrame, StageGraph!Full
  <2>4. CASE \E edges \in 0 .. matches : FinishFailed(QualityAfter(matches, edges), matches)
    BY <2>1, <2>4 DEF FinishFailed, Finish, StageGraph!LoseFrame
  <2> QED BY <2>2, <2>3, <2>4
<1>5. CASE RelocalizeFrameFails
  BY <1>5 DEF RelocalizeFrameFails, FinishFailed, Finish, CanRelocalize,
              StageGraph!LoseFrame, StageGraph!Tracks
<1>6. CASE ResetCommon
  BY <1>6 DEF ResetCommon, StageGraph!Reset
<1>7. CASE ResetReturn
  <2>1. stage_ = "paused"
    BY <1>7 DEF ResetReturn, SInv, CallsAgree
  <2> QED BY <1>7, <2>1 DEF ResetReturn, StageGraph!Start
<1>8. CASE RelocalizeFrameAtPose
  <2>1. StageGraph!Tracks
    <3>1. pc = "idle" /\ map_size > 1 /\ map_size \in Nat
      BY <1>8 DEF RelocalizeFrameAtPose, Goto, SInv, TypeOK
    <3>2. stage_ \in Stages
      BY DEF SInv, TypeOK
    <3> QED BY <3>1, <3>2 DEF SInv, StageOfMap, Stages, StageGraph!Tracks
  <2> QED BY <1>8, <2>1
             DEF RelocalizeFrameAtPose, SizeWithKeyframe, MapFull,
                 StageGraph!TrackFrame, StageGraph!Full
<1>9. CASE UNCHANGED vars
  BY <1>9 DEF vars
<1> QED
  BY <1>1, <1>2, <1>3, <1>4, <1>5, <1>6, <1>7, <1>8, <1>9 DEF Next, ImageStep

(* The state machine implements the stages (ImplementsStages), for every    *)
(* limit on the keyframes and whatever is requested at which moment.        *)
THEOREM StagesImplemented == Spec => ImplementsStages
<1>1. Init => StageGraph!Init
  BY DEF Init, StageGraph!Init
<1> QED
  BY <1>1, InitSInv, StepSInv, StepStages, PTL DEF Spec, ImplementsStages, StageGraph!Spec
-----------------------------------------------------------------------------
(* The ring buffer                                                          *)

(* An index that is less than one round beyond the array goes back by one. *)
LEMMA ModRound ==
  ASSUME NEW n \in Nat \ {0}, NEW x \in 0 .. 2 * n - 1
  PROVE  x % n = IF x < n THEN x ELSE x - n
<1>1. CASE x < n
  BY <1>1
<1>2. CASE ~(x < n)
  BY <1>2
<1>3. QED
  BY <1>1, <1>2

(* The same for all indices into the array.                                 *)
LEMMA RoundSize ==
  \A x \in 0 .. 2 * arr_size_ - 1 :
    x % arr_size_ = IF x < arr_size_ THEN x ELSE x - arr_size_
BY SizeAssumption, ModRound

(* The indices are always those of a buffer that fills up and goes round.   *)
THEOREM IndicesAlways == RingSpec => []IndicesCorrect
<1>1. RingInit => IndicesCorrect
  BY SizeAssumption, ValuesAssumption DEF RingInit, IndicesCorrect
<1>2. IndicesCorrect /\ [RingNext]_ringVars => IndicesCorrect'
  <2>s. SUFFICES ASSUME IndicesCorrect, [RingNext]_ringVars
                 PROVE  IndicesCorrect'
    OBVIOUS
  <2>1. CASE UNCHANGED ringVars
    BY <2>s, <2>1 DEF IndicesCorrect, ringVars
  <2>2. ASSUME NEW elem \in Values, PushBackFree(elem)
        PROVE  IndicesCorrect'
    BY <2>s, <2>2, SizeAssumption DEF IndicesCorrect, PushBackFree
  <2>3. ASSUME NEW elem \in Values, PushBackFull(elem)
        PROVE  IndicesCorrect'
    <3>1. /\ arr_size_ \in Nat /\ arr_size_ > 0 /\ begin_ \in 0 .. arr_size_ - 1
          /\ end_ = IF begin_ = 0 THEN arr_size_ - 1 ELSE begin_ - 1
      BY <2>s, <2>3, SizeAssumption DEF IndicesCorrect, PushBackFull
    <3>2. end_ + 1 \in 0 .. 2 * arr_size_ - 1 /\ begin_ + 1 \in 0 .. 2 * arr_size_ - 1
      BY <3>1
    <3>3. (end_ + 1) % arr_size_ = begin_
      BY <3>1, <3>2, RoundSize
    <3>4. (begin_ + 1) % arr_size_ = IF begin_ = arr_size_ - 1 THEN 0 ELSE begin_ + 1
      BY <3>1, <3>2, RoundSize
    <3>5. end_' = begin_ /\ begin_' = IF begin_ = arr_size_ - 1 THEN 0 ELSE begin_ + 1
      BY <2>3, <3>3, <3>4 DEF PushBackFull
    <3>6. arr_' \in [0 .. arr_size_ - 1 -> Values]
      BY <2>s, <2>3, <3>1, <3>5 DEF IndicesCorrect, PushBackFull
    <3>7. QED
      BY <2>3, <3>1, <3>5, <3>6 DEF IndicesCorrect, PushBackFull
  <2>4. QED
    BY <2>s, <2>1, <2>2, <2>3 DEF RingNext
<1>3. QED
  BY <1>1, <1>2, PTL DEF RingSpec

(* Where get(i) looks: an index past the end goes round to the beginning.   *)
LEMMA GetIndex ==
  ASSUME IndicesCorrect, NEW i \in 0 .. num_elem_ - 1
  PROVE  /\ (begin_ + i) % arr_size_ = IF begin_ + i < arr_size_ THEN begin_ + i
                                                               ELSE begin_ + i - arr_size_
         /\ (begin_ + i) % arr_size_ \in 0 .. arr_size_ - 1
<1>1. /\ arr_size_ \in Nat /\ begin_ \in 0 .. arr_size_ - 1
      /\ i \in 0 .. arr_size_ - 1 /\ begin_ + i \in 0 .. 2 * arr_size_ - 1
  BY SizeAssumption DEF IndicesCorrect
<1>2. (begin_ + i) % arr_size_ = IF begin_ + i < arr_size_ THEN begin_ + i
                                                         ELSE begin_ + i - arr_size_
  BY <1>1, RoundSize
<1>3. QED
  BY <1>1, <1>2

(* What the buffer holds is a sequence of as many values as it counts.      *)
LEMMA WindowSeq ==
  IndicesCorrect =>
    /\ Window \in Seq(Values) /\ Len(Window) = num_elem_
    /\ \A i \in 1 .. num_elem_ : Window[i] = Get(i - 1)
<1>s. SUFFICES ASSUME IndicesCorrect
               PROVE  /\ Window \in Seq(Values) /\ Len(Window) = num_elem_
                      /\ \A i \in 1 .. num_elem_ : Window[i] = Get(i - 1)
  OBVIOUS
<1>1. \A i \in 1 .. num_elem_ : Get(i - 1) \in Values
  <2>1. TAKE i \in 1 .. num_elem_
  <2>2. i - 1 \in 0 .. num_elem_ - 1
    BY <1>s, <2>1 DEF IndicesCorrect
  <2>3. (begin_ + (i - 1)) % arr_size_ \in 0 .. arr_size_ - 1
    BY <1>s, <2>2, GetIndex
  <2>4. QED
    BY <1>s, <2>3 DEF Get, IndicesCorrect
<1>2. num_elem_ \in Nat
  BY <1>s, SizeAssumption DEF IndicesCorrect
<1>3. QED
  BY <1>1, <1>2 DEF Window

(* The same after a step.                                                   *)
LEMMA WindowSeqNext ==
  IndicesCorrect' =>
    (/\ Window \in Seq(Values) /\ Len(Window) = num_elem_
     /\ \A i \in 1 .. num_elem_ : Window[i] = Get(i - 1))'
BY WindowSeq, PTL

(* Pushing into a buffer with room appends to the window.                   *)
LEMMA PushFreeAppends ==
  ASSUME IndicesCorrect, IndicesCorrect', NEW elem \in Values, PushBackFree(elem)
  PROVE  Window' = Append(Window, elem)
<1>1. /\ begin_ = 0 /\ begin_' = 0 /\ num_elem_' = num_elem_ + 1
      /\ num_elem_ \in 0 .. arr_size_ - 1
      /\ arr_' = [arr_ EXCEPT ![num_elem_] = elem]
  BY SizeAssumption DEF IndicesCorrect, PushBackFree
<1>2. /\ Window \in Seq(Values) /\ Len(Window) = num_elem_
      /\ \A i \in 1 .. num_elem_ : Window[i] = arr_[(begin_ + (i - 1)) % arr_size_]
  BY WindowSeq DEF Get
<1>3. /\ Window' \in Seq(Values) /\ Len(Window') = num_elem_'
      /\ \A i \in 1 .. num_elem_' : Window'[i] = arr_'[(begin_' + (i - 1)) % arr_size_]
  BY WindowSeqNext DEF Get
<1>4. \A i \in 1 .. num_elem_' : (0 + (i - 1)) % arr_size_ = i - 1
  <2>1. TAKE i \in 1 .. num_elem_'
  <2>2. 0 + (i - 1) \in 0 .. 2 * arr_size_ - 1 /\ i - 1 < arr_size_
    BY <1>1, <2>1, SizeAssumption
  <2>3. QED
    BY <1>1, <2>1, <2>2, SizeAssumption, RoundSize
<1>5. \A i \in 1 .. num_elem_' : Window'[i] = Append(Window, elem)[i]
  <2>1. TAKE i \in 1 .. num_elem_'
  <2>2. Window'[i] = arr_'[i - 1]
    BY <1>1, <1>3, <1>4, <2>1
  <2>3. CASE i = num_elem_ + 1
    BY <1>1, <1>2, <2>1, <2>2, <2>3, AppendProperties DEF IndicesCorrect
  <2>4. CASE i \in 1 .. num_elem_
    <3>1. Window[i] = arr_[i - 1]
      BY <1>1, <1>2, <1>4, <2>4
    <3>2. arr_'[i - 1] = arr_[i - 1]
      BY <1>1, <2>4 DEF IndicesCorrect
    <3>3. QED
      BY <1>2, <2>2, <2>4, <3>1, <3>2, AppendProperties
  <2>5. i = num_elem_ + 1 \/ i \in 1 .. num_elem_
    BY <1>1, <2>1, SizeAssumption
  <2>6. QED
    BY <2>3, <2>4, <2>5
<1>6. Append(Window, elem) \in Seq(Values) /\ Len(Append(Window, elem)) = num_elem_'
  BY <1>1, <1>2, AppendProperties
<1>7. QED
  BY <1>3, <1>5, <1>6, SeqEqual

(* Pushing into a full buffer appends to the window without its oldest.     *)
LEMMA PushFullSlides ==
  ASSUME IndicesCorrect, IndicesCorrect', NEW elem \in Values, PushBackFull(elem)
  PROVE  Window' = Append(Tail(Window), elem)
<1> DEFINE n == arr_size_
<1>1. /\ n \in Nat /\ n > 0 /\ num_elem_ = n /\ num_elem_' = n
      /\ begin_ \in 0 .. n - 1 /\ begin_' = (begin_ + 1) % n /\ end_' = (end_ + 1) % n
      /\ end_ = IF begin_ = 0 THEN n - 1 ELSE begin_ - 1
      /\ arr_' = [arr_ EXCEPT ![end_'] = elem]
  BY SizeAssumption DEF IndicesCorrect, PushBackFull
<1>2. \A x \in 0 .. 2 * n - 1 : x % n = IF x < n THEN x ELSE x - n
  BY RoundSize
<1>3. end_' = begin_
  <2>1. end_ + 1 \in 0 .. 2 * n - 1
    BY <1>1
  <2>2. QED
    BY <1>1, <1>2, <2>1
<1>4. begin_' = IF begin_ = n - 1 THEN 0 ELSE begin_ + 1
  <2>1. begin_ + 1 \in 0 .. 2 * n - 1
    BY <1>1
  <2>2. QED
    BY <1>1, <1>2, <2>1
<1>5. /\ Window \in Seq(Values) /\ Len(Window) = n
      /\ \A i \in 1 .. n : Window[i] = arr_[(begin_ + (i - 1)) % n]
  BY <1>1, WindowSeq DEF Get
<1>6. /\ Window' \in Seq(Values) /\ Len(Window') = n
      /\ \A i \in 1 .. n : Window'[i] = arr_'[(begin_' + (i - 1)) % n]
  <2>1. /\ Window' \in Seq(Values) /\ Len(Window') = num_elem_'
        /\ \A i \in 1 .. num_elem_' : Window'[i] = arr_'[(begin_' + (i - 1)) % n]
    BY WindowSeqNext DEF Get
  <2>2. QED
    BY <1>1, <2>1
<1>7. \A i \in 1 .. n - 1 : Window'[i] = Window[i + 1]
  <2>1. TAKE i \in 1 .. n - 1
  <2>2. /\ begin_ + i \in 0 .. 2 * n - 1 /\ begin_' + (i - 1) \in 0 .. 2 * n - 1
        /\ i \in 1 .. n /\ i + 1 \in 1 .. n /\ (i + 1) - 1 = i
    BY <1>1, <1>4, <2>1
  <2>3. (begin_ + i) % n = IF begin_ + i < n THEN begin_ + i ELSE begin_ + i - n
    BY <1>1, <1>2, <2>1, <2>2
  <2>4. (begin_' + (i - 1)) % n = (begin_ + i) % n
    <3>1. (begin_' + (i - 1)) % n = IF begin_' + (i - 1) < n THEN begin_' + (i - 1)
                                                           ELSE begin_' + (i - 1) - n
      BY <1>1, <1>2, <1>4, <2>1, <2>2
    <3>2. QED
      BY <1>1, <1>4, <2>1, <2>3, <3>1
  <2>5. (begin_ + i) % n \in 0 .. n - 1 /\ (begin_ + i) % n # begin_
    BY <1>1, <2>1, <2>3
  <2>6. arr_'[(begin_ + i) % n] = arr_[(begin_ + i) % n]
    BY <1>1, <1>3, <2>5 DEF IndicesCorrect
  <2>7. Window'[i] = arr_'[(begin_ + i) % n] /\ Window[i + 1] = arr_[(begin_ + i) % n]
    BY <1>5, <1>6, <2>2, <2>4
  <2>8. QED
    BY <2>6, <2>7
<1>8. Window'[n] = elem
  <2>1. begin_' + (n - 1) \in 0 .. 2 * n - 1 /\ n \in 1 .. n
    BY <1>1, <1>4
  <2>2. (begin_' + (n - 1)) % n = begin_
    BY <1>1, <1>2, <1>4, <2>1
  <2>3. arr_'[begin_] = elem
    BY <1>1, <1>3 DEF IndicesCorrect
  <2>4. QED
    BY <1>6, <2>1, <2>2, <2>3
<1>9. /\ Tail(Window) \in Seq(Values) /\ Len(Tail(Window)) = n - 1
      /\ \A i \in 1 .. n - 1 : Tail(Window)[i] = Window[i + 1]
  BY <1>1, <1>5, HeadTailProperties
<1>10. /\ Append(Tail(Window), elem) \in Seq(Values)
       /\ Len(Append(Tail(Window), elem)) = n
       /\ \A i \in 1 .. n - 1 : Append(Tail(Window), elem)[i] = Window[i + 1]
       /\ Append(Tail(Window), elem)[n] = elem
  BY <1>1, <1>9, AppendProperties
<1>11. \A i \in 1 .. n : Window'[i] = Append(Tail(Window), elem)[i]
  BY <1>1, <1>7, <1>8, <1>10
<1>12. QED
  BY <1>6, <1>10, <1>11, SeqEqual

(* The buffer implements the sliding window: get(0), get(1), ... are the    *)
(* values pushed last, whatever the size and the values.                    *)
THEOREM Implementation == RingSpec => KeepsLatest
<1>1. RingInit => Promise!Init
  BY SizeAssumption DEF RingInit, Promise!Init, Window
<1>2. IndicesCorrect /\ IndicesCorrect' /\ [RingNext]_ringVars => [Promise!Next]_Window
  <2>s. SUFFICES ASSUME IndicesCorrect, IndicesCorrect', [RingNext]_ringVars
                 PROVE  [Promise!Next]_Window
    OBVIOUS
  <2>1. CASE UNCHANGED ringVars
    BY <2>1 DEF ringVars, Window, Get
  <2>2. ASSUME NEW elem \in Values, PushBackFree(elem)
        PROVE  Promise!Next
    <3>1. Window' = Append(Window, elem)
      BY <2>s, <2>2, PushFreeAppends
    <3>2. Len(Window) < arr_size_
      BY <2>s, <2>2, WindowSeq DEF PushBackFree
    <3>3. QED
      BY <3>1, <3>2 DEF Promise!Next, Promise!Push
  <2>3. ASSUME NEW elem \in Values, PushBackFull(elem)
        PROVE  Promise!Next
    <3>1. Window' = Append(Tail(Window), elem)
      BY <2>s, <2>3, PushFullSlides
    <3>2. ~(Len(Window) < arr_size_)
      BY <2>s, <2>3, WindowSeq, SizeAssumption DEF PushBackFull
    <3>3. QED
      BY <3>1, <3>2 DEF Promise!Next, Promise!Push
  <2>4. QED
    BY <2>s, <2>1, <2>2, <2>3 DEF RingNext
<1>3. QED
  BY <1>1, <1>2, IndicesAlways, PTL DEF RingSpec, KeepsLatest, Promise!Spec

-----------------------------------------------------------------------------
(* Sums over finite sets of indices: what the folds that RingBuffer is      *)
(* stated with compute.                                                     *)

(* A set of subsets of a finite set has a minimal one, if it is not empty.  *)
LEMMA MinimalSubset ==
  ASSUME NEW S, IsFiniteSet(S), NEW T \in SUBSET (SUBSET S), T # {}
  PROVE  \E A \in T : \A B \in T : B \subseteq A => B = A
<1> DEFINE R == StrictSubsetOrdering(S)
<1>1. IsWellFoundedOn(R, SUBSET S)
  BY FS_StrictSubsetOrderingWellFounded, FS_FiniteSubsetsOfFinite
<1> HIDE DEF R
<1>2. PICK A \in T : \A B \in T : <<B, A>> \notin R
  BY <1>1, WFMin
<1>3. ASSUME NEW B \in T, B \subseteq A, B # A PROVE FALSE
  <2>1. A \in SUBSET S /\ B \in SUBSET S
    OBVIOUS
  <2>2. <<B, A>> \in (SUBSET S) \X (SUBSET S)
    BY <2>1
  <2>3. <<B, A>> \in R
    BY <2>2, <1>3 DEF R, StrictSubsetOrdering
  <2> QED BY <2>3, <1>2
<1> QED BY <1>3

Some(A) == CHOOSE x \in A : TRUE

(* g gives the sum of f over every subset of S, one element at a time.      *)
SumsUp(g, f, S) ==
  g = [A \in SUBSET S |-> IF A = {} THEN 0 ELSE f[Some(A)] + g[A \ {Some(A)}]]

SumsOf(f, S) == CHOOSE g : SumsUp(g, f, S)
SumOn(f, S) == SumsOf(f, S)[S]

LEMMA SomeElement == ASSUME NEW A, A # {} PROVE Some(A) \in A
BY Zenon DEF Some

LEMMA SumsUpAt ==
  ASSUME NEW g, NEW f, NEW S, SumsUp(g, f, S), NEW A \in SUBSET S
  PROVE  g[A] = IF A = {} THEN 0 ELSE f[Some(A)] + g[A \ {Some(A)}]
BY Zenon DEF SumsUp

(* Two such functions agree where both are defined.                         *)
LEMMA SumsUnique ==
  ASSUME NEW f, NEW S, NEW W, IsFiniteSet(S), NEW g, SumsUp(g, f, S), NEW h, SumsUp(h, f, W),
         NEW A \in SUBSET S, A \in SUBSET W
  PROVE  g[A] = h[A]
<1> DEFINE T == {B \in SUBSET A : g[B] # h[B]}
<1>0. IsFiniteSet(A)
  BY FS_Subset
<1>1. ASSUME T # {} PROVE FALSE
  <2>1. PICK B \in T : \A C \in T : C \subseteq B => C = B
    <3>1. T \in SUBSET (SUBSET A)
      OBVIOUS
    <3> HIDE DEF T
    <3> QED BY <3>1, <1>0, <1>1, MinimalSubset
  <2>2. B \in SUBSET A /\ B \in SUBSET S /\ B \in SUBSET W /\ g[B] # h[B]
    OBVIOUS
  <2>3. B # {}
    BY <2>2, SumsUpAt
  <2> DEFINE C == B \ {Some(B)}
  <2>4. C \subseteq B /\ C # B
    BY <2>3, SomeElement
  <2>5. g[C] = h[C]
    BY <2>1, <2>2, <2>4
  <2>6. g[B] = f[Some(B)] + g[C] /\ h[B] = f[Some(B)] + h[C]
    BY <2>2, <2>3, SumsUpAt
  <2> QED BY <2>2, <2>5, <2>6
<1> QED BY <1>1

(* There is such a function for every finite set.                           *)
LEMMA SumsExist ==
  ASSUME NEW f, NEW S, IsFiniteSet(S)
  PROVE  SumsUp(SumsOf(f, S), f, S)
<1> DEFINE T == {B \in SUBSET S : ~ \E g : SumsUp(g, f, B)}
<1>1. ASSUME T # {} PROVE FALSE
  <2>1. PICK U \in T : \A C \in T : C \subseteq U => C = U
    <3>1. T \in SUBSET (SUBSET S)
      OBVIOUS
    <3> HIDE DEF T
    <3> QED BY <3>1, <1>1, MinimalSubset
  <2> DEFINE G(B) == SumsOf(f, B)
             rest == U \ {Some(U)}
             g == [A \in SUBSET U |-> IF A = {} THEN 0
                                      ELSE IF A = U THEN f[Some(U)] + G(rest)[rest]
                                      ELSE G(A)[A]]
  <2>2. ASSUME NEW A \in SUBSET U, A # U PROVE SumsUp(G(A), f, A) /\ IsFiniteSet(A)
    <3>1. A \in SUBSET S /\ A \notin T
      BY <2>1, <2>2
    <3>2. \E h : SumsUp(h, f, A)
      BY <3>1
    <3>3. SumsUp(G(A), f, A)
      BY <3>2, Zenon DEF SumsOf
    <3> QED BY <3>1, <3>3, FS_Subset
  <2> HIDE DEF G
  <2>3. ASSUME NEW A \in SUBSET U
        PROVE  g[A] = IF A = {} THEN 0 ELSE f[Some(A)] + g[A \ {Some(A)}]
    <3>1. CASE A = {}
      BY <3>1
    <3>2. CASE A # {}
      <4> DEFINE B == A \ {Some(A)}
      <4>1. B \in SUBSET U /\ B \in SUBSET A /\ B # U /\ B # A
        BY <3>2, SomeElement
      <4>2. g[B] = G(B)[B]
        <5>1. CASE B = {}
          <6>1. G(B)[B] = 0
            BY <5>1, <4>1, <2>2, SumsUpAt
          <6> QED BY <6>1, <5>1, <4>1
        <5>2. CASE B # {}
          BY <5>2, <4>1
        <5> QED BY <5>1, <5>2
      <4>3. CASE A = U
        BY <4>3, <4>2, <3>2
      <4>4. CASE A # U
        <5>1. g[A] = G(A)[A]
          BY <4>4, <3>2
        <5>2. SumsUp(G(A), f, A) /\ IsFiniteSet(A) /\ SumsUp(G(B), f, B)
          BY <4>1, <4>4, <2>2
        <5>3. G(A)[A] = f[Some(A)] + G(A)[B]
          <6>1. A \in SUBSET A
            OBVIOUS
          <6> QED BY <6>1, <5>2, <3>2, SumsUpAt
        <5>4. G(A)[B] = G(B)[B]
          <6>1. B \in SUBSET B
            OBVIOUS
          <6> HIDE DEF B
          <6> QED BY <6>1, <5>2, <4>1, SumsUnique
        <5> QED BY <5>1, <5>3, <5>4, <4>2, <3>2
      <4> QED BY <4>3, <4>4
    <3> QED BY <3>1, <3>2
  <2>4. SumsUp(g, f, U)
    <3>1. g = [A \in SUBSET U |-> g[A]]
      OBVIOUS
    <3> HIDE DEF g
    <3> QED BY <3>1, <2>3, Zenon DEF SumsUp
  <2> QED BY <2>1, <2>4
<1>2. \E g : SumsUp(g, f, S)
  BY <1>1
<1> QED BY <1>2, Zenon DEF SumsOf

(* The sum over nothing, and over some element more.                        *)
LEMMA SumEmpty == \A f : SumOn(f, {}) = 0
BY FS_EmptySet, SumsExist, SumsUpAt DEF SumOn

LEMMA SumSome ==
  ASSUME NEW f, NEW S, IsFiniteSet(S), S # {}
  PROVE  SumOn(f, S) = f[Some(S)] + SumOn(f, S \ {Some(S)})
<1> DEFINE R == S \ {Some(S)}
<1>1. IsFiniteSet(R) /\ R \in SUBSET S /\ R \in SUBSET R /\ S \in SUBSET S
  BY FS_Subset
<1> HIDE DEF R
<1>2. SumsUp(SumsOf(f, S), f, S) /\ SumsUp(SumsOf(f, R), f, R)
  BY <1>1, SumsExist
<1> DEFINE g == SumsOf(f, S)
           h == SumsOf(f, R)
<1>3. g[R] = h[R]
  <2>1. SumsUp(g, f, S) /\ SumsUp(h, f, R)
    BY <1>2
  <2> HIDE DEF g, h
  <2> QED BY <2>1, <1>1, SumsUnique
<1>4. SumsOf(f, S)[S] = f[Some(S)] + SumsOf(f, S)[R]
  BY <1>1, <1>2, SumsUpAt DEF R
<1> QED BY <1>3, <1>4 DEF SumOn, R

(* A sum of naturals is a natural.                                          *)
LEMMA SumType ==
  ASSUME NEW f, NEW S, IsFiniteSet(S), \A x \in S : f[x] \in Nat
  PROVE  SumOn(f, S) \in Nat
<1> DEFINE T == {A \in SUBSET S : SumOn(f, A) \notin Nat}
<1>1. ASSUME T # {} PROVE FALSE
  <2>1. PICK A \in T : \A B \in T : B \subseteq A => B = A
    <3>1. T \in SUBSET (SUBSET S)
      OBVIOUS
    <3> HIDE DEF T
    <3> QED BY <3>1, <1>1, MinimalSubset
  <2>2. A \in SUBSET S /\ SumOn(f, A) \notin Nat /\ IsFiniteSet(A)
    BY FS_Subset
  <2>3. A # {}
    BY <2>2, SumEmpty
  <2>4. Some(A) \in A
    BY <2>3, SomeElement
  <2>5. SumOn(f, A \ {Some(A)}) \in Nat
    BY <2>1, <2>2, <2>4
  <2> QED BY <2>2, <2>3, <2>4, <2>5, SumSome
<1> QED BY <1>1

(* Whichever element is taken out, the rest of the sum is the sum of the    *)
(* rest.                                                                   *)
LEMMA SumWithout ==
  ASSUME NEW f, NEW S, IsFiniteSet(S), \A x \in S : f[x] \in Nat, NEW e \in S
  PROVE  SumOn(f, S) = f[e] + SumOn(f, S \ {e})
<1> DEFINE Fails(A, x) == SumOn(f, A) # f[x] + SumOn(f, A \ {x})
           T == {A \in SUBSET S : \E x \in A : Fails(A, x)}
<1>1. ASSUME T # {} PROVE FALSE
  <2>1. PICK A \in T : \A B \in T : B \subseteq A => B = A
    <3>1. T \in SUBSET (SUBSET S)
      OBVIOUS
    <3> HIDE DEF T
    <3> QED BY <3>1, <1>1, MinimalSubset
  <2>2. A \in SUBSET S /\ IsFiniteSet(A)
    BY FS_Subset
  <2>3. PICK x \in A : Fails(A, x)
    OBVIOUS
  <2> DEFINE c == Some(A)
             B == A \ {c}
             D == A \ {x}
             C == B \ {x}
  <2>4. c \in A /\ SumOn(f, A) = f[c] + SumOn(f, B)
    BY <2>2, <2>3, SomeElement, SumSome
  <2> HIDE DEF c
  <2>5. c # x
    BY <2>3, <2>4
  <2>6. B \in SUBSET S /\ D \in SUBSET S /\ B \notin T /\ D \notin T
    BY <2>1, <2>2, <2>3, <2>4
  <2>7. SumOn(f, B) = f[x] + SumOn(f, C)
    BY <2>6, <2>5, <2>3
  <2>8. SumOn(f, D) = f[c] + SumOn(f, C)
    <3>1. C = D \ {c} /\ c \in D
      BY <2>4, <2>5
    <3>2. ~Fails(D, c)
      BY <3>1, <2>6
    <3> QED BY <3>1, <3>2
  <2>9. f[c] \in Nat /\ f[x] \in Nat /\ SumOn(f, C) \in Nat
    <3>1. C \in SUBSET S /\ IsFiniteSet(C)
      BY <2>2, FS_Subset
    <3> QED BY <3>1, <2>2, <2>3, <2>4, SumType
  <2>10. ~Fails(A, x)
    BY <2>4, <2>7, <2>8, <2>9
  <2> QED BY <2>3, <2>10
<1> QED BY <1>1

(* A sum does not depend on how its elements are numbered.                  *)
LEMMA SumRenumbered ==
  ASSUME NEW S, IsFiniteSet(S), NEW W, NEW r \in [S -> W], NEW f, NEW h,
         \A x, y \in S : r[x] = r[y] => x = y,
         \A x \in S : h[x] = f[r[x]] /\ f[r[x]] \in Nat
  PROVE  SumOn(h, S) = SumOn(f, {r[x] : x \in S})
<1> DEFINE Im(A) == {r[x] : x \in A}
           T == {A \in SUBSET S : SumOn(h, A) # SumOn(f, Im(A))}
<1>1. ASSUME T # {} PROVE FALSE
  <2>1. PICK A \in T : \A B \in T : B \subseteq A => B = A
    <3>1. T \in SUBSET (SUBSET S)
      OBVIOUS
    <3> HIDE DEF T
    <3> QED BY <3>1, <1>1, MinimalSubset
  <2>2. A \in SUBSET S /\ IsFiniteSet(A) /\ SumOn(h, A) # SumOn(f, Im(A))
    BY FS_Subset
  <2>3. A # {}
    BY <2>2, SumEmpty
  <2>4. PICK c \in A : TRUE
    BY <2>3
  <2> DEFINE B == A \ {c}
  <2>5. SumOn(h, B) = SumOn(f, Im(B))
    BY <2>1, <2>2, <2>4
  <2>6. SumOn(h, A) = h[c] + SumOn(h, B)
    BY <2>2, <2>4, SumWithout
  <2>7. r[c] \in Im(A) /\ Im(B) = Im(A) \ {r[c]}
    BY <2>2, <2>4
  <2>8. IsFiniteSet(Im(A))
    <3> DEFINE q == [x \in A |-> r[x]]
    <3>1. q \in Surjection(A, Im(A))
      BY DEF Surjection
    <3> HIDE DEF Im, q
    <3> QED BY <3>1, <2>2, FS_Surjection
  <2>9. \A y \in Im(A) : f[y] \in Nat
    BY <2>2
  <2>10. SumOn(f, Im(A)) = f[r[c]] + SumOn(f, Im(B))
    <3> DEFINE I == Im(A)
               J == Im(B)
               d == r[c]
    <3>1. d \in I /\ J = I \ {d} /\ IsFiniteSet(I) /\ \A y \in I : f[y] \in Nat
      BY <2>7, <2>8, <2>9
    <3> HIDE DEF I, J, d
    <3>2. SumOn(f, I) = f[d] + SumOn(f, J)
      BY <3>1, SumWithout
    <3> QED BY <3>2 DEF I, J, d
  <2>11. h[c] = f[r[c]]
    BY <2>2
  <2> QED BY <2>2, <2>5, <2>6, <2>10, <2>11
<1> QED BY <1>1

-----------------------------------------------------------------------------
(* The mean                                                                 *)

(* The two folds are sums.                                                  *)
LEMMA GetSumIsSum == GetSum = SumOn(arr_, 0 .. num_elem_ - 1)
BY DEF GetSum, MapThenSumSet, MapThenFoldSet, SumOn, SumsOf, SumsUp, Some

LEMMA SumOfIsSum == SumOf(Window) = SumOn(Window, 1 .. num_elem_)
<1>1. DOMAIN Window = 1 .. num_elem_
  BY DEF Window
<1>2. \A w : SumOf(w) = SumOn(w, DOMAIN w)
  BY DEF SumOf, FoldSeq, FoldFunction, FoldFunctionOnSet, MapThenFoldSet, SumOn, SumsOf, SumsUp,
         Some
<1> QED BY <1>1, <1>2

(* get reads every element of the array that counts, and each once.         *)
LEMMA SumsEqual ==
  ASSUME IndicesCorrect
  PROVE  GetSum = SumOf(Window) /\ GetSum \in Nat
<1> DEFINE S == 1 .. num_elem_
           A == 0 .. num_elem_ - 1
           r == [k \in S |-> (begin_ + (k - 1)) % arr_size_]
<1>0. /\ num_elem_ \in Nat /\ arr_size_ \in Nat /\ 0 < arr_size_ /\ num_elem_ <= arr_size_
      /\ begin_ \in 0 .. arr_size_ - 1 /\ (num_elem_ < arr_size_ => begin_ = 0)
      /\ arr_ \in [0 .. arr_size_ - 1 -> Values]
  BY SizeAssumption DEF IndicesCorrect
<1>1. ASSUME NEW k \in S
      PROVE  r[k] = IF begin_ + (k - 1) < arr_size_ THEN begin_ + (k - 1)
                    ELSE begin_ + (k - 1) - arr_size_
  <2>1. begin_ + (k - 1) \in 0 .. 2 * arr_size_ - 1
    BY <1>0
  <2>2. r[k] = (begin_ + (k - 1)) % arr_size_
    OBVIOUS
  <2> HIDE DEF r
  <2>3. (begin_ + (k - 1)) % arr_size_ = IF begin_ + (k - 1) < arr_size_ THEN begin_ + (k - 1)
                                         ELSE begin_ + (k - 1) - arr_size_
    BY <1>0, <2>1, RoundSize
  <2> QED BY <2>2, <2>3
<1> HIDE DEF r
<1>2. ASSUME NEW k \in S PROVE r[k] \in A
  BY <1>0, <1>1
<1>3. ASSUME NEW k \in S, NEW m \in S, r[k] = r[m] PROVE k = m
  BY <1>0, <1>1, <1>3
<1>4. ASSUME NEW a \in A PROVE \E k \in S : r[k] = a
  <2>1. CASE a >= begin_
    <3>1. a - begin_ + 1 \in S /\ begin_ + ((a - begin_ + 1) - 1) = a
      BY <2>1, <1>0
    <3>2. r[a - begin_ + 1] = a
      BY <3>1, <1>0, <1>1
    <3> QED BY <3>1, <3>2
  <2>2. CASE a < begin_
    <3>1. /\ arr_size_ + a - begin_ + 1 \in S
          /\ begin_ + ((arr_size_ + a - begin_ + 1) - 1) = arr_size_ + a
      BY <2>2, <1>0
    <3>2. r[arr_size_ + a - begin_ + 1] = a
      BY <3>1, <1>0, <1>1
    <3> QED BY <3>1, <3>2
  <2> QED BY <2>1, <2>2, <1>0
<1>5. {r[k] : k \in S} = A
  BY <1>2, <1>4
<1>6. IsFiniteSet(S) /\ IsFiniteSet(A)
  BY <1>0, FS_Interval
<1>7. r \in [S -> A]
  BY <1>2 DEF r
<1>8. ASSUME NEW a \in A PROVE arr_[a] \in Nat
  <2>1. a \in 0 .. arr_size_ - 1
    BY <1>0
  <2>2. arr_[a] \in Values
    BY <2>1, <1>0
  <2> QED BY <2>2, ValuesAssumption
<1>9. ASSUME NEW k \in S PROVE Window[k] = arr_[r[k]] /\ arr_[r[k]] \in Nat
  BY <1>2, <1>8 DEF Window, Get, r
<1>10. SumOn(Window, S) = SumOn(arr_, A)
  <2> DEFINE w == Window
  <2>1. \A x, y \in S : r[x] = r[y] => x = y
    BY <1>3
  <2>2. \A x \in S : w[x] = arr_[r[x]] /\ arr_[r[x]] \in Nat
    BY <1>9
  <2>3. SumOn(w, S) = SumOn(arr_, {r[x] : x \in S})
    <3> HIDE DEF w, S, A
    <3> QED BY <2>1, <2>2, <1>6, <1>7, SumRenumbered
  <2> QED BY <2>3, <1>5
<1>11. SumOn(arr_, A) \in Nat
  <2> HIDE DEF A
  <2> QED BY <1>6, <1>8, SumType
<1> QED BY <1>10, <1>11, GetSumIsSum, SumOfIsSum

(* A quotient that is rounded down.                                         *)
LEMMA QuotientRounds ==
  ASSUME NEW s \in Nat, NEW m \in Nat \ {0}
  PROVE  (s \div m) * m <= s /\ s < ((s \div m) + 1) * m
OBVIOUS

(* getMean, from a sum over the array that starts anywhere in the window,   *)
(* is the mean of what get returns, rounded down, for buffers of every size *)
(* (ringbuffer.h).                                                         *)
THEOREM MeanCorrect == RingSpec => []MeanOfWindow
<1>1. IndicesCorrect => MeanOfWindow
  <2> SUFFICES ASSUME IndicesCorrect, Window # <<>> PROVE
                 /\ GetMean * Len(Window) <= SumOf(Window)
                 /\ SumOf(Window) < (GetMean + 1) * Len(Window)
    BY DEF MeanOfWindow
  <2>1. num_elem_ \in Nat /\ Len(Window) = num_elem_
    BY SizeAssumption DEF IndicesCorrect, Window
  <2>2. num_elem_ # 0
    BY DEF Window
  <2>3. GetMean = GetSum \div num_elem_
    BY <2>2 DEF GetMean
  <2> QED BY <2>1, <2>2, <2>3, SumsEqual, QuotientRounds
<1> QED BY <1>1, IndicesAlways, PTL
-----------------------------------------------------------------------------
(* The keyboard                                                             *)

(* Keys go from the terminal to the client in the order they are typed: the *)
(* key the reader has in hand is newer than all it has stored before, and   *)
(* what the client has read, and what it finds, is newer than all it has    *)
(* returned.                                                               *)
KeysInOrder ==
  /\ {consumed, input_, tmp, returned} \subseteq Nat
  /\ input_ <= consumed /\ tmp <= consumed /\ returned <= consumed
  /\ reader = "store" => input_ < consumed /\ tmp < consumed /\ returned < consumed
  /\ client # "clear" => tmp = 0 /\ (input_ # 0 => input_ > returned)
  /\ tmp # 0 => tmp > returned

(* getInput returns no key twice and none after a later one, whatever the   *)
(* reader does between its two accesses to input_ and however many keys are *)
(* typed (user_input_thread.cpp).                                          *)
THEOREM KeysCorrect == KeySpec => KeysReturnedOnce
<1>1. KeyInit => KeysInOrder
  BY DEF KeyInit, KeysInOrder
<1>2. KeysInOrder /\ [KeyNext]_keyVars => KeysInOrder'
  <2> SUFFICES ASSUME KeysInOrder, [KeyNext]_keyVars PROVE KeysInOrder'
    OBVIOUS
  <2> USE DEF KeysInOrder
  <2>1. CASE TypeKey \/ ReaderTest \/ Stop
    BY <2>1 DEF TypeKey, ReaderTest, Stop
  <2>2. CASE ReaderGetchar
    BY <2>2 DEF ReaderGetchar
  <2>3. CASE ReaderStore
    BY <2>3 DEF ReaderStore
  <2>4. CASE GetInputRead
    BY <2>4 DEF GetInputRead
  <2>5. CASE GetInputClear
    BY <2>5 DEF GetInputClear, Cleared
  <2>6. CASE Destroy \/ Joined
    BY <2>6 DEF Destroy, Joined
  <2>7. CASE UNCHANGED keyVars
    BY <2>7 DEF keyVars
  <2> QED BY <2>1, <2>2, <2>3, <2>4, <2>5, <2>6, <2>7 DEF KeyNext, ReaderStep
<1>3. KeysInOrder => (client = "clear" /\ client' = "idle" /\ tmp # 0 => tmp > returned)
  BY DEF KeysInOrder
<1> QED BY <1>1, <1>2, <1>3, PTL DEF KeySpec, KeysReturnedOnce
=============================================================================
