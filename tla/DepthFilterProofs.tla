-------------------------- MODULE DepthFilterProofs --------------------------
(* Theorems about DepthFilter, for every value of its constants.            *)
EXTENDS DepthFilter, SequenceTheorems, TLAPS

(* What RemoveAt returns: the list without its i-th element, in order.      *)
LEMMA RemoveAtFacts ==
  ASSUME NEW S, NEW s \in Seq(S), NEW i \in 1 .. Len(s)
  PROVE  /\ RemoveAt(s, i) \in Seq(S)
         /\ Len(RemoveAt(s, i)) = Len(s) - 1
         /\ \A j \in 1 .. Len(s) - 1 :
              RemoveAt(s, i)[j] = IF j < i THEN s[j] ELSE s[j + 1]
<1> DEFINE a == SubSeq(s, 1, i - 1)
           b == SubSeq(s, i + 1, Len(s))
<1>1. Len(s) \in Nat /\ \A k \in 1 .. Len(s) : s[k] \in S
  BY ElementOfSeq, LenProperties
<1>2. /\ a \in Seq(S) /\ Len(a) = i - 1
      /\ \A k \in 1 .. i - 1 : a[k] = s[k]
  <2>1. \A k \in 1 .. i - 1 : s[k] \in S
    BY <1>1
  <2>2. 1 \in Int /\ i - 1 \in Int
    OBVIOUS
  <2>3. /\ a \in Seq(S) /\ Len(a) = IF 1 <= i - 1 THEN (i - 1) - 1 + 1 ELSE 0
        /\ \A k \in 1 .. (i - 1) - 1 + 1 : a[k] = s[1 + k - 1]
    BY <2>1, <2>2, SubSeqProperties
  <2> QED BY <2>3, <1>1
<1>3. /\ b \in Seq(S) /\ Len(b) = Len(s) - i
      /\ \A k \in 1 .. Len(s) - i : b[k] = s[i + k]
  <2>1. \A k \in i + 1 .. Len(s) : s[k] \in S
    BY <1>1
  <2>2. i + 1 \in Int /\ Len(s) \in Int
    BY <1>1
  <2>3. /\ b \in Seq(S)
        /\ Len(b) = IF i + 1 <= Len(s) THEN Len(s) - (i + 1) + 1 ELSE 0
        /\ \A k \in 1 .. Len(s) - (i + 1) + 1 : b[k] = s[(i + 1) + k - 1]
    BY <2>1, <2>2, SubSeqProperties
  <2> QED BY <2>3, <1>1
<1>4. /\ a \o b \in Seq(S) /\ Len(a \o b) = Len(a) + Len(b)
      /\ \A k \in 1 .. Len(a) + Len(b) :
           (a \o b)[k] = IF k <= Len(a) THEN a[k] ELSE b[k - Len(a)]
  BY <1>2, <1>3, ConcatProperties
<1>5. RemoveAt(s, i) = a \o b
  BY DEF RemoveAt
<1> HIDE DEF a, b
<1>6. Len(a) + Len(b) = Len(s) - 1
  BY <1>1, <1>2, <1>3
<1>7. ASSUME NEW j \in 1 .. Len(s) - 1
      PROVE  (a \o b)[j] = IF j < i THEN s[j] ELSE s[j + 1]
  <2>1. CASE j < i
    BY <2>1, <1>1, <1>2, <1>4, <1>6
  <2>2. CASE j >= i
    <3>1. j - (i - 1) \in 1 .. Len(s) - i /\ j > i - 1
      BY <2>2, <1>1
    <3>2. (a \o b)[j] = b[j - (i - 1)]
      BY <3>1, <1>1, <1>2, <1>4, <1>6
    <3>3. b[j - (i - 1)] = s[i + (j - (i - 1))]
      BY <3>1, <1>3
    <3>4. i + (j - (i - 1)) = j + 1 /\ ~(j < i)
      BY <2>2
    <3> QED BY <3>2, <3>3, <3>4
  <2>3. j < i \/ j >= i
    BY <1>1
  <2> QED BY <2>1, <2>2, <2>3
<1> QED BY <1>4, <1>5, <1>6, <1>7

(* A new batch changes nothing but the ages.                                *)
LEMMA NextBatchFacts ==
  ASSUME NEW s \in Seq(Seed)
  PROVE  /\ NextBatch(s) \in Seq(Seed)
         /\ Len(NextBatch(s)) = Len(s)
         /\ \A i \in 1 .. Len(s) :
              /\ NextBatch(s)[i].frame = s[i].frame
              /\ NextBatch(s)[i].age = IF s[i].age = TooOld THEN TooOld ELSE s[i].age + 1
<1>1. DOMAIN s = 1 .. Len(s) /\ Len(s) \in Nat /\ TooOld \in Nat
  BY LenProperties, BoundsAssumption DEF TooOld
<1>2. \A i \in 1 .. Len(s) : s[i] \in Seed
  BY ElementOfSeq
<1>3. \A i \in 1 .. Len(s) :
        /\ NextBatch(s)[i] \in Seed
        /\ NextBatch(s)[i].frame = s[i].frame
        /\ NextBatch(s)[i].age = IF s[i].age = TooOld THEN TooOld ELSE s[i].age + 1
  BY <1>1, <1>2 DEF NextBatch, Seed
<1>4. NextBatch(s) \in [1 .. Len(s) -> Seed]
  BY <1>1, <1>3 DEF NextBatch
<1> QED BY <1>1, <1>3, <1>4

(* The two ways a walk goes on from a valid iterator keep the list a list   *)
(* and the iterator valid, and leave what is behind the iterator as it was; *)
(* only NextSeed adds to that, the seed the iterator was at.                *)
LEMMA ListSteps ==
  ASSUME NEW t \in Threads, seeds_ \in Seq(Seed), it \in [Threads -> Nat \ {0}],
         it[t] <= Len(seeds_), EraseSeed(t) \/ NextSeed(t)
  PROVE  /\ seeds_' \in Seq(Seed)
         /\ it' \in [Threads -> Nat \ {0}]
         /\ it'[t] <= Len(seeds_') + 1
         /\ \A i \in DOMAIN seeds_' : i < it'[t] =>
              /\ i \in DOMAIN seeds_ /\ seeds_'[i] = seeds_[i]
              /\ i < it[t] \/ (i = it[t] /\ NextSeed(t))
<1>1. Len(seeds_) \in Nat /\ it[t] \in 1 .. Len(seeds_)
  BY LenProperties
<1>2. CASE EraseSeed(t)
  <2>1. /\ seeds_' \in Seq(Seed) /\ Len(seeds_') = Len(seeds_) - 1
        /\ \A j \in 1 .. Len(seeds_) - 1 :
             seeds_'[j] = IF j < it[t] THEN seeds_[j] ELSE seeds_[j + 1]
    BY <1>1, <1>2, RemoveAtFacts DEF EraseSeed
  <2>2. DOMAIN seeds_' = 1 .. Len(seeds_) - 1 /\ DOMAIN seeds_ = 1 .. Len(seeds_)
    BY <2>1, LenProperties
  <2> QED BY <1>1, <1>2, <2>1, <2>2 DEF EraseSeed
<1>3. CASE NextSeed(t)
  <2>1. DOMAIN seeds_ = 1 .. Len(seeds_)
    BY LenProperties
  <2> QED BY <1>1, <1>3, <2>1 DEF NextSeed
<1> QED BY <1>2, <1>3

(* Where a FramePtr is used it is not null, and no mapper runs without a    *)
(* thread_.                                                                *)
FramesPresent ==
  /\ new_keyframe_set_ \/ pc["mapper"] \in {"kf_clear", "kf_take"} => new_keyframe_ \in Frames
  /\ \A t \in Threads :
       pc[t] \in WorkPCs \cup {"af_push", "ak_store", "rk_lock", "rk_scan"} => frame[t] \in Frames
  /\ ~thread_ => pc["mapper"] \in {"none", "done"}

TInv == TypeOK /\ FramesPresent

(* Every step of either thread leaves every variable in its type, and every *)
(* FramePtr that is going to be used is not null.                           *)
THEOREM TypeCorrect == Spec => []TInv
<1>1. Init => TInv
  <2>1. <<>> \in Seq(Frames) /\ <<>> \in Seq(Seed) /\ Len(<<>>) <= 3
    BY EmptySeq
  <2>2. ASSUME Init
        PROVE  /\ frame_queue_ \in Seq(Frames) /\ Len(frame_queue_) <= 3
               /\ seeds_ \in Seq(Seed)
    BY <2>1, <2>2, Zenon DEF Init
  <2>3. ASSUME Init
        PROVE  /\ pc \in [Threads -> MapperPCs \cup TrackerPCs \cup WorkPCs]
               /\ pc["mapper"] \notin TrackerPCs /\ pc["tracker"] \notin MapperPCs
               /\ it \in [Threads -> Nat \ {0}] /\ todo \in [Threads -> Nat]
               /\ frame \in [Threads -> FrameOrNull]
    BY <2>3 DEF Init, Threads, FrameOrNull, MapperPCs, TrackerPCs, WorkPCs
  <2>4. Init => TypeOK
    BY <2>2, <2>3, Zenon DEF Init, TypeOK, Threads, FrameOrNull, Free, halt
  <2>5. Init => FramesPresent
    BY DEF Init, FramesPresent, Threads, halt, WorkPCs
  <2> QED BY <2>4, <2>5 DEF TInv
<1>2. TInv /\ [Next]_vars => TInv'
  <2> SUFFICES ASSUME TInv, [Next]_vars
               PROVE  TInv'
    OBVIOUS
  <2> USE DEF TInv, TypeOK, FramesPresent, Threads, FrameOrNull, Free, MapperPCs, TrackerPCs,
              WorkPCs, Step, Return, StepAndNotify, LockSeeds, queue, slot, list, thread,
              client, halt
  <2>1. ASSUME NEW t \in Threads, UpdateSeeds(t) PROVE TInv'
    BY <2>1 DEF UpdateSeeds
  <2>2. ASSUME NEW t \in Threads, UpdateSeed(t) PROVE TInv'
    BY <2>2, ListSteps DEF UpdateSeed
  <2>3. ASSUME NEW t \in Threads, UpdateReturn(t) PROVE TInv'
    BY <2>3 DEF UpdateReturn
  <2>4. ASSUME NEW t \in Threads, InitializeSeeds(t) PROVE TInv'
    BY <2>4, BoundsAssumption DEF InitializeSeeds
  <2>5. ASSUME NEW t \in Threads, InitializeLock(t) PROVE TInv'
    BY <2>5, NextBatchFacts DEF InitializeLock
  <2>6. ASSUME NEW t \in Threads, InitializePush(t) PROVE TInv'
    <3>1. NewSeed(frame[t]) \in Seed
      BY <2>6, BoundsAssumption DEF InitializePush, NewSeed, Seed, TooOld
    <3>2. seeds_' \in Seq(Seed)
      BY <2>6, <3>1, AppendProperties DEF InitializePush
    <3>3. todo' \in [Threads -> Nat]
      BY <2>6 DEF InitializePush
    <3> QED BY <2>6, <3>2, <3>3 DEF InitializePush
  <2>7. ASSUME NEW t \in Threads, InitializeReturn(t) PROVE TInv'
    BY <2>7 DEF InitializeReturn, Resume
  <2>8. CASE LoopTest
    BY <2>8 DEF LoopTest
  <2>9. CASE WaitTest
    BY <2>9 DEF WaitTest
  <2>10. CASE WaitSleep
    BY <2>10 DEF WaitSleep
  <2>11. CASE WaitWake
    BY <2>11 DEF WaitWake, AfterWake
  <2>12. CASE PickKeyframe
    BY <2>12 DEF PickKeyframe
  <2>13. CASE ClearFrameQueue
    <3>1. <<>> \in Seq(Frames) /\ Len(<<>>) <= 3
      BY EmptySeq
    <3>2. frame_queue_' \in Seq(Frames) /\ Len(frame_queue_') <= 3
      BY <2>13, <3>1, Zenon DEF ClearFrameQueue
    <3>3. /\ Step("mapper", "kf_clear", "kf_take")
          /\ halt' = FALSE
          /\ UNCHANGED <<frame_queue_mut_, slot, list, thread, frame, client>>
      BY <2>13 DEF ClearFrameQueue
    <3> QED BY <3>2, <3>3
  <2>14. CASE TakeKeyframe
    BY <2>14 DEF TakeKeyframe
  <2>15. CASE TakeFrame
    BY <2>15 DEF TakeFrame
  <2>16. CASE SpuriousWakeup
    BY <2>16 DEF SpuriousWakeup
  <2>17. CASE AddFramePush
    <3>1. DropOldest(frame_queue_) \in Seq(Frames) /\ Len(DropOldest(frame_queue_)) <= 2
      BY HeadTailProperties, EmptySeq, LenProperties DEF DropOldest
    <3>2. frame["tracker"] \in Frames
      BY <2>17 DEF AddFramePush
    <3>3. frame_queue_' \in Seq(Frames) /\ Len(frame_queue_') <= 3
      BY <2>17, <3>1, <3>2, AppendProperties, LenProperties DEF AddFramePush
    <3> QED BY <2>17, <3>3 DEF AddFramePush
  <2>18. CASE AddFrameNotify
    BY <2>18, ZenonT(40) DEF AddFrameNotify
  <2>19. CASE AddKeyframeStore
    BY <2>19 DEF AddKeyframeStore
  <2>20. CASE AddKeyframeNotify
    BY <2>20 DEF AddKeyframeNotify
  <2>21. CASE RemoveLock
    BY <2>21 DEF RemoveLock
  <2>22. CASE RemoveSeed
    BY <2>22, ListSteps DEF RemoveSeed
  <2>23. CASE RemoveReturn
    BY <2>23 DEF RemoveReturn
  <2>24. CASE ResetSeeds
    BY <2>24 DEF ResetSeeds
  <2>25. CASE ResetTest
    <3>1. CASE pc' = [pc EXCEPT !["tracker"] = "rs_pop"] /\ UNCHANGED halt
      BY <2>25, <3>1 DEF ResetTest
    <3>2. CASE pc' = [pc EXCEPT !["tracker"] = "idle"] /\ halt' = FALSE
      BY <2>25, <3>2, ZenonT(40) DEF ResetTest
    <3> QED BY <2>25, <3>1, <3>2 DEF ResetTest
  <2>26. CASE ResetPop
    BY <2>26 DEF ResetPop
  <2>27. CASE StopJoin
    BY <2>27 DEF StopJoin
  <2>28. CASE Reset
    BY <2>28 DEF Reset
  <2>29. CASE StartThread
    BY <2>29 DEF StartThread
  <2>30. CASE StopThread
    BY <2>30 DEF StopThread
  <2>31. ASSUME NEW f \in Frames, AddFrame(f) PROVE TInv'
    BY <2>31 DEF AddFrame
  <2>32. ASSUME NEW f \in Frames, AddKeyframe(f) PROVE TInv'
    BY <2>32 DEF AddKeyframe, KeyframeDepth
  <2>33. ASSUME NEW f \in Frames, RemoveKeyframe(f) PROVE TInv'
    BY <2>33 DEF RemoveKeyframe
  <2>34. CASE UNCHANGED vars
    BY <2>34 DEF vars
  <2> QED
    BY <2>1, <2>2, <2>3, <2>4, <2>5, <2>6, <2>7, <2>8, <2>9, <2>10, <2>11, <2>12, <2>13, <2>14, <2>15, <2>16, <2>17, <2>18, <2>19, <2>20, <2>21, <2>22, <2>23, <2>24, <2>25, <2>26, <2>27, <2>28, <2>29, <2>30, <2>31, <2>32, <2>33, <2>34 DEF Next, MapperStep, TrackerStep, TrackerCall, SeedWork, AnyAddFrame, Threads
<1> QED BY <1>1, <1>2, PTL DEF Spec

(* The types, and the limit on the frame queue.                             *)
THEOREM TypesCorrect == Spec => []TypeOK
BY TypeCorrect, PTL DEF TInv

ListPCs == {"scan", "rk_scan", "init_push"}

(* A step that has nothing to do with the list: no thread enters or leaves  *)
(* the parts of the code that work on it.                                  *)
Quiet ==
  /\ UNCHANGED <<seeds_, seeds_mut_, it>>
  /\ \A t \in Threads :
       pc[t] \in ListPCs \/ pc'[t] \in ListPCs =>
         pc'[t] = pc[t] /\ frame'[t] = frame[t] /\ todo'[t] = todo[t]

(* The steps that have.                                                     *)
OnList ==
  \/ \E t \in Threads : \/ UpdateSeeds(t) \/ UpdateSeed(t) \/ UpdateReturn(t)
                        \/ InitializeLock(t) \/ InitializePush(t) \/ InitializeReturn(t)
  \/ RemoveLock \/ RemoveSeed \/ RemoveReturn \/ ResetSeeds

(* Every step is one or the other.                                          *)
LEMMA QuietOrOnList ==
  ASSUME TInv, [Next]_vars
  PROVE  Quiet \/ OnList
<1> USE DEF TInv, TypeOK, FramesPresent, Threads, Quiet, ListPCs, MapperPCs, TrackerPCs,
            WorkPCs, Step, StepAndNotify, queue, slot, list, thread, client, halt
<1>1. ASSUME NEW t \in Threads, InitializeSeeds(t) PROVE Quiet
  BY <1>1 DEF InitializeSeeds
<1>2. CASE LoopTest
  BY <1>2 DEF LoopTest
<1>3. CASE WaitTest
  BY <1>3 DEF WaitTest
<1>4. CASE WaitSleep
  BY <1>4 DEF WaitSleep
<1>5. CASE WaitWake
  BY <1>5 DEF WaitWake, AfterWake
<1>6. CASE PickKeyframe
  BY <1>6 DEF PickKeyframe
<1>7. CASE ClearFrameQueue
  BY <1>7 DEF ClearFrameQueue
<1>8. CASE TakeKeyframe
  BY <1>8 DEF TakeKeyframe
<1>9. CASE TakeFrame
  BY <1>9 DEF TakeFrame
<1>10. CASE SpuriousWakeup
  BY <1>10 DEF SpuriousWakeup
<1>11. CASE AddFramePush
  BY <1>11 DEF AddFramePush
<1>12. CASE AddFrameNotify
  BY <1>12 DEF AddFrameNotify
<1>13. CASE AddKeyframeStore
  BY <1>13 DEF AddKeyframeStore
<1>14. CASE AddKeyframeNotify
  BY <1>14 DEF AddKeyframeNotify
<1>15. CASE ResetTest
  BY <1>15 DEF ResetTest
<1>16. CASE ResetPop
  BY <1>16 DEF ResetPop
<1>17. CASE StopJoin
  BY <1>17 DEF StopJoin
<1>18. CASE Reset
  BY <1>18 DEF Reset
<1>19. CASE StartThread
  BY <1>19 DEF StartThread
<1>20. CASE StopThread
  BY <1>20 DEF StopThread
<1>21. ASSUME NEW f \in Frames, AddFrame(f) PROVE Quiet
  BY <1>21 DEF AddFrame
<1>22. ASSUME NEW f \in Frames, AddKeyframe(f) PROVE Quiet
  BY <1>22 DEF AddKeyframe, KeyframeDepth
<1>23. ASSUME NEW f \in Frames, RemoveKeyframe(f) PROVE Quiet
  BY <1>23 DEF RemoveKeyframe
<1>24. CASE UNCHANGED vars
  BY <1>24 DEF vars
<1> HIDE DEF Quiet
<1> QED
  BY <1>1, <1>2, <1>3, <1>4, <1>5, <1>6, <1>7, <1>8, <1>9, <1>10, <1>11, <1>12, <1>13, <1>14, <1>15, <1>16, <1>17, <1>18, <1>19, <1>20, <1>21, <1>22, <1>23, <1>24,
     Zenon DEF Next, MapperStep, TrackerStep, TrackerCall, SeedWork, AnyAddFrame, OnList, Threads

(* The invariant of the walks over the list.  IteratorsValid carries the    *)
(* other two: only the holder of seeds_mut_ changes what is behind its own  *)
(* iterator.                                                               *)
WInv == IteratorsValid /\ ScannedSeedsYoung /\ RemovedSeedsGone

(* The iterators of updateSeeds and removeKeyframe stay valid, and what     *)
(* they have passed stays dealt with: no seed too old, none of the removed  *)
(* keyframe.                                                               *)
THEOREM WalksCorrect == Spec => []WInv
<1>1. Init => WInv
  BY DEF Init, WInv, IteratorsValid, ScannedSeedsYoung, RemovedSeedsGone, HoldsSeeds, Walking,
     Threads, Free
<1>2. TInv /\ WInv /\ [Next]_vars => WInv'
  <2>s. SUFFICES ASSUME TInv, WInv, [Next]_vars
               PROVE  WInv'
    OBVIOUS
  <2>0. Len(seeds_) \in Nat /\ DOMAIN seeds_ = 1 .. Len(seeds_)
    BY <2>s, LenProperties DEF TInv, TypeOK
  <2>a. \A i \in DOMAIN seeds_ : seeds_[i].age \in Nat
    <3>1. \A i \in DOMAIN seeds_ : seeds_[i] \in Seed
      BY <2>s, <2>0, ElementOfSeq DEF TInv, TypeOK
    <3>2. TooOld \in Nat
      BY BoundsAssumption DEF TooOld
    <3> QED BY <3>1, <3>2 DEF Seed
  <2>b. ASSUME NEW t \in Threads, it[t] <= Len(seeds_), EraseSeed(t) \/ NextSeed(t)
        PROVE  /\ it'[t] <= Len(seeds_') + 1
               /\ \A i \in DOMAIN seeds_' : i < it'[t] =>
                    /\ i \in DOMAIN seeds_ /\ seeds_'[i] = seeds_[i]
                    /\ i < it[t] \/ (i = it[t] /\ NextSeed(t))
    BY <2>s, <2>b, ListSteps DEF TInv, TypeOK
  <2>c. ASSUME NEW t \in Threads, it[t] <= Len(seeds_)
        PROVE  it[t] \in DOMAIN seeds_
    BY <2>s, <2>0, <2>c DEF TInv, TypeOK
  <2> USE DEF TInv, TypeOK, FramesPresent, WInv, IteratorsValid, ScannedSeedsYoung,
              RemovedSeedsGone, HoldsSeeds, Walking, Threads, Free, Step, Return, LockSeeds
  <2>1. CASE Quiet
    BY <2>s, <2>1 DEF Quiet, ListPCs
  <2>2. ASSUME NEW t \in Threads, UpdateSeeds(t) PROVE WInv'
    BY <2>s, <2>0, <2>2 DEF UpdateSeeds
  <2>3. ASSUME NEW t \in Threads, UpdateSeed(t) PROVE WInv'
    <3>1. /\ seeds_mut_ = t /\ seeds_mut_' = t /\ pc' = pc /\ frame' = frame
          /\ it[t] <= Len(seeds_)
          /\ EraseSeed(t) \/ NextSeed(t)
      BY <2>s, <2>3 DEF UpdateSeed
    <3>2. /\ it'[t] <= Len(seeds_') + 1
          /\ \A i \in DOMAIN seeds_' : i < it'[t] =>
               /\ i \in DOMAIN seeds_ /\ seeds_'[i] = seeds_[i]
               /\ i < it[t] \/ (i = it[t] /\ NextSeed(t))
      BY <2>3, <3>1, <2>b
    <3>3. \A u \in Threads : Walking(u) <=> u = t
      BY <2>s, <2>3, <3>1 DEF UpdateSeed
    <3>4. IteratorsValid'
      BY <2>s, <3>1, <3>2, <3>3
    <3>5. NextSeed(t) => ~SeedTooOld(it[t])
      BY <2>s, <2>3 DEF UpdateSeed, EraseSeed, NextSeed
    <3>6. NextSeed(t) => seeds_[it[t]].age <= MaxNKfs
      BY <2>3, <3>1, <3>5, <2>a, <2>c, BoundsAssumption DEF SeedTooOld
    <3>7. ScannedSeedsYoung'
      BY <2>s, <2>3, <3>1, <3>2, <3>3, <3>6 DEF UpdateSeed
    <3>8. RemovedSeedsGone'
      BY <2>s, <2>3, <3>1 DEF UpdateSeed
    <3> QED BY <3>4, <3>7, <3>8
  <2>4. ASSUME NEW t \in Threads, UpdateReturn(t) PROVE WInv'
    BY <2>s, <2>4 DEF UpdateReturn
  <2>5. ASSUME NEW t \in Threads, InitializeLock(t) PROVE WInv'
    BY <2>s, <2>5 DEF InitializeLock
  <2>6. ASSUME NEW t \in Threads, InitializePush(t) PROVE WInv'
    BY <2>s, <2>6 DEF InitializePush
  <2>7. ASSUME NEW t \in Threads, InitializeReturn(t) PROVE WInv'
    BY <2>s, <2>7 DEF InitializeReturn
  <2>8. CASE RemoveLock
    BY <2>s, <2>0, <2>8 DEF RemoveLock
  <2>9. CASE RemoveSeed
    <3> DEFINE t == "tracker"
    <3>1. /\ seeds_mut_ = t /\ seeds_mut_' = t /\ pc' = pc /\ frame' = frame
          /\ it[t] <= Len(seeds_)
          /\ EraseSeed(t) \/ NextSeed(t)
      BY <2>s, <2>9 DEF RemoveSeed
    <3>2. /\ it'[t] <= Len(seeds_') + 1
          /\ \A i \in DOMAIN seeds_' : i < it'[t] =>
               /\ i \in DOMAIN seeds_ /\ seeds_'[i] = seeds_[i]
               /\ i < it[t] \/ (i = it[t] /\ NextSeed(t))
      BY <3>1, <2>b
    <3>3. \A u \in Threads : Walking(u) <=> u = t
      BY <2>s, <2>9, <3>1 DEF RemoveSeed
    <3>4. IteratorsValid'
      BY <2>s, <3>1, <3>2, <3>3
    <3>5. NextSeed(t) => seeds_[it[t]].frame # frame[t]
      BY <2>s, <2>9 DEF RemoveSeed, EraseSeed, NextSeed
    <3>6. ScannedSeedsYoung'
      BY <2>s, <2>9, <3>1, <3>3 DEF RemoveSeed
    <3>7. RemovedSeedsGone'
      BY <2>s, <3>1, <3>2, <3>5
    <3> QED BY <3>4, <3>6, <3>7
  <2>10. CASE RemoveReturn
    BY <2>s, <2>10 DEF RemoveReturn
  <2>11. CASE ResetSeeds
    BY <2>s, <2>11 DEF ResetSeeds
  <2> QED
    BY <2>1, <2>2, <2>3, <2>4, <2>5, <2>6, <2>7, <2>8, <2>9, <2>10, <2>11, <2>s, QuietOrOnList
    DEF OnList
<1> QED BY <1>1, <1>2, TypeCorrect, PTL DEF Spec

(* Whatever the two threads do, the iterators into the seed list are valid, *)
(* and only the thread that walks the list holds its lock.                  *)
THEOREM IteratorsCorrect == Spec => []IteratorsValid
BY WalksCorrect, PTL DEF WInv

(* A scan of the mapper leaves no seed behind that is too old.              *)
THEOREM ScansCorrect == Spec => []ScannedSeedsYoung
BY WalksCorrect, PTL DEF WInv

(* removeKeyframe leaves no seed of the keyframe behind.                    *)
THEOREM RemovalsCorrect == Spec => []RemovedSeedsGone
BY WalksCorrect, PTL DEF WInv

(* Unless reset pops a frame, nothing but the mapper empties the queue or   *)
(* takes the flag back, and it does so only after its test.                 *)
LEMMA FrontKept ==
  ASSUME TInv, FrontDefined, [Next]_vars, pc["tracker"] # "rs_pop"
  PROVE  FrontDefined'
<1> USE DEF FrontDefined, Threads, Step, Return, StepAndNotify, queue, slot, list, thread, client
<1>p. pc \in [Threads -> MapperPCs \cup TrackerPCs \cup WorkPCs]
  BY DEF TInv, TypeOK
<1>1. CASE WaitTest
  BY <1>p, <1>1 DEF WaitTest
<1>2. CASE AddFramePush
  <2>1. frame_queue_' # <<>>
    <3>1. DropOldest(frame_queue_) \in Seq(Frames)
      BY HeadTailProperties DEF DropOldest, TInv, TypeOK
    <3>2. frame["tracker"] \in Frames
      BY <1>2 DEF AddFramePush, TInv, FramesPresent
    <3> QED BY <1>2, <3>1, <3>2, AppendProperties DEF AddFramePush
  <2> QED BY <1>p, <1>2, <2>1 DEF AddFramePush
<1>3. CASE AddKeyframeStore
  BY <1>p, <1>3 DEF AddKeyframeStore
<1>4. ASSUME NEW t \in Threads, SeedWork(t)
      PROVE  FrontDefined'
  BY <1>p, <1>4
  DEF SeedWork, UpdateSeeds, UpdateSeed, UpdateReturn, InitializeSeeds, InitializeLock,
      InitializePush, InitializeReturn
<1>5. CASE LoopTest \/ WaitSleep \/ WaitWake \/ SpuriousWakeup
  BY <1>p, <1>5 DEF LoopTest, WaitSleep, WaitWake, AfterWake, SpuriousWakeup
<1>6. CASE PickKeyframe \/ ClearFrameQueue \/ TakeKeyframe \/ TakeFrame
  BY <1>p, <1>6 DEF PickKeyframe, ClearFrameQueue, TakeKeyframe, TakeFrame
<1>7. CASE AddFrameNotify \/ AddKeyframeNotify \/ RemoveLock \/ RemoveSeed \/ RemoveReturn
  BY <1>p, <1>7
  DEF AddFrameNotify, AddKeyframeNotify, RemoveLock, RemoveSeed, RemoveReturn
<1>8. CASE ResetSeeds \/ ResetTest \/ ResetPop \/ Reset
  BY <1>p, <1>8 DEF ResetSeeds, ResetTest, ResetPop, Reset
<1>9. CASE StartThread \/ StopThread \/ StopJoin
  BY <1>p, <1>9 DEF StartThread, StopThread, StopJoin
<1>10. ASSUME NEW f \in Frames, AddFrame(f) \/ AddKeyframe(f) \/ RemoveKeyframe(f)
       PROVE  FrontDefined'
  BY <1>p, <1>10 DEF AddFrame, AddKeyframe, KeyframeDepth, RemoveKeyframe
<1>11. CASE UNCHANGED vars
  BY <1>11 DEF vars
<1> QED
  BY <1>1, <1>2, <1>3, <1>4, <1>5, <1>6, <1>7, <1>8, <1>9, <1>10, <1>11
  DEF Next, MapperStep, TrackerStep, TrackerCall, AnyAddFrame, Threads

(* Nor does reset's pop go wrong, or make front() go wrong, where the       *)
(* mapper is elsewhere.                                                     *)
LEMMA FrontKeptInReset ==
  ASSUME TInv, FrontDefined, [Next]_vars, pc["tracker"] = "rs_pop",
         pc["mapper"] \notin {"pick", "kf_clear"}
  PROVE  FrontDefined'
<1> USE DEF FrontDefined, Threads, Step, Return, StepAndNotify, queue, slot, list, thread, client
<1>p. pc \in [Threads -> MapperPCs \cup TrackerPCs \cup WorkPCs]
  BY DEF TInv, TypeOK
<1>1. CASE ResetPop
  BY <1>p, <1>1 DEF ResetPop
<1>2. CASE WaitTest
  BY <1>p, <1>2 DEF WaitTest
<1>3. CASE LoopTest \/ WaitSleep \/ WaitWake \/ SpuriousWakeup \/ TakeKeyframe
  BY <1>p, <1>3 DEF LoopTest, WaitSleep, WaitWake, AfterWake, SpuriousWakeup, TakeKeyframe
<1>4. ASSUME NEW t \in Threads, SeedWork(t)
      PROVE  FrontDefined'
  BY <1>p, <1>4
  DEF SeedWork, UpdateSeeds, UpdateSeed, UpdateReturn, InitializeSeeds, InitializeLock,
      InitializePush, InitializeReturn
<1>5. ~(PickKeyframe \/ ClearFrameQueue \/ TakeFrame)
  BY DEF PickKeyframe, ClearFrameQueue, TakeFrame
<1>6. ~\/ AddFramePush \/ AddFrameNotify \/ AddKeyframeStore \/ AddKeyframeNotify
       \/ RemoveLock \/ RemoveSeed \/ RemoveReturn \/ ResetSeeds \/ ResetTest \/ StopJoin
  BY DEF AddFramePush, AddFrameNotify, AddKeyframeStore, AddKeyframeNotify, RemoveLock,
         RemoveSeed, RemoveReturn, ResetSeeds, ResetTest, StopJoin
<1>7. ~\/ \E f \in Frames : AddFrame(f) \/ AddKeyframe(f) \/ RemoveKeyframe(f)
       \/ Reset \/ StartThread \/ StopThread
  BY DEF AddFrame, AddKeyframe, RemoveKeyframe, Reset, StartThread, StopThread
<1>8. CASE UNCHANGED vars
  BY <1>8 DEF vars
<1> QED
  BY <1>1, <1>2, <1>3, <1>4, <1>5, <1>6, <1>7, <1>8
  DEF Next, MapperStep, TrackerStep, TrackerCall, AnyAddFrame, Threads

(* Whatever calls the client makes, resets, stops and restarts included,    *)
(* front() or pop() can come to an empty queue only where reset's unlocked  *)
(* pop and the mapper's taking of a frame or clearing of the queue overlap. *)
THEOREM FrontLost == Spec => FrontLostOnlyInReset
<1>1. TInv /\ [Next]_vars =>
        [FrontDefined /\ ~FrontDefined' =>
           pc["tracker"] = "rs_pop" /\ pc["mapper"] \in {"pick", "kf_clear"}]_vars
  BY FrontKept, FrontKeptInReset
<1> QED BY <1>1, TypeCorrect, PTL DEF Spec, FrontLostOnlyInReset

(* Erasing a seed leaves a list in batches.                                 *)
LEMMA InBatchesErase ==
  ASSUME NEW s \in Seq(Seed), NEW i \in 1 .. Len(s), InBatches(s)
  PROVE  InBatches(RemoveAt(s, i))
<1> DEFINE r == RemoveAt(s, i)
           at(j) == IF j < i THEN j ELSE j + 1
<1>1. /\ Len(s) \in Nat /\ DOMAIN s = 1 .. Len(s)
      /\ DOMAIN r = 1 .. Len(s) - 1
      /\ \A j \in 1 .. Len(s) - 1 : r[j] = s[at(j)]
  BY RemoveAtFacts, LenProperties
<1>2. \A j \in DOMAIN r : at(j) \in DOMAIN s
  BY <1>1
<1>3. \A j, k \in DOMAIN r : j < k => at(j) < at(k)
  BY <1>1
<1> HIDE DEF r, at
<1>4. InBatches(r)
  BY <1>1, <1>2, <1>3 DEF InBatches
<1> QED BY <1>4 DEF r

(* A new batch makes the seeds older in step, and none of them stays new.   *)
LEMMA InBatchesNext ==
  ASSUME NEW s \in Seq(Seed), InBatches(s)
  PROVE  /\ InBatches(NextBatch(s))
         /\ \A i \in DOMAIN NextBatch(s) : NextBatch(s)[i].age # 0
<1> DEFINE n == NextBatch(s)
<1>1. /\ DOMAIN s = 1 .. Len(s) /\ DOMAIN n = DOMAIN s
      /\ TooOld \in Nat /\ TooOld # 0
  BY NextBatchFacts, LenProperties, BoundsAssumption DEF TooOld
<1>2. \A i \in DOMAIN s : s[i].age \in 0 .. TooOld
  <2>1. \A i \in DOMAIN s : s[i] \in Seed
    BY <1>1, ElementOfSeq
  <2> QED BY <2>1 DEF Seed
<1>3. \A i \in DOMAIN s :
        /\ n[i].frame = s[i].frame
        /\ n[i].age = IF s[i].age = TooOld THEN TooOld ELSE s[i].age + 1
  BY <1>1, NextBatchFacts
<1> HIDE DEF n
<1>4. InBatches(n)
  BY <1>1, <1>2, <1>3, SMTT(30) DEF InBatches
<1>5. \A i \in DOMAIN n : n[i].age # 0
  BY <1>1, <1>2, <1>3
<1> QED BY <1>4, <1>5 DEF n

(* While a batch is being made, its seeds are those of the maker's frame.   *)
BatchOpen ==
  \A t \in Threads : pc[t] = "init_push" =>
    \A i \in DOMAIN seeds_ : seeds_[i].age = 0 => seeds_[i].frame = frame[t]

BInv == SeedsInBatches /\ BatchOpen

LEMMA BatchInvariant == Spec => []BInv
<1>1. Init => BInv
  BY DEF Init, BInv, SeedsInBatches, InBatches, BatchOpen, Threads
<1>2. TInv /\ WInv /\ BInv /\ [Next]_vars => BInv'
  <2>s. SUFFICES ASSUME TInv, WInv, BInv, [Next]_vars
                 PROVE  BInv'
    OBVIOUS
  <2>t. seeds_ \in Seq(Seed) /\ InBatches(seeds_) /\ BatchOpen
    BY <2>s DEF TInv, TypeOK, BInv, SeedsInBatches
  <2>p. /\ pc \in [Threads -> MapperPCs \cup TrackerPCs \cup WorkPCs]
        /\ it \in [Threads -> Nat \ {0}] /\ frame \in [Threads -> FrameOrNull]
    BY <2>s DEF TInv, TypeOK
  <2>0. Len(seeds_) \in Nat /\ DOMAIN seeds_ = 1 .. Len(seeds_)
    BY <2>t, LenProperties
  <2>h. \A t \in Threads : HoldsSeeds(t) <=> seeds_mut_ = t
    BY <2>s DEF WInv, IteratorsValid
  <2>q. ASSUME UNCHANGED seeds_, BatchOpen'
        PROVE  BInv'
    BY <2>q, <2>t DEF BInv, SeedsInBatches
  <2>w. ASSUME NEW t \in Threads, seeds_mut_ = t, pc[t] # "init_push", pc' = pc,
               it[t] <= Len(seeds_), EraseSeed(t) \/ NextSeed(t)
        PROVE  BInv'
    <3>1. it[t] \in 1 .. Len(seeds_)
      BY <2>0, <2>p, <2>w
    <3>2. InBatches(seeds_')
      BY <3>1, <2>t, <2>w, InBatchesErase DEF EraseSeed, NextSeed
    <3>3. \A u \in Threads : pc'[u] # "init_push"
      BY <2>h, <2>w DEF HoldsSeeds
    <3> QED BY <3>2, <3>3 DEF BInv, SeedsInBatches, BatchOpen
  <2>1. CASE Quiet
    <3>1. BatchOpen'
      BY <2>1, <2>t DEF Quiet, ListPCs, BatchOpen
    <3> QED BY <2>1, <3>1, <2>q DEF Quiet
  <2>2. ASSUME NEW t \in Threads, UpdateSeeds(t) \/ UpdateReturn(t) \/ InitializeReturn(t)
        PROVE  BInv'
    <3>1. /\ UNCHANGED seeds_
          /\ \A u \in Threads :
               pc'[u] = "init_push" => pc[u] = "init_push" /\ frame'[u] = frame[u]
      BY <2>2, <2>p DEF UpdateSeeds, UpdateReturn, InitializeReturn, Step, Return, Threads
    <3>2. BatchOpen'
      BY <3>1, <2>t DEF BatchOpen
    <3> QED BY <3>1, <3>2, <2>q
  <2>3. ASSUME NEW t \in Threads, UpdateSeed(t) PROVE BInv'
    <3>1. /\ pc[t] = "scan" /\ pc' = pc /\ it[t] <= Len(seeds_)
          /\ EraseSeed(t) \/ NextSeed(t)
      BY <2>3, <2>p DEF UpdateSeed, Step
    <3>2. seeds_mut_ = t
      BY <3>1, <2>h DEF HoldsSeeds, Walking
    <3> QED BY <3>1, <3>2, <2>w
  <2>4. ASSUME NEW t \in Threads, InitializeLock(t) PROVE BInv'
    <3>1. seeds_' = NextBatch(seeds_)
      BY <2>4 DEF InitializeLock
    <3>2. InBatches(seeds_') /\ \A i \in DOMAIN seeds_' : seeds_'[i].age # 0
      BY <3>1, <2>t, InBatchesNext
    <3> QED BY <3>2 DEF BInv, SeedsInBatches, BatchOpen
  <2>5. ASSUME NEW t \in Threads, InitializePush(t) PROVE BInv'
    <3>1. /\ pc[t] = "init_push" /\ pc' = pc /\ frame' = frame
          /\ seeds_' = Append(seeds_, NewSeed(frame[t]))
      BY <2>5, <2>p DEF InitializePush, Step
    <3>2. frame[t] \in Frames
      BY <3>1, <2>s, <2>5 DEF TInv, FramesPresent, WorkPCs
    <3>3. NewSeed(frame[t]) \in Seed /\ NewSeed(frame[t]).age = 0
          /\ NewSeed(frame[t]).frame = frame[t]
      BY <3>2, BoundsAssumption DEF NewSeed, Seed, TooOld
    <3>4. /\ DOMAIN seeds_' = 1 .. Len(seeds_) + 1
          /\ seeds_'[Len(seeds_) + 1] = NewSeed(frame[t])
          /\ \A i \in 1 .. Len(seeds_) : seeds_'[i] = seeds_[i]
      BY <3>1, <3>3, <2>t, <2>0, AppendProperties, LenProperties
    <3>5. \A i \in 1 .. Len(seeds_) :
            /\ seeds_[i].age \in Nat
            /\ seeds_[i].age = 0 => seeds_[i].frame = frame[t]
      <4>1. \A i \in 1 .. Len(seeds_) : seeds_[i].age \in 0 .. TooOld
        <5>1. \A i \in 1 .. Len(seeds_) : seeds_[i] \in Seed
          BY <2>t, ElementOfSeq
        <5> QED BY <5>1 DEF Seed
      <4> QED BY <4>1, <2>0, <2>t, <3>1, <2>5, BoundsAssumption DEF BatchOpen, TooOld
    <3>6. InBatches(seeds_')
      BY <3>3, <3>4, <3>5, <2>0, <2>t DEF InBatches
    <3>7. \A u \in Threads : pc'[u] = "init_push" => u = t
      BY <2>5, <3>1, <2>h DEF HoldsSeeds
    <3>8. BatchOpen'
      BY <3>1, <3>3, <3>4, <3>5, <3>7, <2>0 DEF BatchOpen
    <3> QED BY <3>6, <3>8 DEF BInv, SeedsInBatches
  <2>6. CASE RemoveLock \/ RemoveReturn
    <3>1. /\ UNCHANGED seeds_
          /\ \A u \in Threads :
               pc'[u] = "init_push" => pc[u] = "init_push" /\ frame'[u] = frame[u]
      BY <2>6, <2>p DEF RemoveLock, RemoveReturn, Step, Return, Threads
    <3>2. BatchOpen'
      BY <3>1, <2>t DEF BatchOpen
    <3> QED BY <3>1, <3>2, <2>q
  <2>7. CASE RemoveSeed
    <3>1. /\ pc["tracker"] = "rk_scan" /\ pc' = pc /\ it["tracker"] <= Len(seeds_)
          /\ EraseSeed("tracker") \/ NextSeed("tracker")
      BY <2>7, <2>p DEF RemoveSeed, Step
    <3>2. seeds_mut_ = "tracker" /\ "tracker" \in Threads
      BY <3>1, <2>h DEF HoldsSeeds, Walking, Threads
    <3> QED BY <3>1, <3>2, <2>w
  <2>8. CASE ResetSeeds
    <3>1. seeds_' = <<>>
      BY <2>8 DEF ResetSeeds
    <3> QED BY <3>1 DEF BInv, SeedsInBatches, InBatches, BatchOpen
  <2> QED
    BY <2>1, <2>2, <2>3, <2>4, <2>5, <2>6, <2>7, <2>8, <2>s, QuietOrOnList DEF OnList
<1> QED BY <1>1, <1>2, TypeCorrect, WalksCorrect, PTL DEF Spec

(* The list stays in order of batches, each of one keyframe, whatever the   *)
(* two threads do to it in whatever order.                                 *)
THEOREM BatchesCorrect == Spec => []SeedsInBatches
<1>1. BInv => SeedsInBatches
  BY DEF BInv
<1> QED BY <1>1, BatchInvariant, PTL

(* The keyframes that may still get seeds are keyframes.                    *)
KeyframePCs == {"detect", "init_lock", "init_push", "ak_store"}

KInv ==
  /\ \A i \in DOMAIN seeds_ : seeds_[i].frame \in is_keyframe
  /\ new_keyframe_set_ \/ pc["mapper"] \in {"kf_clear", "kf_take"} => new_keyframe_ \in is_keyframe
  /\ \A t \in Threads : pc[t] \in KeyframePCs => frame[t] \in is_keyframe

LEMMA KeyframeInvariant == Spec => []KInv
<1>1. Init => KInv
  BY DEF Init, KInv, Threads, KeyframePCs
<1>2. TInv /\ WInv /\ KInv /\ [Next]_vars => KInv'
  <2>s. SUFFICES ASSUME TInv, WInv, KInv, [Next]_vars
                 PROVE  KInv'
    OBVIOUS
  <2>p. /\ pc \in [Threads -> MapperPCs \cup TrackerPCs \cup WorkPCs]
        /\ frame \in [Threads -> FrameOrNull] /\ it \in [Threads -> Nat \ {0}]
        /\ seeds_ \in Seq(Seed)
    BY <2>s DEF TInv, TypeOK
  <2>d. Len(seeds_) \in Nat /\ DOMAIN seeds_ = 1 .. Len(seeds_)
    BY <2>p, LenProperties
  <2>e. ASSUME NEW t \in Threads, EraseSeed(t) \/ NextSeed(t), it[t] <= Len(seeds_)
        PROVE  \A i \in DOMAIN seeds_' : \E j \in DOMAIN seeds_ : seeds_'[i] = seeds_[j]
    <3>1. it[t] \in 1 .. Len(seeds_)
      BY <2>d, <2>p, <2>e
    <3>2. CASE EraseSeed(t)
      <4>1. /\ DOMAIN seeds_' = 1 .. Len(seeds_) - 1
            /\ \A j \in 1 .. Len(seeds_) - 1 :
                 seeds_'[j] = IF j < it[t] THEN seeds_[j] ELSE seeds_[j + 1]
        BY <3>1, <3>2, <2>p, <2>d, RemoveAtFacts, LenProperties DEF EraseSeed
      <4> QED BY <4>1, <3>1, <2>d
    <3> QED BY <2>e, <3>2 DEF NextSeed
  <2> USE DEF KInv, KeyframePCs, Threads, FrameOrNull, Step, Return,
              StepAndNotify, queue, slot, list, thread, client, halt
  <2>1. ASSUME NEW t \in Threads, UpdateSeeds(t) PROVE KInv'
    BY <2>s, <2>p, <2>1 DEF UpdateSeeds
  <2>2. ASSUME NEW t \in Threads, UpdateReturn(t) PROVE KInv'
    BY <2>s, <2>p, <2>2 DEF UpdateReturn, ExtractsSeeds
  <2>3. ASSUME NEW t \in Threads, InitializeSeeds(t) PROVE KInv'
    BY <2>s, <2>p, <2>3 DEF InitializeSeeds
  <2>4. ASSUME NEW t \in Threads, InitializeReturn(t) PROVE KInv'
    BY <2>s, <2>p, <2>4 DEF InitializeReturn
  <2>5. ASSUME NEW f \in Frames, AddKeyframe(f) PROVE KInv'
    BY <2>s, <2>p, <2>5 DEF AddKeyframe
  <2>6. ASSUME NEW f \in Frames, RemoveKeyframe(f) PROVE KInv'
    BY <2>s, <2>p, <2>6 DEF RemoveKeyframe
  <2>7. CASE LoopTest
    BY <2>s, <2>p, <2>7 DEF LoopTest
  <2>8. CASE WaitTest
    BY <2>s, <2>p, <2>8 DEF WaitTest
  <2>9. CASE WaitSleep
    BY <2>s, <2>p, <2>9 DEF WaitSleep
  <2>10. CASE SpuriousWakeup
    BY <2>s, <2>p, <2>10 DEF SpuriousWakeup
  <2>11. CASE WaitWake
    BY <2>s, <2>p, <2>11 DEF WaitWake, AfterWake
  <2>12. CASE PickKeyframe
    BY <2>s, <2>p, <2>12 DEF PickKeyframe
  <2>13. CASE ClearFrameQueue
    BY <2>s, <2>p, <2>13 DEF ClearFrameQueue
  <2>14. CASE TakeKeyframe
    BY <2>s, <2>p, <2>14 DEF TakeKeyframe
  <2>15. CASE TakeFrame
    BY <2>s, <2>p, <2>15 DEF TakeFrame
  <2>16. CASE AddFramePush
    BY <2>s, <2>p, <2>16 DEF AddFramePush
  <2>17. CASE AddFrameNotify
    BY <2>s, <2>p, <2>17 DEF AddFrameNotify
  <2>18. CASE AddKeyframeStore
    BY <2>s, <2>p, <2>18 DEF AddKeyframeStore
  <2>19. CASE AddKeyframeNotify
    BY <2>s, <2>p, <2>19 DEF AddKeyframeNotify
  <2>20. CASE RemoveLock
    BY <2>s, <2>p, <2>20 DEF RemoveLock
  <2>21. CASE RemoveReturn
    BY <2>s, <2>p, <2>21 DEF RemoveReturn
  <2>22. CASE Reset
    BY <2>s, <2>p, <2>22 DEF Reset
  <2>23. CASE ResetTest
    BY <2>s, <2>p, <2>23 DEF ResetTest
  <2>24. CASE ResetPop
    BY <2>s, <2>p, <2>24 DEF ResetPop
  <2>25. CASE StartThread
    BY <2>s, <2>p, <2>25 DEF StartThread
  <2>26. CASE StopThread
    BY <2>s, <2>p, <2>26 DEF StopThread
  <2>27. CASE StopJoin
    BY <2>s, <2>p, <2>27 DEF StopJoin
  <2>28. ASSUME NEW f \in Frames, AddFrame(f) PROVE KInv'
    <3>1. \A i \in DOMAIN seeds_ : seeds_[i].frame # f
      BY <2>28 DEF AddFrame, Unused, SeedFrames
    <3>2. f # new_keyframe_ /\ \A t \in Threads : frame[t] # f
      BY <2>28 DEF AddFrame, Unused
    <3> QED BY <2>s, <2>p, <2>28, <3>1, <3>2 DEF AddFrame
  <2>29. ASSUME NEW t \in Threads, UpdateSeed(t) PROVE KInv'
    <3>1. \A i \in DOMAIN seeds_' : \E j \in DOMAIN seeds_ : seeds_'[i] = seeds_[j]
      BY <2>29, <2>e DEF UpdateSeed
    <3>2. \A i \in DOMAIN seeds_' : seeds_'[i].frame \in is_keyframe'
      BY <2>s, <2>29, <3>1 DEF UpdateSeed
    <3> QED BY <2>s, <2>p, <2>29, <3>2 DEF UpdateSeed
  <2>30. CASE RemoveSeed
    <3>1. \A i \in DOMAIN seeds_' : \E j \in DOMAIN seeds_ : seeds_'[i] = seeds_[j]
      BY <2>30, <2>e DEF RemoveSeed
    <3>2. \A i \in DOMAIN seeds_' : seeds_'[i].frame \in is_keyframe'
      BY <2>s, <2>30, <3>1 DEF RemoveSeed
    <3> QED BY <2>s, <2>p, <2>30, <3>2 DEF RemoveSeed
  <2>31. CASE ResetSeeds
    <3>1. seeds_' = <<>>
      BY <2>31 DEF ResetSeeds
    <3>2. \A i \in DOMAIN seeds_' : seeds_'[i].frame \in is_keyframe'
      BY <3>1
    <3> QED BY <2>s, <2>p, <2>31, <3>2 DEF ResetSeeds
  <2>32. ASSUME NEW t \in Threads, InitializeLock(t) PROVE KInv'
    <3>1. DOMAIN seeds_' = DOMAIN seeds_ /\ \A i \in DOMAIN seeds_ : seeds_'[i].frame = seeds_[i].frame
      <4>1. \A i \in DOMAIN seeds_ : seeds_[i] \in Seed
        BY <2>p, <2>d, ElementOfSeq
      <4>2. \A x \in Seed, a \in Nat : [x EXCEPT !.age = a].frame = x.frame
        BY DEF Seed
      <4> QED BY <2>32, <4>1, <4>2 DEF InitializeLock, NextBatch, Seed
    <3>2. \A i \in DOMAIN seeds_' : seeds_'[i].frame \in is_keyframe'
      BY <2>s, <2>32, <3>1 DEF InitializeLock
    <3> QED BY <2>s, <2>p, <2>32, <3>2 DEF InitializeLock
  <2>33. ASSUME NEW t \in Threads, InitializePush(t) PROVE KInv'
    <3>1. frame[t] \in Frames /\ frame[t] \in is_keyframe
      BY <2>s, <2>33 DEF InitializePush, TInv, FramesPresent, WorkPCs
    <3>2. NewSeed(frame[t]) \in Seed /\ NewSeed(frame[t]).frame = frame[t]
      BY <3>1, BoundsAssumption DEF NewSeed, Seed, TooOld
    <3>3. /\ DOMAIN seeds_' = 1 .. Len(seeds_) + 1
          /\ seeds_'[Len(seeds_) + 1] = NewSeed(frame[t])
          /\ \A i \in 1 .. Len(seeds_) : seeds_'[i] = seeds_[i]
      BY <2>33, <3>2, <2>p, <2>d, AppendProperties, LenProperties DEF InitializePush
    <3>4. \A i \in DOMAIN seeds_' : i \in 1 .. Len(seeds_) \/ i = Len(seeds_) + 1
      BY <3>3, <2>d
    <3>5. \A i \in DOMAIN seeds_' : seeds_'[i].frame \in is_keyframe'
      BY <2>s, <2>d, <2>33, <3>1, <3>2, <3>3, <3>4 DEF InitializePush
    <3> QED BY <2>s, <2>p, <2>33, <3>5 DEF InitializePush
  <2>34. CASE UNCHANGED vars
    BY <2>s, <2>p, <2>34 DEF vars
  <2> QED
    BY <2>1, <2>2, <2>3, <2>4, <2>5, <2>6, <2>7, <2>8, <2>9, <2>10, <2>11, <2>12, <2>13, <2>14, <2>15, <2>16, <2>17, <2>18, <2>19, <2>20, <2>21, <2>22, <2>23, <2>24, <2>25, <2>26, <2>27, <2>28, <2>29, <2>30, <2>31, <2>32, <2>33, <2>34, <2>s
    DEF Next, MapperStep, TrackerStep, TrackerCall, SeedWork, AnyAddFrame
<1> QED BY <1>1, <1>2, TypeCorrect, WalksCorrect, PTL DEF Spec

(* Seeds are made for keyframes only: no frame object that is used again    *)
(* for an ordinary frame has seeds, is in the slot or is being worked on.   *)
THEOREM KeyframesCorrect == Spec => []SeedsOfKeyframes
<1>1. TInv /\ KInv => SeedsOfKeyframes
  BY DEF TInv, TypeOK, KInv, SeedsOfKeyframes, SeedFrames, Given, SlotFull, InHand, ExtractsSeeds,
         KeyframePCs, TrackerPCs, Threads
<1> QED BY <1>1, TypeCorrect, KeyframeInvariant, PTL

-----------------------------------------------------------------------------
(* DepthFilter implements SeedFilter                                        *)

(* What is queued was not made a keyframe.                                  *)
PInv ==
  /\ \A i \in DOMAIN frame_queue_ : frame_queue_[i] \notin is_keyframe
  /\ pc["tracker"] = "af_push" => frame["tracker"] \notin is_keyframe

LEMMA PlainInvariant == Spec => []PInv
<1>1. Init => PInv
  BY DEF Init, PInv
<1>2. TInv /\ PInv /\ [Next]_vars => PInv'
  <2>s. SUFFICES ASSUME TInv, PInv, [Next]_vars
                 PROVE  PInv'
    OBVIOUS
  <2>p. /\ pc \in [Threads -> MapperPCs \cup TrackerPCs \cup WorkPCs]
        /\ frame \in [Threads -> FrameOrNull] /\ frame_queue_ \in Seq(Frames)
        /\ pc["mapper"] \notin TrackerPCs
    BY <2>s DEF TInv, TypeOK
  <2>d. Len(frame_queue_) \in Nat /\ DOMAIN frame_queue_ = 1 .. Len(frame_queue_)
    BY <2>p, LenProperties
  <2>t. /\ frame_queue_ # <<>> =>
             /\ Tail(frame_queue_) \in Seq(Frames)
             /\ DOMAIN Tail(frame_queue_) = 1 .. Len(frame_queue_) - 1
             /\ Len(Tail(frame_queue_)) = Len(frame_queue_) - 1
             /\ \A i \in DOMAIN Tail(frame_queue_) : Tail(frame_queue_)[i] = frame_queue_[i + 1]
    BY <2>p, HeadTailProperties, LenProperties
  <2>h. frame_queue_ # <<>> =>
          \A i \in DOMAIN Tail(frame_queue_) : Tail(frame_queue_)[i] \notin is_keyframe
    BY <2>d, <2>t, <2>s DEF PInv
  <2> DEFINE FrameKept == pc'["tracker"] = "af_push" =>
                            pc["tracker"] = "af_push" /\ frame'["tracker"] = frame["tracker"]
  <2>k. ASSUME UNCHANGED <<frame_queue_, is_keyframe>>, FrameKept PROVE PInv'
    BY <2>k, <2>s DEF PInv
  <2> HIDE DEF FrameKept
  <2>1. ASSUME NEW t \in Threads,
               UpdateSeeds(t) \/ UpdateSeed(t) \/ UpdateReturn(t) \/ InitializeSeeds(t)
               \/ InitializeLock(t) \/ InitializePush(t) \/ InitializeReturn(t)
        PROVE  UNCHANGED <<frame_queue_, is_keyframe>> /\ FrameKept
    BY <2>1, <2>p
    DEF UpdateSeeds, UpdateSeed, UpdateReturn, InitializeSeeds, InitializeLock, InitializePush,
        InitializeReturn, Step, Return, Threads, queue, client, FrameKept
  <2>2. ASSUME LoopTest \/ WaitTest \/ WaitSleep \/ SpuriousWakeup \/ WaitWake \/ PickKeyframe
               \/ TakeKeyframe
        PROVE  UNCHANGED <<frame_queue_, is_keyframe>> /\ FrameKept
    BY <2>2, <2>p
    DEF LoopTest, WaitTest, WaitSleep, SpuriousWakeup, WaitWake, PickKeyframe, TakeKeyframe,
        Step, Threads, queue, client, FrameKept
  <2>3. ASSUME AddFrameNotify \/ AddKeyframeStore \/ AddKeyframeNotify \/ RemoveLock
               \/ RemoveSeed \/ RemoveReturn \/ Reset \/ ResetSeeds \/ ResetTest
        PROVE  UNCHANGED <<frame_queue_, is_keyframe>> /\ FrameKept
    BY <2>3, <2>p
    DEF AddFrameNotify, AddKeyframeStore, AddKeyframeNotify, RemoveLock, RemoveSeed,
        RemoveReturn, Reset, ResetSeeds, ResetTest,
        Step, StepAndNotify, Return, Threads, queue, client, FrameKept
  <2>4. ASSUME StartThread \/ StopThread \/ StopJoin
               \/ \E f \in Frames : RemoveKeyframe(f)
        PROVE  UNCHANGED <<frame_queue_, is_keyframe>> /\ FrameKept
    BY <2>4, <2>p
    DEF StartThread, StopThread, StopJoin, RemoveKeyframe, Step, StepAndNotify, Threads, queue,
        client, FrameKept
  <2>5. CASE ClearFrameQueue
    BY <2>5, <2>s, <2>p DEF ClearFrameQueue, Step, Threads, client, PInv
  <2>6. CASE TakeFrame \/ ResetPop
    BY <2>6, <2>h, <2>s, <2>p DEF TakeFrame, ResetPop, Step, Threads, client, PInv
  <2>7. CASE AddFramePush
    <3>1. /\ frame_queue_' = Append(DropOldest(frame_queue_), frame["tracker"])
          /\ pc["tracker"] = "af_push" /\ pc'["tracker"] = "af_halt" /\ is_keyframe' = is_keyframe
      BY <2>7, <2>p DEF AddFramePush, Step, Threads, client
    <3>2. frame["tracker"] \in Frames \ is_keyframe
      BY <3>1, <2>s DEF PInv, TInv, FramesPresent, Threads
    <3>3. /\ DropOldest(frame_queue_) \in Seq(Frames)
          /\ \A i \in DOMAIN DropOldest(frame_queue_) :
               DropOldest(frame_queue_)[i] \notin is_keyframe
      <4>1. CASE Len(frame_queue_) > 2
        <5>1. frame_queue_ # <<>>
          BY <4>1, EmptySeq
        <5> QED BY <4>1, <5>1, <2>t, <2>h DEF DropOldest
      <4>2. CASE ~(Len(frame_queue_) > 2)
        BY <4>2, <2>p, <2>s DEF DropOldest, PInv
      <4> QED BY <4>1, <4>2
    <3> DEFINE q == DropOldest(frame_queue_)
    <3> HIDE DEF q
    <3>4. /\ DOMAIN q = 1 .. Len(q) /\ Len(q) \in Nat
          /\ DOMAIN Append(q, frame["tracker"]) = 1 .. Len(q) + 1
          /\ \A i \in 1 .. Len(q) : Append(q, frame["tracker"])[i] = q[i]
          /\ Append(q, frame["tracker"])[Len(q) + 1] = frame["tracker"]
      BY <3>2, <3>3, AppendProperties, LenProperties DEF q
    <3>5. \A i \in DOMAIN frame_queue_' : frame_queue_'[i] \notin is_keyframe
      BY <3>1, <3>2, <3>3, <3>4 DEF q
    <3> QED BY <3>1, <3>5 DEF PInv
  <2>8. ASSUME NEW f \in Frames, AddFrame(f) PROVE PInv'
    BY <2>8, <2>s, <2>p DEF AddFrame, Step, Threads, queue, PInv
  <2>9. ASSUME NEW f \in Frames, AddKeyframe(f) PROVE PInv'
    BY <2>9, <2>s, <2>p DEF AddKeyframe, Unused, Range, Step, Threads, queue, PInv
  <2>10. CASE UNCHANGED vars
    BY <2>10, <2>s DEF vars, queue, client, PInv
  <2> QED
    BY <2>s, <2>k, <2>1, <2>2, <2>3, <2>4, <2>5, <2>6, <2>7, <2>8, <2>9, <2>10
    DEF Next, MapperStep, TrackerStep, TrackerCall, SeedWork, AnyAddFrame, Threads
<1> QED BY <1>1, <1>2, TypeCorrect, PTL DEF Spec

(* A step that leaves what is given as it is.                               *)
SameGiven ==
  /\ SlotFull' <=> SlotFull
  /\ SlotFull => new_keyframe_' = new_keyframe_
  /\ \A t \in Threads : /\ InHand(t)' <=> InHand(t)
                        /\ InHand(t) => frame'[t] = frame[t]

LEMMA SameGivenIsGiven ==
  ASSUME SameGiven PROVE Given' = Given
BY DEF SameGiven, Given

(* Steps that do not change seeds_ and neither give nor take a keyframe.    *)
LEMMA SeedsKept ==
  ASSUME TInv, PInv, [Next]_vars
  PROVE  \/ UNCHANGED seeds_ /\ SameGiven
         \/ TakeKeyframe \/ AddKeyframeStore \/ RemoveSeed \/ ResetSeeds
         \/ \E f \in Frames : AddKeyframe(f)
         \/ \E t \in Threads : UpdateSeed(t) \/ InitializeLock(t) \/ InitializePush(t)
                               \/ InitializeReturn(t)
<1>p. /\ pc \in [Threads -> MapperPCs \cup TrackerPCs \cup WorkPCs]
      /\ frame \in [Threads -> FrameOrNull] /\ frame_queue_ \in Seq(Frames)
      /\ pc["mapper"] \notin TrackerPCs /\ pc["tracker"] \notin MapperPCs
  BY DEF TInv, TypeOK
<1> DEFINE Kept == UNCHANGED seeds_ /\ SameGiven
<1>1. ASSUME NEW t \in Threads, UpdateSeeds(t) \/ UpdateReturn(t) \/ InitializeSeeds(t)
      PROVE  Kept
  BY <1>1, <1>p
  DEF UpdateSeeds, UpdateReturn, InitializeSeeds, ExtractsSeeds, SlotFull, InHand, SameGiven,
      Step, Return, Threads, slot, client, MapperPCs, TrackerPCs
<1>2. CASE LoopTest \/ WaitTest \/ WaitSleep \/ SpuriousWakeup \/ WaitWake
  BY <1>2, <1>p
  DEF LoopTest, WaitTest, WaitSleep, SpuriousWakeup, WaitWake, AfterWake, ExtractsSeeds, SlotFull,
      InHand, SameGiven, Step, Threads, slot, list, client, MapperPCs, TrackerPCs
<1>3. CASE PickKeyframe \/ ClearFrameQueue
  BY <1>3, <1>p
  DEF PickKeyframe, ClearFrameQueue, ExtractsSeeds, SlotFull, InHand, SameGiven, Step, Threads, list,
      client, MapperPCs, TrackerPCs, slot
<1>4. CASE TakeFrame
  <2>1. Head(frame_queue_) \notin is_keyframe
    <3>1. frame_queue_ # <<>> /\ 1 \in DOMAIN frame_queue_ /\ Head(frame_queue_) = frame_queue_[1]
      BY <1>4, <1>p, EmptySeq, LenProperties DEF TakeFrame
    <3> QED BY <3>1 DEF PInv
  <2> QED
    BY <1>4, <1>p, <2>1
    DEF TakeFrame, ExtractsSeeds, SlotFull, InHand, SameGiven, Step, Threads, slot, list, client,
        MapperPCs, TrackerPCs
<1>5. CASE AddFramePush \/ AddFrameNotify \/ AddKeyframeNotify \/ RemoveLock \/ RemoveReturn
  BY <1>5, <1>p
  DEF AddFramePush, AddFrameNotify, AddKeyframeNotify, RemoveLock, RemoveReturn, ExtractsSeeds,
      SlotFull, InHand, SameGiven, Step, StepAndNotify, Return, Threads, slot, list, client,
      MapperPCs, TrackerPCs
<1>6. CASE Reset \/ ResetTest \/ ResetPop \/ StartThread \/ StopThread \/ StopJoin
  BY <1>6, <1>p
  DEF Reset, ResetTest, ResetPop, StartThread, StopThread, StopJoin, ExtractsSeeds, SlotFull,
      InHand, SameGiven, Step, StepAndNotify, Threads, slot, list, client, MapperPCs, TrackerPCs,
      TInv, FramesPresent
<1>7. ASSUME NEW f \in Frames, AddFrame(f) \/ RemoveKeyframe(f)
      PROVE  Kept
  BY <1>7, <1>p
  DEF AddFrame, RemoveKeyframe, Unused, ExtractsSeeds, SlotFull, InHand, SameGiven, Step, Threads,
      slot, list, client, MapperPCs, TrackerPCs
<1>8. CASE UNCHANGED vars
  BY <1>8 DEF vars, ExtractsSeeds, SlotFull, InHand, SameGiven, slot, list, client
<1> QED
  BY <1>1, <1>2, <1>3, <1>4, <1>5, <1>6, <1>7, <1>8
  DEF Next, MapperStep, TrackerStep, TrackerCall, SeedWork, AnyAddFrame, Threads

(* Erasing takes the last seed of one frame away, or of none.               *)
LEMMA EraseFrames ==
  ASSUME TInv, NEW t \in Threads, it[t] <= Len(seeds_), EraseSeed(t) \/ NextSeed(t)
  PROVE  \E f \in Frames : SeedFrames' \in {SeedFrames, SeedFrames \ {f}}
<1>1. /\ seeds_ \in Seq(Seed) /\ Len(seeds_) \in Nat /\ DOMAIN seeds_ = 1 .. Len(seeds_)
      /\ it[t] \in 1 .. Len(seeds_)
  <2>1. seeds_ \in Seq(Seed) /\ it[t] \in Nat \ {0}
    BY DEF TInv, TypeOK
  <2> QED BY <2>1, LenProperties
<1> DEFINE f == seeds_[it[t]].frame
<1>2. f \in Frames
  <2>1. seeds_[it[t]] \in Seed
    BY <1>1, ElementOfSeq
  <2> QED BY <2>1 DEF Seed
<1>3. CASE NextSeed(t)
  BY <1>2, <1>3 DEF NextSeed, SeedFrames
<1>4. CASE EraseSeed(t)
  <2>1. /\ DOMAIN seeds_' = 1 .. Len(seeds_) - 1
        /\ \A j \in 1 .. Len(seeds_) - 1 :
             seeds_'[j] = IF j < it[t] THEN seeds_[j] ELSE seeds_[j + 1]
    BY <1>1, <1>4, RemoveAtFacts, LenProperties DEF EraseSeed
  <2>2. \A i \in DOMAIN seeds_' : seeds_'[i].frame \in SeedFrames
    BY <1>1, <2>1 DEF SeedFrames
  <2>3. \A i \in DOMAIN seeds_ : i = it[t] \/ \E j \in DOMAIN seeds_' : seeds_'[j] = seeds_[i]
    <3>1. ASSUME NEW i \in DOMAIN seeds_, i < it[t]
          PROVE  i \in DOMAIN seeds_' /\ seeds_'[i] = seeds_[i]
      BY <1>1, <2>1, <3>1
    <3>2. ASSUME NEW i \in DOMAIN seeds_, i > it[t]
          PROVE  i - 1 \in DOMAIN seeds_' /\ seeds_'[i - 1] = seeds_[i]
      BY <1>1, <2>1, <3>2
    <3> QED BY <1>1, <3>1, <3>2
  <2>4. SeedFrames' \subseteq SeedFrames /\ SeedFrames \ {f} \subseteq SeedFrames'
    BY <2>2, <2>3 DEF SeedFrames
  <2> QED BY <1>2, <2>4
<1> QED BY <1>3, <1>4

(* Every step is one of SeedFilter's, or none.                              *)
LEMMA StepRefines ==
  ASSUME TInv, WInv, BInv, KInv, PInv, [Next]_vars
  PROVE  [Filter!Next]_<<Given, SeedFrames>>
<1>p. /\ pc \in [Threads -> MapperPCs \cup TrackerPCs \cup WorkPCs]
      /\ frame \in [Threads -> FrameOrNull]
      /\ pc["mapper"] \notin TrackerPCs /\ pc["tracker"] \notin MapperPCs
      /\ seeds_ \in Seq(Seed) /\ Len(seeds_) \in Nat /\ DOMAIN seeds_ = 1 .. Len(seeds_)
  <2>1. seeds_ \in Seq(Seed)
    BY DEF TInv, TypeOK
  <2> QED BY <2>1, LenProperties DEF TInv, TypeOK
<1>h. \A t \in Threads : HoldsSeeds(t) <=> seeds_mut_ = t
  BY DEF WInv, IteratorsValid
<1>1. CASE UNCHANGED seeds_ /\ SameGiven
  BY <1>1, SameGivenIsGiven DEF SeedFrames
<1>2. CASE TakeKeyframe
  <2>1. /\ SlotFull /\ new_keyframe_ \in is_keyframe /\ pc["mapper"] = "kf_take"
        /\ pc' = [pc EXCEPT !["mapper"] = "upd_lock"]
        /\ frame' = [frame EXCEPT !["mapper"] = new_keyframe_]
        /\ UNCHANGED <<seeds_, new_keyframe_, new_keyframe_set_, is_keyframe>>
    BY <1>2 DEF TakeKeyframe, Step, SlotFull, KInv, slot, list, client
  <2>2. /\ ~InHand("mapper") /\ InHand("mapper")' /\ frame'["mapper"] = new_keyframe_
        /\ (InHand("tracker")' <=> InHand("tracker")) /\ frame'["tracker"] = frame["tracker"]
    BY <1>p, <2>1 DEF InHand, ExtractsSeeds, Threads
  <2>3. Given' = Given
    BY <2>1, <2>2 DEF Given, Threads
  <2> QED BY <2>1, <2>3 DEF SeedFrames
<1>3. CASE AddKeyframeStore
  <2>1. /\ pc["tracker"] = "ak_store" /\ pc' = [pc EXCEPT !["tracker"] = "ak_halt"]
        /\ new_keyframe_' = frame["tracker"] /\ SlotFull'
        /\ UNCHANGED <<seeds_, is_keyframe>> /\ frame'["mapper"] = frame["mapper"]
        /\ new_keyframe_ \in FrameOrNull /\ frame["tracker"] \in Frames
    BY <1>3, <1>p DEF AddKeyframeStore, Step, SlotFull, list, client, TInv, TypeOK, FramesPresent, Threads
  <2>2. /\ InHand("tracker") /\ ~InHand("tracker")'
        /\ (InHand("mapper")' <=> InHand("mapper"))
    BY <1>p, <2>1 DEF InHand, ExtractsSeeds, Threads
  <2>3. Given' = {f \in Frames : f = frame["tracker"] \/ (InHand("mapper") /\ f = frame["mapper"])}
    BY <2>1, <2>2 DEF Given, Threads
  <2>4. Given = {f \in Frames : \/ SlotFull /\ f = new_keyframe_
                                \/ f = frame["tracker"]
                                \/ InHand("mapper") /\ f = frame["mapper"]}
    BY <2>2 DEF Given, Threads
  <2>5. Given' = Given \/ (new_keyframe_ \in Given /\ Given' = Given \ {new_keyframe_})
    BY <2>3, <2>4
  <2> QED BY <2>1, <2>5 DEF SeedFrames, Filter!Next, Filter!MakeSeeds
<1>4. ASSUME NEW f \in Frames, AddKeyframe(f) PROVE Filter!Next
  <2>1. /\ pc["tracker"] = "idle" /\ pc'["tracker"] \in {"ak_store", "detect"}
        /\ pc'["mapper"] = pc["mapper"] /\ frame'["mapper"] = frame["mapper"]
        /\ frame'["tracker"] = f /\ f # frame["mapper"] /\ f # new_keyframe_ /\ f \notin SeedFrames
        /\ UNCHANGED <<seeds_, new_keyframe_, new_keyframe_set_>>
        /\ is_keyframe' = is_keyframe \cup {f}
    BY <1>4, <1>p DEF AddKeyframe, Unused, Step, list, Threads
  <2>2. /\ ~InHand("tracker") /\ InHand("tracker")' /\ (SlotFull' <=> SlotFull)
        /\ (InHand("mapper")' <=> InHand("mapper"))
    BY <2>1 DEF InHand, ExtractsSeeds, SlotFull
  <2>3. Given' = Given \cup {f} /\ f \notin Given
    BY <2>1, <2>2 DEF Given, Threads
  <2> QED BY <2>1, <2>3 DEF SeedFrames, Filter!Next, Filter!Give
<1>5. ASSUME NEW t \in Threads, pc' = pc, frame' = frame, UNCHANGED slot, UNCHANGED client,
             pc[t] \in {"scan", "rk_scan"}, it[t] <= Len(seeds_), EraseSeed(t) \/ NextSeed(t)
      PROVE  [Filter!Next]_<<Given, SeedFrames>>
  <2>1. SameGiven
    <3>1. \A u \in Threads : pc[u] # "init_push"
      BY <1>5, <1>h DEF HoldsSeeds, Walking
    <3> QED BY <1>5, <3>1 DEF SameGiven, SlotFull, InHand, ExtractsSeeds, slot, client
  <2>2. PICK f \in Frames : SeedFrames' \in {SeedFrames, SeedFrames \ {f}}
    BY <1>5, EraseFrames
  <2> QED BY <2>1, <2>2, SameGivenIsGiven DEF Filter!Next, Filter!Erase
<1>6. CASE RemoveSeed
  BY <1>5, <1>6, <1>p DEF RemoveSeed, Step, Threads
<1>7. ASSUME NEW t \in Threads, UpdateSeed(t) PROVE [Filter!Next]_<<Given, SeedFrames>>
  BY <1>5, <1>7, <1>p DEF UpdateSeed, Step
<1>8. CASE ResetSeeds
  <2>1. /\ seeds_' = <<>> /\ seeds_mut_ = Free /\ pc["tracker"] = "rs_seeds"
        /\ pc' = [pc EXCEPT !["tracker"] = "rs_test"]
        /\ UNCHANGED <<slot, frame, client>>
    BY <1>8 DEF ResetSeeds, Step
  <2>2. \A u \in Threads : pc[u] # "init_push" /\ pc'[u] # "init_push"
    BY <1>h, <1>p, <2>1 DEF HoldsSeeds, Threads, Free
  <2>3. SameGiven
    BY <1>p, <2>1, <2>2 DEF SameGiven, SlotFull, InHand, ExtractsSeeds, slot, client, Threads
  <2>4. SeedFrames' = {}
    BY <2>1 DEF SeedFrames
  <2> QED BY <2>3, <2>4, SameGivenIsGiven DEF Filter!Next, Filter!Clear
<1>9. ASSUME NEW t \in Threads, InitializeLock(t) PROVE [Filter!Next]_<<Given, SeedFrames>>
  <2>1. /\ seeds_' = NextBatch(seeds_) /\ seeds_mut_ = Free /\ pc[t] = "init_lock"
        /\ pc' = [pc EXCEPT ![t] = "init_push"] /\ UNCHANGED <<slot, frame, client>>
    BY <1>9 DEF InitializeLock, Step, LockSeeds
  <2>2. \A u \in Threads : pc[u] # "init_push"
    BY <1>h, <2>1 DEF HoldsSeeds, Threads, Free
  <2>3. /\ seeds_' \in Seq(Seed) /\ DOMAIN seeds_' = DOMAIN seeds_
        /\ \A i \in DOMAIN seeds_ : seeds_'[i].frame = seeds_[i].frame
        /\ \A i \in DOMAIN seeds_' : seeds_'[i].age # 0
    BY <1>p, <2>1, NextBatchFacts, InBatchesNext, LenProperties DEF BInv, SeedsInBatches
  <2>4. seeds_' = <<>> \/ Last(seeds_').age # 0
    <3>1. seeds_' # <<>> => Len(seeds_') \in DOMAIN seeds_'
      BY <2>3, EmptySeq, LenProperties
    <3> QED BY <2>3, <3>1 DEF Last
  <2>5. SameGiven
    BY <1>p, <2>1, <2>2, <2>4 DEF SameGiven, SlotFull, InHand, ExtractsSeeds, slot, client, Threads
  <2> QED BY <2>3, <2>5, SameGivenIsGiven DEF SeedFrames
<1>10. ASSUME NEW t \in Threads, InitializePush(t) PROVE [Filter!Next]_<<Given, SeedFrames>>
  <2>1. /\ pc[t] = "init_push" /\ seeds_' = Append(seeds_, NewSeed(frame[t]))
        /\ pc' = pc /\ UNCHANGED <<slot, frame, client>>
    BY <1>10, <1>p DEF InitializePush, Step
  <2>2. frame[t] \in Frames
    BY <2>1 DEF TInv, FramesPresent, WorkPCs
  <2>3. /\ NewSeed(frame[t]) \in Seed /\ NewSeed(frame[t]).age = 0
        /\ NewSeed(frame[t]).frame = frame[t]
    BY <2>2, BoundsAssumption DEF NewSeed, Seed, TooOld
  <2>4. /\ seeds_' \in Seq(Seed) /\ Len(seeds_') = Len(seeds_) + 1
        /\ DOMAIN seeds_' = 1 .. Len(seeds_) + 1
        /\ seeds_'[Len(seeds_) + 1] = NewSeed(frame[t])
        /\ \A i \in 1 .. Len(seeds_) : seeds_'[i] = seeds_[i]
    BY <1>p, <2>1, <2>3, AppendProperties, LenProperties
  <2>5. SeedFrames' = SeedFrames \cup {frame[t]}
    <3>1. \A i \in DOMAIN seeds_' : i \in DOMAIN seeds_ \/ i = Len(seeds_) + 1
      BY <1>p, <2>4
    <3>2. \A i \in DOMAIN seeds_ : i \in DOMAIN seeds_'
      BY <1>p, <2>4
    <3> QED BY <1>p, <2>3, <2>4, <3>1, <3>2 DEF SeedFrames
  <2>6. ~InHand(t)'
    <3>1. seeds_' # <<>> /\ Last(seeds_') = NewSeed(frame[t])
      BY <1>p, <2>4, EmptySeq DEF Last
    <3> QED BY <2>1, <2>3, <3>1 DEF InHand
  <2>7. \A u \in Threads \ {t} : InHand(u)' <=> InHand(u)
    <3>1. \A u \in Threads \ {t} : pc[u] # "init_push"
      BY <1>h, <2>1 DEF HoldsSeeds
    <3> QED BY <2>1, <3>1 DEF InHand, ExtractsSeeds, client
  <2>8. SlotFull' <=> SlotFull
    BY <2>1 DEF SlotFull, slot
  <2>9. CASE InHand(t)
    <3>1. frame[t] \in Given /\ Given' \in {Given, Given \ {frame[t]}}
      BY <2>1, <2>2, <2>6, <2>7, <2>8, <2>9 DEF Given, slot
    <3> QED BY <2>5, <3>1 DEF Filter!Next, Filter!MakeSeeds
  <2>10. CASE ~InHand(t)
    <3>1. Given' = Given
      BY <2>1, <2>6, <2>7, <2>8, <2>10 DEF Given, slot
    <3>2. seeds_ # <<>> /\ Last(seeds_).age = 0
      BY <2>1, <2>10 DEF InHand
    <3>3. Len(seeds_) \in DOMAIN seeds_ /\ Last(seeds_) = seeds_[Len(seeds_)]
      BY <1>p, <3>2, EmptySeq DEF Last
    <3>4. frame[t] \in SeedFrames
      BY <2>1, <3>2, <3>3 DEF BInv, BatchOpen, SeedFrames
    <3> QED BY <2>5, <3>1, <3>4
  <2> QED BY <2>9, <2>10
<1>11. ASSUME NEW t \in Threads, InitializeReturn(t) PROVE [Filter!Next]_<<Given, SeedFrames>>
  <2>1. /\ pc[t] = "init_push" /\ pc'[t] \in {"idle", "loop"}
        /\ \A u \in Threads \ {t} : pc'[u] = pc[u] /\ frame'[u] = frame[u]
        /\ UNCHANGED <<slot, seeds_, client>>
    BY <1>11, <1>p DEF InitializeReturn, Return, Step
  <2>2. frame[t] \in Frames
    BY <2>1 DEF TInv, FramesPresent, WorkPCs
  <2>3. /\ ~InHand(t)' /\ (SlotFull' <=> SlotFull)
        /\ \A u \in Threads \ {t} : InHand(u)' <=> InHand(u)
    BY <2>1 DEF InHand, ExtractsSeeds, SlotFull, slot, client, Threads
  <2>4. Given' = Given \/ (frame[t] \in Given /\ Given' = Given \ {frame[t]})
    BY <2>1, <2>2, <2>3 DEF Given, slot
  <2> QED BY <2>1, <2>4 DEF SeedFrames, Filter!Next, Filter!MakeSeeds
<1> QED
  BY <1>1, <1>2, <1>3, <1>4, <1>6, <1>7, <1>8, <1>9, <1>10, <1>11, SeedsKept

(* For any client, and whatever the two threads do in whatever order, the   *)
(* depth filter makes seeds for the keyframes it was given and for no other *)
(* frames, as FrameHandlerMono takes it to do.                             *)
THEOREM SeedFilterImplemented == Spec => ImplementsSeedFilter
<1>1. Init => Filter!Init
  BY DEF Init, Filter!Init, Given, SlotFull, InHand, SeedFrames, Threads
<1>2. TInv /\ WInv /\ BInv /\ KInv /\ PInv /\ [Next]_vars => [Filter!Next]_<<Given, SeedFrames>>
  BY StepRefines
<1> QED
  BY <1>1, <1>2, TypeCorrect, WalksCorrect, BatchInvariant, KeyframeInvariant, PlainInvariant, PTL
  DEF Spec, ImplementsSeedFilter, Filter!Spec
-----------------------------------------------------------------------------
(* Locks and wakeups: why nobody waits in vain, as far as steps can tell    *)

QueuePCs == {"test", "sleep", "pick", "kf_clear", "kf_take"}

(* The threads that a thread waits for: the holder of the mutex it wants,   *)
(* or the mapper that it wants to end.                                     *)
WaitsFor(t) ==
  {u \in Threads :
     \/ pc[t] \in {"upd_lock", "init_lock", "rk_lock", "rs_seeds"} /\ seeds_mut_ = u
     \/ pc[t] \in {"loop", "wake", "af_push"} /\ frame_queue_mut_ = u
     \/ pc[t] = "st_join" /\ u = "mapper" /\ pc[u] # "done"}

(* Whom a thread waits for waits for nobody, nor for the condition.         *)
NoCircularWait ==
  \A t \in Threads : \A u \in WaitsFor(t) : WaitsFor(u) = {} /\ pc[u] # "wait"

(* A mapper that waits while a frame is queued is about to be woken: a      *)
(* frame cannot be queued between the mapper's test and its wait.           *)
WakeupKept ==
  pc["mapper"] = "wait" /\ frame_queue_ # <<>> => pc["tracker"] = "af_halt"

(* frame_queue_mut_ is the mapper's from its test of the queue to where it  *)
(* waits or has taken its frame, and an interruption does not let it wait.  *)
LInv ==
  /\ frame_queue_mut_ = "mapper" <=> pc["mapper"] \in QueuePCs
  /\ pc["mapper"] = "sleep" => frame_queue_ = <<>>
  /\ interrupted => pc["mapper"] # "wait"
  /\ pc["tracker"] = "st_join" => interrupted
  /\ WakeupKept

LEMMA LockInvariant == Spec => []LInv
<1>1. Init => LInv
  BY DEF Init, LInv, WakeupKept, QueuePCs, Threads, Free
<1>2. TInv /\ LInv /\ [Next]_vars => LInv'
  <2>s. SUFFICES ASSUME TInv, LInv, [Next]_vars
                 PROVE  LInv'
    OBVIOUS
  <2> USE DEF LInv, WakeupKept, QueuePCs, Threads, Step, Return, StepAndNotify, Free, queue, slot,
              list, thread, client
  <2>p. /\ pc \in [Threads -> MapperPCs \cup TrackerPCs \cup WorkPCs]
        /\ pc["mapper"] \notin TrackerPCs /\ pc["tracker"] \notin MapperPCs
        /\ frame_queue_mut_ \in {Free, "mapper"}
        /\ ~thread_ => pc["mapper"] \in {"none", "done"}
    BY <2>s DEF TInv, TypeOK, FramesPresent
  <2>1. CASE LoopTest \/ WaitTest
    BY <2>s, <2>p, <2>1 DEF LoopTest, WaitTest
  <2>2. CASE WaitSleep \/ WaitWake \/ SpuriousWakeup
    BY <2>s, <2>p, <2>2 DEF WaitSleep, WaitWake, AfterWake, SpuriousWakeup
  <2>3. CASE PickKeyframe \/ ClearFrameQueue \/ TakeKeyframe \/ TakeFrame
    BY <2>s, <2>p, <2>3 DEF PickKeyframe, ClearFrameQueue, TakeKeyframe, TakeFrame
  <2>4. ASSUME NEW t \in Threads, SeedWork(t)
        PROVE  LInv'
    BY <2>s, <2>p, <2>4
    DEF SeedWork, UpdateSeeds, UpdateSeed, UpdateReturn, InitializeSeeds, InitializeLock,
        InitializePush, InitializeReturn
  <2>5. CASE AddFramePush
    BY <2>s, <2>p, <2>5 DEF AddFramePush
  <2>6. CASE AddFrameNotify
    BY <2>s, <2>p, <2>6 DEF AddFrameNotify
  <2>7. CASE AddKeyframeStore \/ AddKeyframeNotify \/ RemoveLock \/ RemoveSeed \/ RemoveReturn
    BY <2>s, <2>p, <2>7
    DEF AddKeyframeStore, AddKeyframeNotify, RemoveLock, RemoveSeed, RemoveReturn
  <2>8. CASE ResetSeeds \/ ResetTest \/ Reset
    BY <2>s, <2>p, <2>8 DEF ResetSeeds, ResetTest, Reset
  <2>9. CASE ResetPop
    BY <2>s, <2>p, <2>9 DEF ResetPop
  <2>10. CASE StartThread \/ StopThread \/ StopJoin
    BY <2>s, <2>p, <2>10 DEF StartThread, StopThread, StopJoin, MapperPCs
  <2>11. ASSUME NEW f \in Frames, AddFrame(f) \/ AddKeyframe(f) \/ RemoveKeyframe(f)
         PROVE  LInv'
    BY <2>s, <2>p, <2>11 DEF AddFrame, AddKeyframe, KeyframeDepth, RemoveKeyframe
  <2>12. CASE UNCHANGED vars
    BY <2>s, <2>12 DEF vars
  <2> QED
    BY <2>s, <2>1, <2>2, <2>3, <2>4, <2>5, <2>6, <2>7, <2>8, <2>9, <2>10, <2>11, <2>12
    DEF Next, MapperStep, TrackerStep, TrackerCall, AnyAddFrame, Threads
<1> QED BY <1>1, <1>2, TypeCorrect, PTL DEF Spec

(* No two threads wait for each other, and stopThread joins no mapper that  *)
(* waits to be woken: every wait is for a thread that can go on.            *)
THEOREM NobodyWaitsInCircles == Spec => []NoCircularWait
<1>1. TInv /\ WInv /\ LInv => NoCircularWait
  <2> SUFFICES ASSUME TInv, WInv, LInv, NEW t \in Threads, NEW u \in WaitsFor(t)
               PROVE  WaitsFor(u) = {} /\ pc[u] # "wait"
    BY DEF NoCircularWait
  <2> USE DEF Threads, Free
  <2>1. \A v \in Threads : seeds_mut_ = v <=> pc[v] \in ListPCs
    BY DEF WInv, IteratorsValid, HoldsSeeds, Walking, ListPCs
  <2>2. \A v \in Threads : frame_queue_mut_ = v <=> v = "mapper" /\ pc[v] \in QueuePCs
    BY DEF LInv, TInv, TypeOK
  <2>3. u \in Threads
    BY DEF WaitsFor
  <2>4. CASE pc[u] \in ListPCs \cup QueuePCs
    BY <2>4 DEF WaitsFor, ListPCs, QueuePCs
  <2>5. CASE pc[t] = "st_join" /\ u = "mapper"
    <3>1. t = "tracker"
      BY <2>5 DEF TInv, TypeOK, TrackerPCs
    <3>2. pc["mapper"] # "wait" /\ pc["mapper"] # "st_join"
      BY <2>5, <3>1 DEF LInv, TInv, TypeOK, TrackerPCs
    <3>3. ASSUME NEW v \in WaitsFor(u) PROVE FALSE
      <4>1. v \in Threads /\ (v = "tracker" \/ v = "mapper")
        BY DEF WaitsFor
      <4> QED BY <2>1, <2>2, <2>5, <3>1, <3>2, <4>1 DEF WaitsFor, ListPCs, QueuePCs
    <3> QED BY <2>5, <3>2, <3>3
  <2> QED BY <2>1, <2>2, <2>3, <2>4, <2>5 DEF WaitsFor
<1> QED BY <1>1, TypeCorrect, WalksCorrect, LockInvariant, PTL

(* The wakeup of addFrame is never lost; that of addKeyframe, which writes  *)
(* its slot without the mutex, may be.                                      *)
THEOREM FrameWakeupKept == Spec => []WakeupKept
<1>1. LInv => WakeupKept
  BY DEF LInv
<1> QED BY <1>1, LockInvariant, PTL

(* What a thread that holds seeds_mut_ has still to do before it gives it   *)
(* up.                                                                     *)
WorkLeft(t) == IF pc[t] = "init_push" THEN todo[t] + 1 ELSE Len(seeds_) + 2 - it[t]

(* While a thread holds seeds_mut_, each of its steps leaves it less to do, *)
(* and no step of the other more.                                          *)
HoldsEnd ==
  \A t \in Threads : HoldsSeeds(t) /\ HoldsSeeds(t)' =>
    /\ WorkLeft(t)' <= WorkLeft(t)
    /\ SeedWork(t) \/ (t = "tracker" /\ RemoveSeed) => WorkLeft(t)' < WorkLeft(t)

LEMMA WorkLeftType == TInv => \A t \in Threads : WorkLeft(t) \in Int
<1> SUFFICES ASSUME TInv, NEW t \in Threads PROVE WorkLeft(t) \in Int
  OBVIOUS
<1>1. Len(seeds_) \in Nat /\ it[t] \in Nat /\ todo[t] \in Nat
  BY LenProperties DEF TInv, TypeOK
<1> QED BY <1>1 DEF WorkLeft

LEMMA WorkLeftTypeNext == (TInv => \A t \in Threads : WorkLeft(t) \in Int)'
BY WorkLeftType, PTL

(* A step of the list shrinks what is in front of the iterator by one.      *)
LEMMA WalkShortens ==
  ASSUME TInv, NEW t \in Threads, it[t] <= Len(seeds_), EraseSeed(t) \/ NextSeed(t)
  PROVE  Len(seeds_') + 2 - it'[t] = Len(seeds_) + 2 - it[t] - 1
<1>1. /\ seeds_ \in Seq(Seed) /\ Len(seeds_) \in Nat /\ it[t] \in 1 .. Len(seeds_)
      /\ it \in [Threads -> Nat \ {0}]
  BY LenProperties DEF TInv, TypeOK
<1>2. CASE EraseSeed(t)
  <2>1. Len(RemoveAt(seeds_, it[t])) = Len(seeds_) - 1
    BY <1>1, RemoveAtFacts
  <2> QED BY <1>1, <1>2, <2>1 DEF EraseSeed
<1>3. CASE NextSeed(t)
  BY <1>1, <1>3 DEF NextSeed
<1> QED BY <1>2, <1>3

(* So whoever holds seeds_mut_ gives it up after finitely many steps of its *)
(* own, however many seeds there are, whether or not a halt is requested.   *)
THEOREM HoldsAreFinite == Spec => [][HoldsEnd]_vars
<1>1. ASSUME TInv, WInv, TInv', WInv', [Next]_vars PROVE HoldsEnd
  <2> SUFFICES ASSUME NEW t \in Threads, HoldsSeeds(t), HoldsSeeds(t)'
               PROVE  /\ WorkLeft(t)' <= WorkLeft(t)
                      /\ SeedWork(t) \/ (t = "tracker" /\ RemoveSeed) =>
                           WorkLeft(t)' < WorkLeft(t)
    BY DEF HoldsEnd
  <2>1. WorkLeft(t) \in Int /\ WorkLeft(t)' \in Int
    BY <1>1, WorkLeftType, WorkLeftTypeNext
  <2>2. /\ pc[t] \in ListPCs /\ pc'[t] \in ListPCs /\ seeds_mut_ = t /\ seeds_mut_' = t
        /\ \A u \in Threads : u # t => pc[u] \notin ListPCs
    BY <1>1 DEF WInv, IteratorsValid, HoldsSeeds, Walking, ListPCs, Threads
  <2>3. /\ pc \in [Threads -> MapperPCs \cup TrackerPCs \cup WorkPCs]
        /\ todo \in [Threads -> Nat]
    BY <1>1 DEF TInv, TypeOK
  <2> USE DEF Step, Return, LockSeeds, ListPCs, Threads, Free
  <2>4. CASE UpdateSeed(t) \/ (t = "tracker" /\ RemoveSeed)
    <3>1. it[t] <= Len(seeds_) /\ (EraseSeed(t) \/ NextSeed(t))
          /\ pc[t] # "init_push" /\ pc' = pc
      BY <2>3, <2>4 DEF UpdateSeed, RemoveSeed
    <3>2. Len(seeds_') + 2 - it'[t] = Len(seeds_) + 2 - it[t] - 1
      BY <1>1, <3>1, WalkShortens
    <3>3. /\ Len(seeds_) \in Nat /\ Len(seeds_') \in Nat
          /\ it[t] \in Nat /\ it'[t] \in Nat
      BY <1>1, LenProperties DEF TInv, TypeOK
    <3> QED BY <3>1, <3>2, <3>3 DEF WorkLeft
  <2>5. CASE InitializePush(t)
    <3>1. /\ pc[t] = "init_push" /\ pc'[t] = "init_push"
          /\ todo'[t] = todo[t] - 1 /\ todo[t] \in Nat
      BY <2>3, <2>5 DEF InitializePush
    <3> QED BY <3>1 DEF WorkLeft
  <2>6. CASE UpdateSeeds(t) \/ UpdateReturn(t) \/ InitializeSeeds(t) \/ InitializeLock(t)
             \/ InitializeReturn(t)
    BY <2>2, <2>3, <2>6
    DEF UpdateSeeds, UpdateReturn, InitializeSeeds, InitializeLock, InitializeReturn
  <2>7. CASE ~SeedWork(t) /\ ~(t = "tracker" /\ RemoveSeed)
    <3>1. CASE Quiet
      <4>1. /\ seeds_' = seeds_ /\ it' = it
            /\ pc'[t] = pc[t] /\ todo'[t] = todo[t]
        BY <2>2, <3>1 DEF Quiet
      <4>2. WorkLeft(t)' = WorkLeft(t)
        BY <4>1 DEF WorkLeft
      <4> QED BY <2>1, <2>7, <4>2
    <3>2. CASE OnList
      BY <2>2, <2>3, <2>7, <3>2
      DEF OnList, SeedWork, UpdateSeeds, UpdateSeed, UpdateReturn, InitializeLock, InitializePush,
          InitializeReturn, RemoveLock, RemoveSeed, RemoveReturn, ResetSeeds
    <3> QED BY <1>1, <3>1, <3>2, QuietOrOnList
  <2> QED BY <2>1, <2>4, <2>5, <2>6, <2>7 DEF SeedWork
<1> QED BY <1>1, TypeCorrect, WalksCorrect, PTL DEF Spec

-----------------------------------------------------------------------------
(* The depths of new seeds                                                  *)

(* A thread has a keyframe in hand, up to the last of its seeds.            *)
MakesSeeds(t) ==
  \/ pc[t] \in {"detect", "init_lock", "init_push"}
  \/ pc[t] \in {"upd_lock", "scan"} /\ ExtractsSeeds(t)

(* The depths are those of the keyframe on the way to the slot, if there is *)
(* one, else of the one in the slot, else of the one that seeds are made of.*)
DInv ==
  /\ ~thread_ => pc["mapper"] = "none" /\ ~new_keyframe_set_ /\ pc["tracker"] # "ak_store"
  /\ thread_ => pc["tracker"] \notin WorkPCs
  /\ pc["tracker"] # "st_join"
  /\ pc["tracker"] = "ak_store" \/ MakesSeeds("tracker") => new_keyframe_depth_ = frame["tracker"]
  /\ SlotFull => pc["tracker"] = "ak_store" \/ new_keyframe_depth_ = new_keyframe_
  /\ MakesSeeds("mapper") =>
       pc["tracker"] = "ak_store" \/ SlotFull \/ new_keyframe_depth_ = frame["mapper"]

LEMMA DepthInvariant ==
  ASSUME "stopThread" \notin Calls
  PROVE  Spec => []DInv
<1>1. Init => DInv
  BY DEF Init, DInv, MakesSeeds, SlotFull, Threads, WorkPCs
<1>2. TInv /\ PInv /\ DInv /\ [Next]_vars => DInv'
  <2>s. SUFFICES ASSUME TInv, PInv, DInv, [Next]_vars
                 PROVE  DInv'
    OBVIOUS
  <2>p. /\ pc \in [Threads -> MapperPCs \cup TrackerPCs \cup WorkPCs]
        /\ frame \in [Threads -> FrameOrNull] /\ frame_queue_ \in Seq(Frames)
        /\ pc["mapper"] \notin TrackerPCs /\ pc["tracker"] \notin MapperPCs
    BY <2>s DEF TInv, TypeOK
  <2> USE DEF DInv, MakesSeeds, ExtractsSeeds, SlotFull, Threads, Step, slot, thread, client,
              MapperPCs, TrackerPCs, WorkPCs
  <2>1. ASSUME NEW t \in Threads, SeedWork(t) PROVE DInv'
    <3>1. CASE t = "tracker"
      BY <2>1, <2>s, <2>p, <3>1
      DEF SeedWork, UpdateSeeds, UpdateSeed, UpdateReturn, InitializeSeeds, InitializeLock,
          InitializePush, InitializeReturn, Return
    <3>2. CASE t = "mapper"
      BY <2>1, <2>s, <2>p, <3>2
      DEF SeedWork, UpdateSeeds, UpdateSeed, UpdateReturn, InitializeSeeds, InitializeLock,
          InitializePush, InitializeReturn, Return
    <3> QED BY <3>1, <3>2
  <2>2. CASE LoopTest \/ WaitTest \/ WaitSleep \/ SpuriousWakeup \/ WaitWake
    BY <2>2, <2>s, <2>p DEF LoopTest, WaitTest, WaitSleep, SpuriousWakeup, WaitWake, AfterWake
  <2>3. CASE PickKeyframe \/ ClearFrameQueue \/ TakeKeyframe
    BY <2>3, <2>s, <2>p DEF PickKeyframe, ClearFrameQueue, TakeKeyframe
  <2>4. CASE TakeFrame
    <3>1. Head(frame_queue_) \notin is_keyframe
      <4>1. frame_queue_ # <<>> /\ 1 \in DOMAIN frame_queue_ /\ Head(frame_queue_) = frame_queue_[1]
        BY <2>4, <2>p, EmptySeq, LenProperties DEF TakeFrame
      <4> QED BY <2>s, <4>1 DEF PInv
    <3> QED BY <2>4, <2>s, <2>p, <3>1 DEF TakeFrame
  <2>5. CASE AddFramePush \/ AddFrameNotify \/ AddKeyframeStore \/ AddKeyframeNotify
    BY <2>5, <2>s, <2>p
    DEF AddFramePush, AddFrameNotify, AddKeyframeStore, AddKeyframeNotify, StepAndNotify
  <2>6. CASE RemoveLock \/ RemoveSeed \/ RemoveReturn
    BY <2>6, <2>s, <2>p DEF RemoveLock, RemoveSeed, RemoveReturn, Return
  <2>7. CASE Reset \/ ResetSeeds \/ ResetTest \/ ResetPop
    BY <2>7, <2>s, <2>p DEF Reset, ResetSeeds, ResetTest, ResetPop
  <2>8. CASE StartThread \/ StopThread \/ StopJoin
    BY <2>8, <2>s, <2>p DEF StartThread, StopThread, StopJoin
  <2>9. ASSUME NEW f \in Frames, AddFrame(f) PROVE DInv'
    BY <2>9, <2>s, <2>p DEF AddFrame, Unused
  <2>10. ASSUME NEW f \in Frames, AddKeyframe(f) PROVE DInv'
    BY <2>10, <2>s, <2>p DEF AddKeyframe, Unused, KeyframeDepth
  <2>11. ASSUME NEW f \in Frames, RemoveKeyframe(f) PROVE DInv'
    BY <2>11, <2>s, <2>p DEF RemoveKeyframe
  <2>12. CASE UNCHANGED vars
    BY <2>12, <2>s DEF vars
  <2> HIDE DEF DInv
  <2> QED
    BY <2>s, <2>1, <2>2, <2>3, <2>4, <2>5, <2>6, <2>7, <2>8, <2>9, <2>10, <2>11, <2>12
    DEF Next, MapperStep, TrackerStep, TrackerCall, AnyAddFrame, Threads
<1> QED BY <1>1, <1>2, TypeCorrect, PlainInvariant, PTL DEF Spec

(* Seeds get the depths of the keyframe at hand or of one whose own seeds   *)
(* are still to come, as long as no mapper is stopped and started again     *)
(* with a keyframe in the slot (the library stops it in the destructor      *)
(* only).                                                                  *)
THEOREM DepthsCorrect ==
  ASSUME "stopThread" \notin Calls
  PROVE  Spec => []DepthsNotStale
<1>1. TInv /\ KInv /\ DInv => DepthsNotStale
  <2> SUFFICES ASSUME TInv, KInv, DInv, NEW t \in Threads, pc[t] = "init_push"
               PROVE  new_keyframe_depth_ \in {frame[t]} \cup Given
    BY DEF DepthsNotStale
  <2>1. CASE pc["tracker"] = "ak_store"
    <3>1. new_keyframe_depth_ = frame["tracker"] /\ InHand("tracker")
      BY <2>1 DEF DInv, InHand
    <3>2. frame["tracker"] \in Frames
      BY <2>1 DEF KInv, KeyframePCs, TInv, TypeOK, Threads
    <3> QED BY <3>1, <3>2 DEF Given, Threads
  <2>2. CASE SlotFull /\ new_keyframe_depth_ = new_keyframe_
    BY <2>2 DEF SlotFull, KInv, TInv, TypeOK, Given
  <2> QED BY <2>1, <2>2 DEF DInv, MakesSeeds, Threads
<1> QED BY <1>1, TypeCorrect, KeyframeInvariant, DepthInvariant, PTL

-----------------------------------------------------------------------------
(* Without a mapper                                                         *)

(* The seeds after a step of a walk were in the list before it.             *)
LEMMA SeedsOnlyErased ==
  ASSUME TInv, NEW t \in Threads, it[t] <= Len(seeds_), EraseSeed(t) \/ NextSeed(t)
  PROVE  \A i \in DOMAIN seeds_' : \E j \in DOMAIN seeds_ : seeds_'[i] = seeds_[j]
<1>1. /\ seeds_ \in Seq(Seed) /\ Len(seeds_) \in Nat /\ DOMAIN seeds_ = 1 .. Len(seeds_)
      /\ it[t] \in 1 .. Len(seeds_)
  <2>1. seeds_ \in Seq(Seed) /\ it[t] \in Nat \ {0}
    BY DEF TInv, TypeOK
  <2> QED BY <2>1, LenProperties
<1>2. CASE NextSeed(t)
  BY <1>2 DEF NextSeed
<1>3. CASE EraseSeed(t)
  <2>1. /\ DOMAIN seeds_' = 1 .. Len(seeds_) - 1
        /\ \A j \in 1 .. Len(seeds_) - 1 :
             seeds_'[j] = IF j < it[t] THEN seeds_[j] ELSE seeds_[j + 1]
    BY <1>1, <1>3, RemoveAtFacts, LenProperties DEF EraseSeed
  <2> QED BY <1>1, <2>1
<1> QED BY <1>2, <1>3

SyncPCs ==
  {"idle", "upd_lock", "scan", "detect", "init_lock", "init_push", "rk_lock", "rk_scan",
   "rs_seeds", "rs_test"}

(* Nothing is handed over: the queue and the slot stay empty.               *)
NoMapper ==
  /\ ~thread_ /\ pc["mapper"] = "none" /\ pc["tracker"] \in SyncPCs
  /\ frame_queue_ = <<>> /\ ~new_keyframe_set_ /\ frame["mapper"] = NoFrame

(* The frame seeds are made for is a keyframe of the client.                *)
WorkHeld ==
  pc["tracker"] \in {"detect", "init_lock", "init_push"} => frame["tracker"] \in keyframes

(* Seeds belong to the client's keyframes, but for reset, which is called   *)
(* with an empty map.                                                      *)
SeedsHeld == pc["tracker"] # "rs_seeds" => SeedFrames \subseteq keyframes

SInv == NoMapper /\ WorkHeld /\ SeedsHeld

(* What the tracker alone keeps while it runs updateSeeds and               *)
(* initializeSeeds itself.  RemovedSeedsGone is what lets it drop the       *)
(* keyframe of removeKeyframe.                                             *)
LEMMA SyncInvariant ==
  ASSUME "startThread" \notin Calls
  PROVE  Spec => []SInv
<1>1. Init => SInv
  BY DEF Init, SInv, NoMapper, WorkHeld, SeedsHeld, SeedFrames, Threads, SyncPCs
<1>2. TInv /\ WInv /\ SInv /\ [Next]_vars => SInv'
  <2>s. SUFFICES ASSUME TInv, WInv, SInv, [Next]_vars
                 PROVE  SInv'
    OBVIOUS
  <2>p. /\ pc \in [Threads -> MapperPCs \cup TrackerPCs \cup WorkPCs]
        /\ frame \in [Threads -> FrameOrNull]
        /\ seeds_ \in Seq(Seed) /\ Len(seeds_) \in Nat /\ DOMAIN seeds_ = 1 .. Len(seeds_)
    <3>1. seeds_ \in Seq(Seed)
      BY <2>s DEF TInv, TypeOK
    <3> QED BY <2>s, <3>1, LenProperties DEF TInv, TypeOK
  <2>n. /\ ~thread_ /\ pc["mapper"] = "none" /\ pc["tracker"] \in SyncPCs
        /\ frame_queue_ = <<>> /\ ~new_keyframe_set_ /\ frame["mapper"] = NoFrame
    BY <2>s DEF SInv, NoMapper
  <2>d. WorkHeld /\ SeedsHeld
    BY <2>s DEF SInv
  <2> USE DEF SInv, NoMapper, WorkHeld, SeedsHeld, SeedFrames, Threads, Step,
              queue, slot, list, thread, client, SyncPCs
  <2>1. ASSUME NEW t \in Threads, SeedWork(t) PROVE t = "tracker"
    BY <2>1, <2>n
    DEF SeedWork, UpdateSeeds, UpdateSeed, UpdateReturn, InitializeSeeds, InitializeLock,
        InitializePush, InitializeReturn, Return
  <2>2. CASE UpdateSeeds("tracker")
    BY <2>p, <2>n, <2>d, <2>2 DEF UpdateSeeds
  <2>3. ASSUME pc["tracker"] \in {"scan", "rk_scan"}, pc' = pc, frame' = frame,
               UNCHANGED <<queue, slot, thread, client>>, it["tracker"] <= Len(seeds_),
               EraseSeed("tracker") \/ NextSeed("tracker")
        PROVE  SInv'
    <3>1. \A i \in DOMAIN seeds_' : \E j \in DOMAIN seeds_ : seeds_'[i] = seeds_[j]
      BY <2>s, <2>3, SeedsOnlyErased
    <3>2. SeedsHeld'
      BY <2>d, <2>3, <3>1
    <3>3. NoMapper' /\ WorkHeld'
      BY <2>n, <2>3
    <3> QED BY <3>2, <3>3
  <2>4. CASE UpdateSeed("tracker")
    <3>1. pc' = pc
      BY <2>p, <2>4 DEF UpdateSeed
    <3> QED BY <2>3, <2>4, <3>1 DEF UpdateSeed
  <2>5. CASE UpdateReturn("tracker")
    BY <2>p, <2>n, <2>d, <2>5 DEF UpdateReturn, ExtractsSeeds, Return
  <2>6. CASE InitializeSeeds("tracker")
    BY <2>p, <2>n, <2>d, <2>6 DEF InitializeSeeds
  <2>7. CASE InitializeLock("tracker")
    <3>1. /\ DOMAIN seeds_' = DOMAIN seeds_
          /\ \A i \in DOMAIN seeds_ : seeds_'[i].frame = seeds_[i].frame
      <4>1. seeds_' = [i \in DOMAIN seeds_ |-> NextBatch(seeds_)[i]]
        BY <2>7 DEF InitializeLock, NextBatch
      <4>2. ASSUME NEW i \in DOMAIN seeds_
            PROVE  NextBatch(seeds_)[i].frame = seeds_[i].frame
        <5>1. seeds_[i] \in Seed
          BY <2>p
        <5> QED BY <5>1 DEF NextBatch, Seed
      <4> HIDE DEF NextBatch
      <4> QED BY <4>1, <4>2
    <3>2. SeedsHeld'
      BY <2>p, <2>d, <2>7, <3>1 DEF InitializeLock
    <3>3. NoMapper' /\ WorkHeld'
      BY <2>p, <2>n, <2>d, <2>7 DEF InitializeLock
    <3> QED BY <3>2, <3>3
  <2>8. CASE InitializePush("tracker")
    <3>1. /\ pc["tracker"] = "init_push" /\ pc' = pc
          /\ seeds_' = Append(seeds_, NewSeed(frame["tracker"]))
          /\ UNCHANGED <<queue, slot, thread, frame, client>>
      BY <2>p, <2>8 DEF InitializePush
    <3>2. frame["tracker"] \in keyframes /\ frame["tracker"] \in Frames
      BY <2>s, <2>d, <3>1 DEF TInv, TypeOK
    <3>3. /\ NewSeed(frame["tracker"]) \in Seed
          /\ NewSeed(frame["tracker"]).frame = frame["tracker"]
      <4>1. 0 \in 0 .. TooOld
        BY BoundsAssumption DEF TooOld
      <4> QED BY <3>2, <4>1 DEF NewSeed, Seed
    <3>4. \A i \in DOMAIN seeds_' :
            \/ i \in DOMAIN seeds_ /\ seeds_'[i] = seeds_[i]
            \/ seeds_'[i] = NewSeed(frame["tracker"])
      <4>1. /\ DOMAIN seeds_' = 1 .. Len(seeds_) + 1
            /\ seeds_'[Len(seeds_) + 1] = NewSeed(frame["tracker"])
            /\ \A i \in 1 .. Len(seeds_) : seeds_'[i] = seeds_[i]
        BY <2>p, <3>1, <3>3, AppendProperties, LenProperties
      <4> QED BY <2>p, <4>1
    <3>5. SeedsHeld'
      BY <2>d, <3>1, <3>2, <3>3, <3>4
    <3>6. NoMapper' /\ WorkHeld'
      BY <2>n, <2>d, <3>1
    <3> QED BY <3>5, <3>6
  <2>9. CASE InitializeReturn("tracker")
    BY <2>p, <2>n, <2>d, <2>9 DEF InitializeReturn, Return
  <2>10. CASE MapperStep \/ SpuriousWakeup
    BY <2>n, <2>10, <2>1
    DEF MapperStep, SpuriousWakeup, LoopTest, WaitTest, WaitSleep, WaitWake, PickKeyframe,
        ClearFrameQueue, TakeKeyframe, TakeFrame
  <2>11. CASE AddFramePush \/ AddFrameNotify \/ AddKeyframeStore \/ AddKeyframeNotify \/ StopJoin
    BY <2>n, <2>11
    DEF AddFramePush, AddFrameNotify, AddKeyframeStore, AddKeyframeNotify, StopJoin, StepAndNotify
  <2>12. CASE RemoveLock
    BY <2>p, <2>n, <2>d, <2>12 DEF RemoveLock
  <2>13. CASE RemoveSeed
    <3>1. pc' = pc
      BY <2>p, <2>13 DEF RemoveSeed
    <3> QED BY <2>3, <2>13, <3>1 DEF RemoveSeed
  <2>14. CASE RemoveReturn
    <3>1. \A i \in DOMAIN seeds_ : i < it["tracker"]
      <4>1. it["tracker"] \in Nat
        BY <2>s DEF TInv, TypeOK
      <4> QED BY <2>p, <2>14, <4>1 DEF RemoveReturn
    <3>2. frame["tracker"] \notin SeedFrames
      BY <2>s, <2>14, <3>1 DEF RemoveReturn, Return, WInv, RemovedSeedsGone
    <3>3. SeedsHeld'
      BY <2>d, <2>14, <3>2 DEF RemoveReturn, Return
    <3> QED BY <2>p, <2>n, <2>d, <2>14, <3>3 DEF RemoveReturn, Return
  <2>15. CASE ResetSeeds
    BY <2>p, <2>n, <2>d, <2>15 DEF ResetSeeds
  <2>16. CASE ResetTest \/ ResetPop
    BY <2>p, <2>n, <2>d, <2>16 DEF ResetTest, ResetPop
  <2>17. CASE Reset \/ StartThread \/ StopThread
    BY <2>p, <2>n, <2>d, <2>17 DEF Reset, StartThread, StopThread
  <2>18. ASSUME NEW f \in Frames, AddFrame(f) PROVE SInv'
    BY <2>p, <2>n, <2>d, <2>18 DEF AddFrame
  <2>19. ASSUME NEW f \in Frames, AddKeyframe(f) PROVE SInv'
    BY <2>p, <2>n, <2>d, <2>19 DEF AddKeyframe, KeyframeDepth
  <2>20. ASSUME NEW f \in Frames, RemoveKeyframe(f) PROVE SInv'
    BY <2>p, <2>n, <2>d, <2>20 DEF RemoveKeyframe
  <2>21. CASE UNCHANGED vars
    BY <2>n, <2>d, <2>21 DEF vars
  <2> HIDE DEF SInv, NoMapper, WorkHeld, SeedsHeld, SeedFrames
  <2>22. ASSUME NEW t \in Threads, SeedWork(t) PROVE SInv'
    BY <2>1, <2>2, <2>4, <2>5, <2>6, <2>7, <2>8, <2>9, <2>22 DEF SeedWork
  <2> QED
    BY <2>s, <2>10, <2>11, <2>12, <2>13, <2>14, <2>15, <2>16, <2>17, <2>18, <2>19, <2>20, <2>21, <2>22
    DEF Next, TrackerStep, TrackerCall, AnyAddFrame, Threads
<1> QED BY <1>1, <1>2, TypeCorrect, WalksCorrect, PTL DEF Spec

(* Without a mapper, no seed points to a frame that is gone once a call has *)
(* returned, as removeKeyframe is there to make sure (depth_filter.h).      *)
THEOREM DanglingCorrect ==
  ASSUME "startThread" \notin Calls
  PROVE  Spec => []NoDanglingSeed
<1>1. SInv => NoDanglingSeed
  BY DEF SInv, SeedsHeld, SeedFrames, NoDanglingSeed, Exists
<1> QED BY <1>1, SyncInvariant, PTL
=============================================================================
