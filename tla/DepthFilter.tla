------------------------------ MODULE DepthFilter ------------------------------
(***************************************************************************)
(* The depth filter of SVO (externals/svo/src/depth_filter.{h,cpp}).       *)
(*                                                                         *)
(* Two threads share it.  The tracker (the thread that runs                *)
(* FrameHandlerMono::addImage) calls its public operations one at a time;  *)
(* the mapper, once startThread has been called, runs updateSeedsLoop.     *)
(* Without a mapper the tracker runs updateSeeds and initializeSeeds       *)
(* itself, as test_depth_filter.cpp does.                                  *)
(*                                                                         *)
(* A step is one access to shared memory, or several between which nothing *)
(* the other thread can do makes a difference.  A frame is an identity,    *)
(* used again once nothing refers to it.  A seed is the keyframe of its    *)
(* feature and its age in batches.                                         *)
(***************************************************************************)
EXTENDS Integers, Sequences, FiniteSets, SequencesExt

CONSTANTS
  Frames,       \* the frame objects that can exist at the same time
  NoFrame,      \* a null FramePtr
  MaxNKfs,      \* Options::max_n_kfs
  NewSeeds,     \* how many new features the detector may find in a keyframe
  MaxSeeds,     \* bound: the detector finds no more once seeds_ is this long
  MaxKeyframes, \* bound: how many keyframes the client holds
  Calls         \* the operations the client uses

ASSUME FramesAssumption == NoFrame \notin Frames
ASSUME BoundsAssumption ==
  MaxNKfs \in Nat /\ NewSeeds \subseteq Nat /\ MaxSeeds \in Nat /\ MaxKeyframes \in Nat

Threads == {"tracker", "mapper"}
Free == "free"          \* a mutex nobody holds
FrameOrNull == Frames \cup {NoFrame}

(* Age counts Seed::batch_counter - batch_id; all ages beyond MaxNKfs are   *)
(* alike for the code, so the count stops there.                           *)
TooOld == MaxNKfs + 1
Seed == [frame : Frames, age : 0 .. TooOld]

MapperPCs == {"none", "loop", "test", "sleep", "wait", "wake", "pick", "kf_clear",
              "kf_take", "done"}
TrackerPCs == {"idle", "af_push", "af_halt", "ak_store", "ak_halt", "rk_lock",
               "rk_scan", "rs_seeds", "rs_test", "rs_pop", "st_join"}
WorkPCs == {"upd_lock", "scan", "detect", "init_lock", "init_push"}

VARIABLES
  frame_queue_,          \* frames the mapper has not seen yet, oldest first
  frame_queue_mut_,      \* the thread that holds frame_queue_mut_, or Free
  new_keyframe_,         \* the slot addKeyframe writes
  new_keyframe_set_,
  new_keyframe_depth_,   \* whose depths new_keyframe_{min,mean}_depth_ are
  seeds_,
  seeds_mut_,            \* the thread that holds seeds_mut_, or Free
  seeds_updating_halt_,
  thread_,               \* thread_ != NULL
  interrupted,           \* the mapper's boost interruption request
  pc,                    \* where each thread is
  frame,                 \* the FramePtr each thread works on
  it,                    \* each thread's iterator into seeds_
  todo,                  \* new features a thread has still to make seeds of
  keyframes,             \* the keyframes the client holds (its map)
  is_keyframe            \* the frames setKeyframe was called on

halt == seeds_updating_halt_
queue == <<frame_queue_, frame_queue_mut_>>
slot == <<new_keyframe_, new_keyframe_set_, new_keyframe_depth_>>
list == <<seeds_, seeds_mut_, it, todo>>
thread == <<thread_, interrupted>>
client == <<keyframes, is_keyframe>>
vars == <<queue, slot, list, halt, thread, pc, frame, client>>

Init ==
  /\ frame_queue_ = <<>> /\ frame_queue_mut_ = Free
  /\ new_keyframe_ = NoFrame /\ new_keyframe_set_ = FALSE /\ new_keyframe_depth_ = NoFrame
  /\ seeds_ = <<>> /\ seeds_mut_ = Free /\ halt = FALSE
  /\ thread_ = FALSE /\ interrupted = FALSE
  /\ pc = [t \in Threads |-> IF t = "tracker" THEN "idle" ELSE "none"]
  /\ frame = [t \in Threads |-> NoFrame]
  /\ it = [t \in Threads |-> 1] /\ todo = [t \in Threads |-> 0]
  /\ keyframes = {} /\ is_keyframe = {}

-----------------------------------------------------------------------------
(* Control, locks and the condition variable                               *)

Step(t, from, to) == pc[t] = from /\ pc' = [pc EXCEPT ![t] = to]

(* Mutant: the mapper is not woken.                                         *)
StepAndNotifyNobody(from, to) == Step("tracker", from, to)

(* A step of the tracker with notify_one: it wakes the mapper if that       *)
(* waits, and is forgotten otherwise.                                      *)
StepAndNotify(from, to) ==
  /\ pc["tracker"] = from
  /\ pc' = [pc EXCEPT !["tracker"] = to, !["mapper"] = IF @ = "wait" THEN "wake" ELSE @]

(* The end of a call or of an iteration, where the FramePtr goes out of     *)
(* scope.                                                                  *)
Return(t, from) ==
  /\ Step(t, from, IF t = "tracker" THEN "idle" ELSE "loop")
  /\ frame' = [frame EXCEPT ![t] = NoFrame]

(* Mutant: the lock is not waited for.                                      *)
GrabSeeds(t) == seeds_mut_' = t

LockSeeds(t) == seeds_mut_ = Free /\ seeds_mut_' = t

-----------------------------------------------------------------------------
(* updateSeeds and initializeSeeds, run by either thread                    *)

UpdateSeeds(t) ==
  /\ Step(t, "upd_lock", "scan")
  /\ LockSeeds(t)
  /\ it' = [it EXCEPT ![t] = 1]
  /\ UNCHANGED <<queue, slot, seeds_, todo, halt, thread, frame, client>>

(* Mutant: seeds are made for every frame.                                  *)
ExtractsSeedsAlways(t) == t = "mapper"

(* The mapper makes new seeds after updateSeeds if its frame is a keyframe. *)
ExtractsSeeds(t) == t = "mapper" /\ frame[t] \in is_keyframe

(* The loop ends at the end of the list or when a halt is requested.        *)
UpdateReturn(t) ==
  /\ it[t] > Len(seeds_) \/ halt
  /\ IF ExtractsSeeds(t) THEN Step(t, "scan", "detect") /\ UNCHANGED frame
                         ELSE Return(t, "scan")
  /\ seeds_mut_' = Free
  /\ UNCHANGED <<queue, slot, seeds_, it, todo, halt, thread, client>>

(* Mutant: a batch more is kept.                                            *)
SeedTooOldLate(i) == seeds_[i].age > MaxNKfs + 1

SeedTooOld(i) == seeds_[i].age > MaxNKfs

(* Mutant: the iterator is advanced after an erase too.                     *)
EraseSeedAndSkip(t) ==
  seeds_' = RemoveAt(seeds_, it[t]) /\ it' = [it EXCEPT ![t] = @ + 1]

EraseSeed(t) == seeds_' = RemoveAt(seeds_, it[t]) /\ it' = it

NextSeed(t) == seeds_' = seeds_ /\ it' = [it EXCEPT ![t] = @ + 1]

(* One seed: erased when too old; else left alone when the frame does not   *)
(* see it or no match is found, updated, or erased when its depth has       *)
(* converged or become NaN.                                                *)
UpdateSeed(t) ==
  /\ Step(t, "scan", "scan")
  /\ it[t] <= Len(seeds_) /\ ~halt
  /\ EraseSeed(t) \/ (~SeedTooOld(it[t]) /\ NextSeed(t))
  /\ UNCHANGED <<queue, slot, seeds_mut_, todo, halt, thread, frame, client>>

InitializeSeeds(t) ==
  /\ Step(t, "detect", "init_lock")
  /\ \E n \in NewSeeds : todo' = [todo EXCEPT ![t] = n]
  /\ halt' = TRUE
  /\ UNCHANGED <<queue, slot, seeds_, seeds_mut_, it, thread, frame, client>>

(* Mutant: batch_counter is not counted up.                                 *)
NextBatchSame(s) == s

(* ++Seed::batch_counter makes every seed one batch older.                  *)
NextBatch(s) ==
  [i \in DOMAIN s |-> [s[i] EXCEPT !.age = IF @ = TooOld THEN @ ELSE @ + 1]]

InitializeLock(t) ==
  /\ Step(t, "init_lock", "init_push")
  /\ LockSeeds(t)
  /\ seeds_' = NextBatch(seeds_)
  /\ UNCHANGED <<queue, slot, it, todo, halt, thread, frame, client>>

(* Mutant: the seed is made of the frame in the slot, not of the one taken. *)
NewSeedOfSlot(f) == [frame |-> new_keyframe_, age |-> 0]

NewSeed(f) == [frame |-> f, age |-> 0]

InitializePush(t) ==
  /\ Step(t, "init_push", "init_push")
  /\ todo[t] > 0 /\ Len(seeds_) < MaxSeeds
  /\ seeds_' = Append(seeds_, NewSeed(frame[t]))
  /\ todo' = [todo EXCEPT ![t] = @ - 1]
  /\ UNCHANGED <<queue, slot, seeds_mut_, it, halt, thread, frame, client>>

Resume == seeds_updating_halt_' = FALSE

InitializeReturn(t) ==
  /\ todo[t] = 0 \/ Len(seeds_) >= MaxSeeds
  /\ Return(t, "init_push")
  /\ Resume
  /\ seeds_mut_' = Free
  /\ todo' = [todo EXCEPT ![t] = 0]
  /\ UNCHANGED <<queue, slot, seeds_, it, thread, client>>

SeedWork(t) ==
  \/ UpdateSeeds(t) \/ UpdateSeed(t) \/ UpdateReturn(t)
  \/ InitializeSeeds(t) \/ InitializeLock(t) \/ InitializePush(t) \/ InitializeReturn(t)

-----------------------------------------------------------------------------
(* updateSeedsLoop, the mapper                                              *)

LoopTest ==
  /\ \/ interrupted /\ Step("mapper", "loop", "done") /\ UNCHANGED frame_queue_mut_
     \/ /\ ~interrupted /\ frame_queue_mut_ = Free
        /\ Step("mapper", "loop", "test") /\ frame_queue_mut_' = "mapper"
  /\ UNCHANGED <<frame_queue_, slot, list, halt, thread, frame, client>>

WaitTest ==
  /\ Step("mapper", "test",
          IF frame_queue_ = <<>> /\ ~new_keyframe_set_ THEN "sleep" ELSE "pick")
  /\ UNCHANGED <<queue, slot, list, halt, thread, frame, client>>

(* condition_variable::wait gives the mutex up and waits in one step; on an *)
(* interruption it throws thread_interrupted, which ends the thread.        *)
WaitSleep ==
  /\ Step("mapper", "sleep", IF interrupted THEN "done" ELSE "wait")
  /\ frame_queue_mut_' = Free
  /\ UNCHANGED <<frame_queue_, slot, list, halt, thread, frame, client>>

SpuriousWakeup ==
  /\ Step("mapper", "wait", "wake")
  /\ UNCHANGED <<queue, slot, list, halt, thread, frame, client>>

(* Mutant: the predicate is not tested again after a wakeup.                *)
AfterWakeUntested == IF interrupted THEN "done" ELSE "pick"

AfterWake == IF interrupted THEN "done" ELSE "test"

WaitWake ==
  /\ Step("mapper", "wake", AfterWake)
  /\ frame_queue_mut_ = Free
  /\ frame_queue_mut_' = IF interrupted THEN Free ELSE "mapper"
  /\ UNCHANGED <<frame_queue_, slot, list, halt, thread, frame, client>>

PickKeyframe ==
  /\ Step("mapper", "pick", "kf_clear")
  /\ new_keyframe_set_ /\ new_keyframe_set_' = FALSE
  /\ UNCHANGED <<queue, new_keyframe_, new_keyframe_depth_, list, halt, thread, frame, client>>

ClearFrameQueue ==
  /\ Step("mapper", "kf_clear", "kf_take")
  /\ halt' = FALSE
  /\ frame_queue_' = <<>>
  /\ UNCHANGED <<frame_queue_mut_, slot, list, thread, frame, client>>

TakeKeyframe ==
  /\ Step("mapper", "kf_take", "upd_lock")
  /\ frame' = [frame EXCEPT !["mapper"] = new_keyframe_]
  /\ frame_queue_mut_' = Free
  /\ UNCHANGED <<frame_queue_, slot, list, halt, thread, client>>

(* front() and pop() on an empty queue are undefined: FrontDefined says it  *)
(* does not come to that, and no behaviour is given beyond it.              *)
TakeFrame ==
  /\ Step("mapper", "pick", "upd_lock")
  /\ ~new_keyframe_set_ /\ frame_queue_ # <<>>
  /\ frame' = [frame EXCEPT !["mapper"] = Head(frame_queue_)]
  /\ frame_queue_' = Tail(frame_queue_)
  /\ frame_queue_mut_' = Free
  /\ UNCHANGED <<slot, list, halt, thread, client>>

MapperStep ==
  \/ LoopTest \/ WaitTest \/ WaitSleep \/ WaitWake
  \/ PickKeyframe \/ ClearFrameQueue \/ TakeKeyframe \/ TakeFrame
  \/ SeedWork("mapper")

-----------------------------------------------------------------------------
(* The tracker's calls.  A new frame is one nothing refers to.              *)

SeedFrames == {seeds_[i].frame : i \in DOMAIN seeds_}

Unused(f) ==
  /\ f \notin Range(frame_queue_) \cup SeedFrames \cup keyframes
  /\ f \notin {new_keyframe_, new_keyframe_depth_, frame["tracker"], frame["mapper"]}

AddFrame(f) ==
  /\ "addFrame" \in Calls /\ Unused(f)
  /\ Step("tracker", "idle", IF thread_ THEN "af_push" ELSE "upd_lock")
  /\ frame' = [frame EXCEPT !["tracker"] = f]
  /\ is_keyframe' = is_keyframe \ {f}
  /\ UNCHANGED <<queue, slot, list, halt, thread, keyframes>>

(* Mutant: the queue is let grow to four.                                   *)
DropOldestLate(q) == IF Len(q) > 3 THEN Tail(q) ELSE q

DropOldest(q) == IF Len(q) > 2 THEN Tail(q) ELSE q

AddFramePush ==
  /\ Step("tracker", "af_push", "af_halt")
  /\ frame_queue_mut_ = Free
  /\ frame_queue_' = Append(DropOldest(frame_queue_), frame["tracker"])
  /\ frame' = [frame EXCEPT !["tracker"] = NoFrame]
  /\ UNCHANGED <<frame_queue_mut_, slot, list, halt, thread, client>>

AddFrameNotify ==
  /\ StepAndNotify("af_halt", "idle")
  /\ halt' = FALSE
  /\ UNCHANGED <<queue, slot, list, thread, frame, client>>

(* Mutant: the depths are left alone while a keyframe is pending.           *)
KeyframeDepthIfFree(f) ==
  new_keyframe_depth_' = IF new_keyframe_set_ THEN new_keyframe_depth_ ELSE f

KeyframeDepth(f) == new_keyframe_depth_' = f

(* addKeyframe holds no lock while it writes the depths and the slot.       *)
AddKeyframe(f) ==
  /\ "addKeyframe" \in Calls /\ Unused(f) /\ Cardinality(keyframes) < MaxKeyframes
  /\ Step("tracker", "idle", IF thread_ THEN "ak_store" ELSE "detect")
  /\ frame' = [frame EXCEPT !["tracker"] = f]
  /\ is_keyframe' = is_keyframe \cup {f} /\ keyframes' = keyframes \cup {f}
  /\ KeyframeDepth(f)
  /\ UNCHANGED <<queue, new_keyframe_, new_keyframe_set_, list, halt, thread>>

AddKeyframeStore ==
  /\ Step("tracker", "ak_store", "ak_halt")
  /\ new_keyframe_' = frame["tracker"] /\ new_keyframe_set_' = TRUE
  /\ frame' = [frame EXCEPT !["tracker"] = NoFrame]
  /\ UNCHANGED <<queue, new_keyframe_depth_, list, halt, thread, client>>

AddKeyframeNotify ==
  /\ StepAndNotify("ak_halt", "idle")
  /\ halt' = TRUE
  /\ UNCHANGED <<queue, slot, list, thread, frame, client>>

(* The client removes the furthest keyframe of its map, to which it has not *)
(* added the newest yet (the one whose depths were passed last), and drops  *)
(* the frame itself when the call returns.                                 *)
RemoveKeyframe(f) ==
  /\ "removeKeyframe" \in Calls
  /\ f \in keyframes \ {new_keyframe_depth_}
  /\ Step("tracker", "idle", "rk_lock")
  /\ frame' = [frame EXCEPT !["tracker"] = f]
  /\ halt' = TRUE
  /\ UNCHANGED <<queue, slot, list, thread, client>>

RemoveLock ==
  /\ Step("tracker", "rk_lock", "rk_scan")
  /\ LockSeeds("tracker")
  /\ it' = [it EXCEPT !["tracker"] = 1]
  /\ UNCHANGED <<queue, slot, seeds_, todo, halt, thread, frame, client>>

RemoveSeed ==
  /\ Step("tracker", "rk_scan", "rk_scan")
  /\ it["tracker"] <= Len(seeds_)
  /\ IF seeds_[it["tracker"]].frame = frame["tracker"]
     THEN EraseSeed("tracker") ELSE NextSeed("tracker")
  /\ UNCHANGED <<queue, slot, seeds_mut_, todo, halt, thread, frame, client>>

RemoveReturn ==
  /\ it["tracker"] > Len(seeds_)
  /\ Return("tracker", "rk_scan")
  /\ halt' = FALSE
  /\ seeds_mut_' = Free
  /\ keyframes' = keyframes \ {frame["tracker"]}
  /\ UNCHANGED <<queue, slot, seeds_, it, todo, thread, is_keyframe>>

(* The client has emptied its map.  The queue is emptied without its mutex, *)
(* since `lock_t lock();' declares a function.                              *)
Reset ==
  /\ "reset" \in Calls
  /\ Step("tracker", "idle", "rs_seeds")
  /\ keyframes' = {}
  /\ halt' = TRUE
  /\ UNCHANGED <<queue, slot, list, thread, frame, is_keyframe>>

ResetSeeds ==
  /\ Step("tracker", "rs_seeds", "rs_test")
  /\ seeds_mut_ = Free
  /\ seeds_' = <<>>
  /\ UNCHANGED <<queue, slot, seeds_mut_, it, todo, halt, thread, frame, client>>

ResetTest ==
  /\ \/ frame_queue_ # <<>> /\ Step("tracker", "rs_test", "rs_pop") /\ UNCHANGED halt
     \/ frame_queue_ = <<>> /\ Step("tracker", "rs_test", "idle") /\ halt' = FALSE
  /\ UNCHANGED <<queue, slot, list, thread, frame, client>>

ResetPop ==
  /\ Step("tracker", "rs_pop", "rs_test")
  /\ frame_queue_ # <<>> /\ frame_queue_' = Tail(frame_queue_)
  /\ UNCHANGED <<frame_queue_mut_, slot, list, halt, thread, frame, client>>

(* The client starts a mapper only when none is running.                    *)
StartThread ==
  /\ "startThread" \in Calls /\ ~thread_
  /\ pc["tracker"] = "idle" /\ pc' = [pc EXCEPT !["mapper"] = "loop"]
  /\ thread_' = TRUE /\ interrupted' = FALSE
  /\ UNCHANGED <<queue, slot, list, halt, frame, client>>

(* interrupt() wakes a mapper that waits.                                   *)
StopThread ==
  /\ "stopThread" \in Calls /\ thread_
  /\ StepAndNotify("idle", "st_join")
  /\ halt' = TRUE /\ interrupted' = TRUE
  /\ UNCHANGED <<queue, slot, list, thread_, frame, client>>

StopJoin ==
  /\ pc["mapper"] = "done"
  /\ Step("tracker", "st_join", "idle")
  /\ thread_' = FALSE
  /\ UNCHANGED <<queue, slot, list, halt, interrupted, frame, client>>

-----------------------------------------------------------------------------
TrackerStep ==
  \/ AddFramePush \/ AddFrameNotify \/ AddKeyframeStore \/ AddKeyframeNotify
  \/ RemoveLock \/ RemoveSeed \/ RemoveReturn
  \/ ResetSeeds \/ ResetTest \/ ResetPop \/ StopJoin
  \/ SeedWork("tracker")

AnyAddFrame == \E f \in Frames : AddFrame(f)

TrackerCall ==
  \/ AnyAddFrame
  \/ \E f \in Frames : AddKeyframe(f) \/ RemoveKeyframe(f)
  \/ Reset \/ StartThread \/ StopThread

Next == MapperStep \/ SpuriousWakeup \/ TrackerStep \/ TrackerCall

Spec == Init /\ [][Next]_vars

(* Both threads are scheduled, a call that was made goes on, and addFrame   *)
(* gets frame_queue_mut_ even if the mapper wakes up again and again for no *)
(* reason; nothing makes the tracker call again.                           *)
FairSpec ==
  Spec /\ WF_vars(MapperStep) /\ WF_vars(TrackerStep) /\ SF_vars(AddFramePush)

-----------------------------------------------------------------------------
(* Properties                                                               *)

(* The type invariant: every variable ranges over its declared type, and    *)
(* addFrame keeps the queue at three frames.                               *)
TypeOK ==
  /\ frame_queue_ \in Seq(Frames) /\ Len(frame_queue_) <= 3
  /\ frame_queue_mut_ \in {Free, "mapper"}
  /\ new_keyframe_ \in FrameOrNull /\ new_keyframe_set_ \in BOOLEAN
  /\ new_keyframe_depth_ \in FrameOrNull
  /\ seeds_ \in Seq(Seed) /\ seeds_mut_ \in {Free} \cup Threads /\ halt \in BOOLEAN
  /\ thread_ \in BOOLEAN /\ interrupted \in BOOLEAN
  /\ pc \in [Threads -> MapperPCs \cup TrackerPCs \cup WorkPCs]
  /\ pc["mapper"] \notin TrackerPCs /\ pc["tracker"] \notin MapperPCs
  /\ frame \in [Threads -> FrameOrNull]
  /\ it \in [Threads -> Nat \ {0}] /\ todo \in [Threads -> Nat]
  /\ keyframes \subseteq Frames /\ is_keyframe \subseteq Frames

Walking(t) == pc[t] \in {"scan", "rk_scan"}
HoldsSeeds(t) == Walking(t) \/ pc[t] = "init_push"

(* The iterators that updateSeeds and removeKeyframe keep into seeds_ stay  *)
(* valid: a thread walks the list only while it holds seeds_mut_, and the   *)
(* other never takes away what is in front of it.                          *)
IteratorsValid ==
  \A t \in Threads :
    /\ HoldsSeeds(t) <=> seeds_mut_ = t
    /\ Walking(t) => it[t] <= Len(seeds_) + 1

(* Behind the iterator of updateSeeds no seed is left of more than          *)
(* max_n_kfs batches ago, so a scan that reaches the end leaves none.       *)
ScannedSeedsYoung ==
  \A t \in Threads : pc[t] = "scan" =>
    \A i \in DOMAIN seeds_ : i < it[t] => seeds_[i].age <= MaxNKfs

(* Behind the iterator of removeKeyframe no seed of the keyframe is left.   *)
RemovedSeedsGone ==
  pc["tracker"] = "rk_scan" =>
    \A i \in DOMAIN seeds_ : i < it["tracker"] => seeds_[i].frame # frame["tracker"]

InBatches(s) ==
  \A i, j \in DOMAIN s : i < j =>
    /\ s[i].age >= s[j].age
    /\ s[i].age = s[j].age /\ s[i].age # TooOld => s[i].frame = s[j].frame

(* The list is in order of batches, whatever was erased from its middle,    *)
(* and the seeds of one batch belong to one keyframe.                       *)
SeedsInBatches == InBatches(seeds_)

(* The slot holds a keyframe, which the mapper may be about to take.        *)
SlotFull == new_keyframe_set_ \/ pc["mapper"] \in {"kf_clear", "kf_take"}

(* A thread has a keyframe in hand that it has made no seed of yet: on the  *)
(* way to the slot, or to initializeSeeds and there to the first seed.      *)
InHand(t) ==
  \/ pc[t] \in {"ak_store", "detect", "init_lock"}
  \/ pc[t] \in {"upd_lock", "scan"} /\ ExtractsSeeds(t)
  \/ pc[t] = "init_push" /\ (seeds_ = <<>> \/ Last(seeds_).age # 0)

(* The keyframes the filter may still make seeds for.                       *)
Given ==
  {f \in Frames : (SlotFull /\ f = new_keyframe_) \/ \E t \in Threads : InHand(t) /\ f = frame[t]}

(* Seeds get the range of new_keyframe_{min,mean}_depth_, which addKeyframe *)
(* may write meanwhile: they are the depths of the keyframe at hand or of   *)
(* one whose own seeds are still to come, never those of an older one.      *)
DepthsNotStale ==
  \A t \in Threads :
    pc[t] = "init_push" => new_keyframe_depth_ \in {frame[t]} \cup Given

(* Seeds are made for keyframes only, and no other frame is about to get    *)
(* any.                                                                    *)
SeedsOfKeyframes == SeedFrames \cup Given \subseteq is_keyframe

Filter == INSTANCE SeedFilter WITH given <- Given, seeded <- SeedFrames

(* The filter, with its threads, its slot and its list, makes seeds for the *)
(* keyframes it was given only, and for each at its time: it implements     *)
(* SeedFilter, which is all that the tracker relies on.                     *)
ImplementsSeedFilter == Filter!Spec

(* front() and pop() are never called on an empty frame_queue_.             *)
FrontDefined ==
  /\ pc["mapper"] = "pick" => frame_queue_ # <<>> \/ new_keyframe_set_
  /\ pc["tracker"] = "rs_pop" => frame_queue_ # <<>>

(* Only reset, which pops without the mutex, makes it come to that, and    *)
(* only where it has tested the queue while the mapper, which has tested it *)
(* too, takes a frame or clears it: no wakeup and no other call does.       *)
FrontLostOnlyInReset ==
  [][FrontDefined /\ ~FrontDefined' =>
       pc["tracker"] = "rs_pop" /\ pc["mapper"] \in {"pick", "kf_clear"}]_vars

(* A FramePtr to f exists: the client, the queue, the keyframe slot or a    *)
(* thread keeps the frame alive.                                           *)
Exists(f) ==
  \/ f \in keyframes \cup Range(frame_queue_)
  \/ f \in {new_keyframe_, frame["tracker"], frame["mapper"]}

(* removeKeyframe "is used to make sure that no seeds points to a           *)
(* non-existent frame when a frame is removed from the map", and reset is   *)
(* called "such that we don't have pointers to old frames": no seed points  *)
(* to one when the client is back from a call.                             *)
NoDanglingSeed ==
  pc["tracker"] = "idle" => \A i \in DOMAIN seeds_ : Exists(seeds_[i].frame)

(* Every call the tracker makes returns: no lock, no join and no wait keeps *)
(* it forever.                                                             *)
CallsReturn == []<>(pc["tracker"] = "idle")

(* A queued frame is taken, dropped or cleared even if the client makes no  *)
(* further call: the wakeup of addFrame is not lost.                        *)
QueuedFrameServed ==
  \A f \in Frames :
    f \in Range(frame_queue_) ~> (f \notin Range(frame_queue_) \/ ~thread_)

(* A keyframe that was added is taken up by the mapper.                     *)
KeyframeServed == new_keyframe_set_ ~> (~new_keyframe_set_ \/ ~thread_)

(* It is if images keep coming in that are no keyframes: a wakeup that      *)
(* addKeyframe loses, the next addFrame makes up for.                       *)
KeyframeServedInStream == SF_vars(AnyAddFrame) => KeyframeServed
=============================================================================
