# A TLA+ verification of libcorvis

libcorvis is a visual odometry stack: **svo** (semi-direct visual odometry, `externals/svo`), the
vision library **vikit** it rests on (`externals/vikit`), corner detection (`externals/fast`), Lie
groups (`externals/Sophus`), and the programs around them (`src/`: camera drivers, viewer; `test/`:
the live tracker). The core logic, and all of the concurrency, is in svo: one thread (the *tracker*)
calls `FrameHandlerMono::addImage` for every image, a second one (the *mapper*,
`DepthFilter::updateSeedsLoop`) estimates depths in parallel, and they share frames, seeds and the
list of candidate points.

## Inventory

| component | state | operations | hard part |
| --- | --- | --- | --- |
| `DepthFilter` | seed list, frame queue, keyframe slot, halt flag, thread | addFrame, addKeyframe, removeKeyframe, reset, startThread, stopThread, the mapper's loop | two threads, two mutexes, a condition variable, an unprotected flag and slot |
| `Map`, `MapPointCandidates` | keyframes, candidate list, trash | addKeyframe, safeDeleteFrame, safeDeletePoint, newCandidatePoint, addCandidatePointToFrame, deleteCandidatePoint, reset, emptyTrash | a cyclic graph of raw pointers; deletion in two stages; the mapper adds candidates |
| `Point`, `Frame`, `Feature` | observations, feature lists, key points, counters | addFrameRef, deleteFrameRef, setKeyframe, removeKeyPoint | both ends of every reference must agree |
| `FrameHandlerBase`, `FrameHandlerMono` | stage, tracking quality, last and new frame, start and reset requests | addImage, start, reset, relocalizeFrameAtPose, setFirstFrame | requests from another thread; resets in the middle; relocalisation |
| `Reprojector` | grid of cells, counters of points | reprojectMap | promotes and deletes points while it walks them |
| `NLLSSolver`, `SparseImgAlign` | model, error, damping, stop flag; patches and visible features | optimize, run | accept, roll back, stop; what is kept from level to level |
| `Matcher`, feature alignment | none | findEpipolarMatchDirect, findMatchDirect, align1D, align2D | a search with rejections; pixels at the border; narrow integers |
| `KltHomographyInit`, `Homography` | first frame, tracked features in four vectors; eight decompositions | addFirstFrame, addSecondFrame, reset; findBestDecomposition | vectors that must stay parallel while corners are erased; ambiguous geometry |
| `PoseOptimizer` | none | optimizeGaussNewton | floating point |
| feature detection | occupancy grid | detect, setExistingFeatures | the grid outlives the frame |
| FAST | none | corner detection, score, non-maximum suppression | generated code; vector code beside plain code; one walk through three rows |
| vision | none | halfSample, shiTomasiScore, calcSharrDeriv, ZMSSD | vector code beside plain code; narrow integers; borders |
| `RingBuffer` | array, indices | push_back, get, getSum, getMean | wrap-around before and after it is full |
| `UserInputThread` | one key, stop flag | getInput, stop, the reading loop | unsynchronised read and clear; a blocking destructor |
| `PerformanceMonitor`, `Timer`, cameras, `Config`, robust cost | parameters, logs | | no behaviour, or numerics |
| Sophus | | | third party, numerics |
| drivers, viewer, scripts | | publish, draw | input and output |

How they interact: `addImage` aligns the new frame (`SparseImgAlign` on `NLLSSolver`), reprojects the
map into it (`Reprojector`, with `Matcher` on each point), optimizes the pose, and decides whether it
becomes a keyframe. It hands frames and keyframes to the `DepthFilter` through a queue and a slot. The
mapper detects features in keyframes (`FastDetector` on FAST), searches them in later frames
(`findEpipolarMatchDirect`), and calls back into `MapPointCandidates` when a seed has converged, under
that list's lock. The user's thread sets flags that `addImage` reads.

What makes the components correct:

* **DepthFilter**: the seed list stays well formed though two threads erase from it; every queued
  frame and every keyframe is dealt with; every call returns; no seed outlives its keyframe; seeds
  do not get the depth range of a keyframe that is done; a reset forgets the old map.
* **Map**: each reference from a feature to a point is answered by one from the point to the
  feature's frame; nothing refers to a deleted point; a point is deleted once and freed once; a
  candidate belongs to a keyframe of the map; a keyframe that has points can be found.
* **FrameHandler**: a request to start or to reset is not lost; the stage agrees with the map; the
  quality agrees with the stage.
* **Reprojector**: a point is projected once and not tried after it was deleted; a point is judged by
  the limits of its own type; the best point of a cell is preferred.
* **NLLSSolver**, **SparseImgAlign**: what is accepted is no worse than what was there; the call returns;
  patches are those of the level.
* **KltHomographyInit**: a status is read for the corner it is about; pixels and bearings of a point are of one corner.
* **Detection**: the features are the best corners, spread over the grid; the suppression keeps exactly
  the strict maxima; vector code decides as plain code does.
* **Vision, alignment**: what is read lies in the image; narrow integers do not wrap around.
* **RingBuffer**: it holds the last n values in order. **UserInputThread**: no key twice; it ends.

## Modules

| module | models | source |
| --- | --- | --- |
| `DepthFilter` | the depth filter with both its threads | `depth_filter.{h,cpp}` |
| `SeedFilter` | what it promises the tracker | `depth_filter.h` |
| `Map` | keyframes, features, points, candidates, trash, and the operations on them | `map.cpp`, `point.cpp`, `frame.cpp` |
| `FrameHandlerMono` (extends `Map`, instantiates `SeedFilter`) | the tracker at work on the map, the mapper reduced to what it adds to it | `frame_handler_mono.cpp`, `reprojector.cpp`, `initialization.cpp`, `pose_optimizer.cpp` |
| `Reprojector` | the inside of its reprojection: grid, counters, order | `reprojector.cpp` |
| `FrameHandlerBase` | stages, quality, the requests of another thread | `frame_handler_base.{h,cpp}`, `frame_handler_mono.cpp` |
| `TrackingStages` | what both of them promise of stages and keyframes | `frame_handler_base.{h,cpp}`, `frame_handler_mono.cpp` |
| `NLLSSolver` | Gauss-Newton and Levenberg-Marquardt | `vikit/nlls_solver{.h,_impl.hpp}` |
| `SparseImgAlign` (extends `NLLSSolver`) | the levels, patches and visible features | `sparse_img_align.cpp` |
| `EpipolarSearch` | the search along an epipolar line | `matcher.cpp` |
| `KltHomographyInit` | the corners tracked between the first two keyframes | `initialization.cpp` |
| `NonMax` | non-maximum suppression | `fast/nonmax_3x3.cpp` |
| `FastDetector` (extends `NonMax`) | the detector's grid and levels | `feature_detection.cpp` |
| `FastCorners`, `FastScore` | which pixels are corners, and how good | `fast_10.cpp`, `faster_corner_10_sse.cpp`, `fast_10_score.cpp` |
| `Vision` | halving images, Shi-Tomasi's border, Sharr's derivative, the patch score | `vikit/vision.cpp`, `vikit/patch_score.h` |
| `FeatureAlignment` (extends `Vision`) | the pixels an alignment reads, its integer interpolation | `feature_alignment.cpp` |
| `HomographyDecomposition` | the choice among eight decompositions | `vikit/homography.cpp` |
| `RingBuffer` | the array and its indices | `vikit/ringbuffer.h` |
| `SlidingWindow` | what a ring buffer promises | the same, as `get` shows it |
| `UserInputThread` | a key handed from one thread to another | `vikit/user_input_thread.cpp` |
| `MCDepthFilter`, `MCFrameHandlerMono`, `MCReprojector`, `MCSparseImgAlign`, `MCFastDetector` | values of constants and symmetry for TLC | |
| `DepthFilterProofs`, `FrameHandlerMonoProofs`, `SparseImgAlignProofs`, `ReprojectorProofs`, `FastDetectorProofs` | theorems about the module of that name (`FastDetectorProofs` about `NonMax` too) | |
| `HandlerProofs` | theorems about `FrameHandlerBase`, `RingBuffer` and `UserInputThread` | |
| `MatchingProofs` | theorems about `EpipolarSearch` and `KltHomographyInit` | |
| `VisionProofs` | theorems about `Vision`, `FastCorners`, `FastScore`, `FeatureAlignment` and `HomographyDecomposition` | |

Definitions whose comment begins with "Mutant" are plausible bugs: the definition that follows is replaced
by them to see that a property notices.

### DepthFilter and SeedFilter

The variables have the names of the members. `pc`, `frame`, `it` and `todo` are each thread's place in
the code, its local `FramePtr`, its iterator into `seeds_` and the features it has still to make seeds
of. `keyframes` is what the client holds, `is_keyframe` is `Frame::isKeyframe`.

* A step is one access to memory that the two threads share, or several between which the other
  thread cannot make a difference. `seeds_mut_` and `frame_queue_mut_` are variables that hold their
  owner. Where the code takes no lock the model takes none: the flag and the slot in `addKeyframe`
  (`AddKeyframeStore`), the halt flag everywhere, the queue in `reset` (`ResetTest`, `ResetPop`: the
  statement `lock_t lock();` declares a function).
* `condition_variable::wait` is `WaitSleep`, `SpuriousWakeup` and `WaitWake`; `notify_one` is in
  `StepAndNotify`. An interruption ends the wait and the thread, as boost's does.
* `updateSeeds` and `initializeSeeds` are the same actions (`SeedWork`) for whichever thread runs them.
  A seed that is not too old is erased or kept: which, is a matter of image data.
* A seed is the frame of its feature and its age in batches. Frames are used again once nothing refers to them, so that identities stay few.
* Behaviour beyond undefined behaviour is not given: `front()` on an empty queue stops the model.
  `FrontDefined` says that a client without resets never gets there, `FrontLostOnlyInReset` where a client
  with resets does.

`SeedFilter` is the filter as the tracker may rely on it: keyframes it was given and may still make seeds
for, and frames it has seeds of. `ImplementsSeedFilter` is the refinement, with `Given` (the keyframes
in the slot, in the hands of a thread, or about to be put there) and `SeedFrames` for its two variables. It
is checked in `df_mapping` and proved.

### Map, FrameHandlerMono and Reprojector

A frame projects a point at most once, so a feature is named by its frame and its point. `fts_`, `obs_`
and `type_` are the two ends of every reference and the type of every point; five key points stand as
one (there is a first if there is any). The two trash lists (of the map and of its candidates), which `emptyTrash`
frees one after the other, are one count of the pushes of each point, so that a point that is pushed twice can be told from one that is pushed once. `SafeDeleteFrame`,
`DeletePoints`, `MakeKeyframe`, `NewCandidatePoint`, `EmptyTrash` and `MapReset` are the operations,
with the calls they make (`removePtFrameRef`, `removeKeyPoint`, `safeDeletePoint`).

`addImage` is cut where a lock the mapper may want is given up: the cleanup, the reprojection, the
selection of a keyframe, the removal of another from the depth filter, its removal from the map, the
end. What an image shows is a choice: which points are found, which are outliers, which counters have
run out, whether a failure is declared. Of the depth filter there is what `SeedFilter` promises: `given`
and `seeded` change by its actions only, and any frame that has seeds may give a candidate at any moment.
Nothing makes the mapper be in time: a keyframe can get seeds, and a seed give a candidate, after the keyframe has left the map
by a removal or a reset.

What a map with such a mapper may still claim is stated with the history variable `late`: the keyframes that left
the map while the mapper had them (given to it, or with seeds left). `AddImage` takes a frame object again only when nothing refers to
it. `ReferencesAgree` and `CandidatesCorrect` allow references to keyframes of the map and to `late` ones
(`Referable`), and to no others: what `removeKeyframe`, `safeDeleteFrame` and `reset` do about the references there are is
right, and the only frames outside the map that points or candidates lead to are those the mapper kept. That it does keep some is a finding
(`df_dangling`).

`Reprojector` opens the one step that `FrameHandlerMono` leaves to choice: which points `reprojectMap`
matches, promotes or deletes. Its state is the grid (`cells`), the counters `n_failed_` and `n_succeeded_`,
and `last_projected_kf_id_` as a set (`projected`); where a point falls (`px`) and whether it is matched is
chosen. Lists are sets: the order of features in a keyframe, of equally close keyframes and of equally good
points in a cell is arbitrary. An entry of a cell says from which keyframe or candidate it was projected, so that a
point that is projected twice is there twice. `OutcomeAllowed` states what `FrameHandlerMono` reckons with. The
counters stop one beyond the largest limit they are compared with.

### FrameHandlerBase

The user's `start()` and `reset()` are steps that may come at any time; the flags are read and cleared
by `addImage` one at a time, `set_reset_` before `set_start_`. (They are plain `bool`s; the model takes
each access to one as atomic, which is what the build makes of them.) `ProcessFrame` is one step, since
the user can only set flags that it does not read: it chooses the numbers of points found and of
inliers, and computes quality, stage and size of the map from them as the code does.

`TrackingStages` says which stages follow each other and what happens to the number of keyframes on the way: a frame
that is tracked adds one or none, or takes the place of the furthest when the map is full. `FrameHandlerBase` counts its
keyframes (`map_size`) and leaves out the map; `FrameHandlerMono` has the map and leaves out quality, the user's flags
and the outcomes that make no difference to it. Each implements `TrackingStages` (`ImplementsStages` in both), so that neither
has stages the other does not know of. In `FrameHandlerMono` a keyframe that is being replaced still counts (`MapSize`): the map
is one smaller between `EraseFurthest` and `AddToMap`.

### NLLSSolver and SparseImgAlign

A model is a name, and each optimization chooses the error of every model: 0, 1, ..., or `NaN`, since an
error over no measurement is 0/0 and every comparison with it is false. What is kept is what the
code does with errors: Gauss-Newton measures a model after it has gone there and rolls back one step,
Levenberg-Marquardt tries before it goes; both carry `stop_`, `chi2_` and `n_meas_` from one call
of `optimize` to the next, which `SparseImgAlign` uses once per level. There a feature is its position in one
column of the image, a patch is the level it was cut from, and `visible_fts_` grows from level to level
as in the code.

### Detection: FastDetector, NonMax, FastCorners, FastScore

`FastDetector` has the loop of `FastDetector::detect` over levels and corners, with `grid_occupancy_` from
one frame to the next. Which pixels are corners, and both their scores, is chosen. `NonMax` is the walk of
`fast_nonmax_3x3` with its two indices. `FastCorners` says what the generated decision trees of `fast_10.cpp`
decide (ten contiguous pixels of a circle of sixteen that are all brighter, or all darker, by more than
a barrier), and models the SSE2 detector by its steps: saturating bounds, masks, thirteen early rejections.
`FastScore` raises the barrier, each time by the smallest difference the verdict rested on, until the
pixel is no corner.

### Vision, FeatureAlignment, HomographyDecomposition, EpipolarSearch, KltHomographyInit

Pure functions of integers, stated as operators and proved about directly: the plain and the vector
version of the same function, with the widths and the saturation of the instructions, and the index
ranges of what they read. `HomographyDecomposition` takes the counts of visible features as
parameters. `EpipolarSearch` is a state machine, one step per sample of the line; image, pixels of the
samples and size are arbitrary, so that it is proved about only.

In `KltHomographyInit` a corner is its number in the first image, and a vector holds, for each of its elements, the
corner it is about. `trackKlt` goes one step per corner; which corners the optical flow finds, and which are inliers,
is a choice. It too is proved about only: nothing bounds the number of corners. (With up to four corners, and one
instead of 100 as the least number, TLC finds the three properties to hold.)

### RingBuffer and UserInputThread

`KeepsLatest` is the refinement of `SlidingWindow` under the mapping from the array and its indices to
the values `get` returns. `empty()` is left out: it has no caller. Values are natural numbers, as in
`acc_num_obs_`, whose mean `getMean` rounds down; `acc_frame_timings_`, of `double`s, differs in that division only.

`UserInputThread` has no lock, so each access to `input_` and `stop_` is a step. Keys are numbers in the
order they were typed.

## Runs

| run | question | bounds | result |
| --- | --- | --- | --- |
| `df_mapping` | do two threads keep the seed list well formed, whatever calls are made on a running filter, does it do what the tracker relies on, whose depths do new seeds get, and where can `front()` meet an empty queue? | 4 frames, 2 keyframes, 3 seeds in batches of one and two, age limit 1 | 616 000 states, holds |
| `df_dangling` | do `removeKeyframe` and `reset` keep the header's promise that no seed dangles? | 4 frames, 3 keyframes, 2 seeds | no: finding |
| `df_live` | do calls return, and are frames and keyframes dealt with? | 3 frames, 2 keyframes, 1 seed | 45 000 states, holds |
| `df_lost_wakeup` | is a keyframe taken up without a further image? | 3 frames | no: finding |
| `fhm_mapping` | is the graph of the map consistent, however late the mapper is? | 4 frames, 2 points, 3 keyframes | 1.73 million states, holds |
| `rp_map` | is each point tried once, judged by its own limits, and the best preferred? | 3 points, 3 keyframes, 2 cells | 1.86 million states, holds |
| `fhb_stages` | do stage and map go through `TrackingStages` together, does the quality agree, and are requests served? | numbers of points up to 6, 3 keyframes | 734 states, holds |
| `fhb_lost_start` | does a start that is requested while an image is processed take effect? | the same | no: finding |
| `al_run` | is an accepted model never worse, are patches those of the level, and does `run` return? | 3 levels, 3 models, errors 0, 1, NaN, 3 iterations, 2 trials, 2 features | 401 000 states, holds |
| `fd_detect` | is the suppression exact, and are the best corners kept? | 5 by 3 pixels, cells of 2, 2 levels, 5 corners per level, scores up to 2 | 5.7 million states, holds |
| `rb_push` | is the buffer a sliding window, and the mean that of the window? | 4 elements, 3 values | 364 states, holds |
| `ui_keys` | is no key returned twice, and does the destructor return? | 4 keys | 1 205 states, holds |

Why the bounds are enough.

* `DepthFilter`: the interesting cases need a queue that overflows (four frames: three queued, one more
  coming), a keyframe in the slot while another is worked on, a batch that ages past the limit (two
  keyframes after it, limit 1), and a list whose middle is erased (three seeds
  in batches of one and two).
* `FrameHandlerMono`: four frames are the three keyframes of a full map and the new one, or two keyframes, a last
  frame that is none, and the new one, or keyframes of an old map beside those of a new; two points let one be deleted and one stay, or one be a point and one a
  candidate. A late keyframe's candidate becomes a point of the map after a reset; after a removal it would take a fifth frame (with
  five frames and one point TLC finds the invariants to hold as well, 183 000 states; the theorems have any number).
* `FrameHandlerBase`: the limits 2, 1, 5 and the drop of 1 stand for 50, 20, 120 and 40: every comparison with
  them has both outcomes.
* `Reprojector`: with `MaxFts` 0 one match is one beyond the limit, which leaves a starved cell behind it;
  `MaxNKfs` 2 of three keyframes leaves one out; the limits 1 (unknown) and 2 (candidate) keep the order of 15 and
  30, a candidate outside of the image is charged 2 (so that one more failure decides), and one success
  makes a point good.
* `SparseImgAlign`: three levels have a first, a middle and a last; a model may be better, equal, worse or
  unmeasurable; two trials are one repetition. The four positions are inside at all levels, at the finer
  ones only, or at none, of an image of 20 pixels.
* `FastDetector`: three rows are the least that have a row above and one below; five corners fill a row or
  surround a corner by four; with cells of 2 the corners of two levels meet in one cell.
* `UserInputThread`: four keys are one being returned, one stored, one read and one to come.

Symmetry is used in runs of safety properties only: frames in `df_mapping` (its refinement is a safety
property and treats frames alike) and `df_dangling`, frames and points in `fhm_mapping`, points and keyframes
in `rp_map`. `MaxSeeds`, `MaxKeyframes`, `MaxCorners`, `MaxError`, `MaxScore` and `MaxKeys` bound what the client,
the image or the user does; ages and counters beyond their limits are one value. `MapFull` and the queue's
length are bounds of the code. Three runs do not check deadlock: `df_mapping` and `df_dangling`, since undefined behaviour
after `reset` stops the model, and `ui_keys`, where a destroyed object does nothing more.

### Fairness

* `DepthFilter!FairSpec`: both threads are scheduled (`WF` of `MapperStep`, and of `TrackerStep`, which
  goes on with a call that was made). `AddFramePush` is strongly fair: a mapper that wakes up for no
  reason again and again takes `frame_queue_mut_` each time, and a mutex that lets nobody else in
  forever is not to be expected. Nothing makes the tracker call; that images keep coming in is assumed
  in `KeyframeServedInStream` alone, and stands in its formula.
* `FrameHandlerBase!FairSpec`: images keep coming and are processed. The user is free.
* `SparseImgAlign!FairSpec`: `run` is a sequential call that goes on once it was made. Nobody has to call it.
* `UserInputThread!FairKeySpec`: both threads run. What the user types, and which calls the client makes,
  is free.
* All others have safety properties only.

## Findings

1. `df_lost_wakeup`: `addKeyframe` (`depth_filter.cpp:106`) sets its flag and notifies without the mutex
   the mapper tests it under. The mapper can sleep on a pending keyframe until the next `addFrame`
   (`KeyframeServedInStream` shows that this one repairs it).
2. `df_dangling`: `removeKeyframe` (`depth_filter.cpp:134`) and `reset` (`:153`) erase the seeds there are, but the slot may hold
   a keyframe, or the mapper have taken one and not have made its seeds yet. They are made (`:193`) when the call has returned, stay, and
   refer to the frame when nobody holds it any more, against `depth_filter.h:106` and `:111`. Without a mapper the promise is
   kept (`DanglingCorrect`).
3. `fhb_lost_start`: `resetCommon` (`frame_handler_base.cpp:151`) takes back a request to start that was
   made while the image was processed, as in `reset(); start();`.

## Known limits

These hold of the code as well:

* `FrontDefined` fails for a client that resets (`Calls` with `reset`): `reset` (`depth_filter.cpp:160`) pops the queue without its
  lock. It fails in no other way (`FrontLostOnlyInReset`).
* What `df_dangling` finds reaches the map: a candidate of a frame that has left it can come after the removal or
  the reset (`late` in `FrameHandlerMono`), also between the two halves of `resetAll` (`frame_handler_mono.cpp:286`), which empties the map before the depth filter; the
  candidate can become a point of the new map.
* `KeyframesFindable` fails: the first keyframe (`:97`) gets its key points before its features, so
  `getCloseKeyframes` does not return it.
* `addKeyframe` writes the depths (`depth_filter.cpp:101`) that are read for each seed (`:126`), without a lock. A keyframe that is
  added while the mapper has the one before in hand, or that replaces it in the slot, gives it its own range, though
  `depth_filter.h:149` says "Minimum depth in the new keyframe. Used for range in new seeds." It is not worse than
  that: the depths are never those of a keyframe whose seeds are done (`DepthsNotStale`), as long as no mapper is stopped and started again.
* A second `addKeyframe` before the mapper wakes replaces the first in the slot; and the mapper resets its flag before
  it reads the slot (`depth_filter.cpp:105`), so that a keyframe that is stored in between is taken twice.
  `SeedFilter` allows both.
* `stopThread` leaves the halt flag set, so a later `addFrame` without a mapper stops at the first seed.
* A failed initialization pauses the system; only a new `start()` sets it going again.

Met while the numerical parts were read; the models reproduce those that are within their reach:

* Gauss-Newton goes on from an error that is NaN as if it were no worse (`undefined` in `NLLSSolver`). A singular
  system sets `stop_`, which stays set for all finer levels. Levenberg-Marquardt divides the initial
  error at the second level by measurements that are left over from the first.
* `SparseImgAlign::run` does not reset `visible_fts_`: an object used for a second run would keep those
  of the first (`PatchesOfLevel` is about the first; the library makes a new object for each).
* Neighbouring corners of equal score suppress each other.
* The comment at `feature_detection.h:68` promises no feature within eight pixels of the border; `border_` is
  unused by the detector.
* One match more than `maxFts` is made; the cells are shuffled once, so the same ones starve in every frame.
* `getInput` can lose a key that is stored between its read and its clear, and the destructor does not return
  if `stop()` was not called.
* The NEON build finds corners of nine pixels and scores them as corners of ten.
* `align1D` takes a step back by `update[0]` and `update[1]` where it went by `update[0] * dir`; `align2D` has no step back.
  `align2D_NEON` doubles its mean difference, rounds it toward zero and interpolates with 7 bits (theorem
  `InterpolationClose` bounds the difference). The test of `isnan` comes after the conversion to an integer.
  `warpAffine` returns on NaN with the patch of the call before.
* `halfSample` for an odd number of columns is skewed (theorem `HalfSampleSkews`); the NEON version makes one row
  too many for an odd number of rows (`HalfSampleNEONRows`); the SSE2 version may be brighter by one
  (`HalfSampleAgrees`).
* A barrier outside of 0..255 is cut to a byte by the SSE2 detector.
* `addSecondFrame` succeeds with enough inliers even if none of them lies in both images and in front; then there is no
  point, `getSceneDepth` returns false without a `depth_mean`, and `processSecondFrame` does not look (`frame_handler_mono.cpp:119`).
* The first visibility test of a homography tells the sign of the distance only, so a tie leaves any four
  of the eight; an empty result of RANSAC is not tested.

## Proofs

Checked by TLAPS, for every value of the constants that the modules' assumptions allow. Transition systems:

| theorem | says | rests on |
| --- | --- | --- |
| `DepthFilterProofs!TypesCorrect` | `TypeOK` | `TInv`: also, no thread uses a null `FramePtr`, and no mapper runs without `thread_` |
| `IteratorsCorrect`, `ScansCorrect`, `RemovalsCorrect` | `IteratorsValid`, `ScannedSeedsYoung`, `RemovedSeedsGone` | `WInv`, the three together |
| `FrontLost` | `FrontLostOnlyInReset` | `TInv`; step by step, with and without a reset at its pop |
| `BatchesCorrect` | `SeedsInBatches` | `BInv`: also, the batch that is being made is of its maker's frame |
| `KeyframesCorrect` | `SeedsOfKeyframes` | `KInv`: also, what waits in the slot or is being made seeds of is a keyframe |
| `SeedFilterImplemented` | `ImplementsSeedFilter`: every step is one of `SeedFilter` or none | `BInv`, `KInv`, and that queued frames are no keyframes |
| `NobodyWaitsInCircles`, `FrameWakeupKept` | `NoCircularWait`: whom a thread waits for waits for nobody; `WakeupKept`: the mapper sleeps on a queued frame only if it is about to be woken | `LInv`: who owns `frame_queue_mut_` where |
| `HoldsAreFinite` | `HoldsEnd`: each step of a thread that holds `seeds_mut_` leaves it less to do | `TInv`, `WInv` |
| `DepthsCorrect` | `DepthsNotStale`, for a client that stops no mapper | `DInv`: whose depths are written while a keyframe is on its way to the slot, in it, or in hand |
| `DanglingCorrect` | `NoDanglingSeed`, for a client that starts no mapper | `SInv`: nothing is handed over, and seeds are of frames that the client holds or is about to remove |
| `FrameHandlerMonoProofs!TypeCorrect`, `PointsSharedCorrect`, `KeyPointsHavePoints`, `FeaturesStayUsable`, `TrashCorrect` | `TypeOK`, `PointsShared`, `KeyPointsCorrect`, `FeaturesUsable`, `TrashExact` | `BookkeepingCorrect`: `Inv`, and the limit on keyframes |
| `ReferencesCorrect`, `CandidatesHaveKeyframes` | `ReferencesAgree`, `CandidatesCorrect` | the same and `KnownInv`: what points, candidates and mapper refer to is in the map or late |
| `NewFramesGiven`, `FilterUsedAsPromised` | a keyframe that is given to the filter is unknown to it; every step is one of `SeedFilter` or none | `BookkeepingCorrect` |
| `AnotherKeyframeLeft`, `StagesFollowed` | `AnotherKeyframe`: two keyframes at least while frames are tracked or relocalized; `ImplementsStages` | `SizesInv`: also, a keyframe is only replaced in a full map |
| `HandlerProofs!TypesCorrect`, `StagesCorrect`, `StagesImplemented` | `TypeOK`, `StageOfMap`, `ImplementsStages` | `SInv`: also, who called `resetAll` and how far it is |
| `QualityCorrect` | `QualityOfStage` | `QInv`: the same at every step but those of a reset |
| `IndicesAlways` | `IndicesCorrect` | inductive as it is |
| `Implementation` | `KeepsLatest`: every push is a push on the window | `IndicesCorrect` and lemmas on the indices |
| `MeanCorrect` | `MeanOfWindow` | `IndicesCorrect` and lemmas on sums |
| `KeysCorrect` | `KeysReturnedOnce` | `KeysInOrder`: the keys on their way are in the order they were typed |
| `ReprojectorProofs!TypeCorrect`, `CellsCorrect`, `CountersCorrect`, `OutcomeCorrect`, `BestCorrect` | the five invariants of `rp_map` | `Inv`: also, entries are in the cell their point falls into, every point may have become what it is, and the cells before `i` are done |
| `MatchingEnds` | `TriesRunOut`: what is left to try is bounded, less after every trial, and not raised by the mapper | `Inv` |
| `SparseImgAlignProofs!NeverWorseCorrect` | `NeverWorse` | the model to roll back to is no worse than the first, and `chi2_` is its error |
| `PatchesCorrect` | `PatchesOfLevel` | what is visible at a level is visible at the next finer one |
| `RunsAreFinite` | `StepsRunOut`: the steps left of a `run` are bounded, and fewer after each | the ranges of level, iteration and trial |
| `FastDetectorProofs!SuppressionCorrect` | `NonmaxExact` | `OrderInv`, `IndexInv`: the corners are sorted, and the indices have only gone past what no later corner looks at |
| `DetectionCorrect` | `FeaturesSpread` | `GridInv`: a free cell holds the best corner seen in it, an occupied one none |
| `MatchingProofs!SearchCorrect` | the best of all samples is found | the same for the samples so far, and that the last checked one is among them |
| `StatusCorrect`, `TrackingCorrect`, `PointsCorrect` | the iterators stay at the corner whose status is read; exactly the corners that were found are left; a point's features are of one corner | `WalkInv`: what lies between the iterators and the end is what has not been looked at |

Functions of integers:

| theorem | says |
| --- | --- |
| `VisionProofs!PossibleExact`, `SSE2Exact`, `ScoreCorrect` | the thirteen early rejections leave exactly the corners; SSE2 and plain code find the same; the score is the highest barrier |
| `HalfSampleAgrees`, `HalfSampleInPlace`, `HalfSampleSkews`, `HalfSampleNEONExact`, `HalfSampleNEONRows` | halved images: pixels and rows of the three versions |
| `ScoreReadsInside`, `SharrTakesPixels`, `PatchReadInside` | what is read lies in the image |
| `SharrExact`, `PatchSumsAgree`, `ProductSumsAgree`, `ResidualSumExact` | 16 and 32 bits hold what is computed in them, and vector code computes what plain code does |
| `InterpolationBetween`, `InterpolationClose` | integer weights: within the range of the pixels, and how far off |
| `BetterSignKept`, `ChosenNearlyBest`, `TurnedNotChosen` | which decomposition of a homography is chosen |

The argument in `DepthFilterProofs`: a thread walks the list only while it holds `seeds_mut_`, so what is
behind its iterator is changed by itself alone, and each of its steps keeps it as it was or adds one
seed that it has just tested (`ListSteps`). None of the three properties is inductive without the first.
Steps that have nothing to do with the list are dealt with once (`QuietOrOnList`). `TypeCorrect`,
`WalksCorrect` state the whole invariants. For the refinement the mapping has to keep a keyframe as given while it
is on its way from the slot to the last of its seeds, and a frame that is queued must not be mistaken
for one: hence the invariant on the queue.

Without a mapper (a client whose calls do not include `startThread`, like `test_depth_filter.cpp`) nothing stays in the queue or the
slot, and every seed is of a frame that the client holds or whose `removeKeyframe` is under way: what is left to show is that the
walk of `removeKeyframe` has passed each of them when it returns, which is `RemovedSeedsGone` again. With a mapper the property
is false (`df_dangling`), so the hypothesis cannot go.

Liveness is beyond the prover, but not what it rests on. `NoCircularWait` looks at every wait of the code, for a mutex or
in `join`: whoever is waited for does not wait in turn, nor sleep on the condition. `WakeupKept` is the argument that `addFrame`, unlike
`addKeyframe`, loses no wakeup: the mapper keeps `frame_queue_mut_` from its test to its wait. `HoldsEnd` gives a measure to
everything that is done under `seeds_mut_`. In the same way `StepsRunOut` and `TriesRunOut` bound the steps of a `run` and of a
`reprojectMap` by a number that each of them lowers; that the thread is scheduled until it is 0 is all that
`RunReturns` needs besides.

In `FrameHandlerMonoProofs` the inductive invariant is `TypesInv /\ ControlInv /\ GraphInv`. The properties are not
inductive together. What had to be added: observations of a point are distinct, since
`deleteFrameRef` removes the first only; every candidate is in the list (`CandidatesListed`); only frames of the map
have key points; before there is a map nothing is left of an earlier one (`NoMap`). A mapper that is late may promote a candidate of a
keyframe that was removed, whose features are then observations again. So the invariant ties features and observations
together for all frames but the last and the new one (`Linked`), in the map or not, and says of the depth
filter that it knows of such frames only (`Held`): a frame becomes one it knows when it becomes a keyframe. With this
none of the theorems needs a mapper that keeps up. `ReferencesCorrect` and `CandidatesHaveKeyframes` also say where references lead:
`KnownInv` follows the keyframe that is removed, which either is nowhere referred to any more, or was pending in the depth filter
and is `late`. That no point of the map is seen from it is read off the features: it has none left. The limit on keyframes is an invariant of its own
(`KeyframesInv`); in `HandlerProofs` it needs the stage: the second keyframe is added without a test, and fits because there is one.

`FilterUsedAsPromised` and `SeedFilterImplemented` join the map to the depth filter: the map's theorems
rest on `SeedFilter` for whatever the mapper does, the tracker uses it as `SeedFilter` allows, and the two threads of `DepthFilter` implement
it. `StagesImplemented` and `StagesFollowed` join the two models of the tracker through `TrackingStages`. For the latter a keyframe may be
removed only while there are more than two, which is why `SizesInv` keeps in mind why it is being removed.

In `FastDetectorProofs` the walk goes through the list of corners once, with one index for the row above and one for the row below
that never go back. `IndexInv` says what they have passed: corners that no corner still to come is a neighbour of. That each of the up to
eight comparisons is made, and none with a corner that is no neighbour, follows from the order of the list; that there is such a list of
every finite set of pixels (`RasterOrder`) is proved too, by counting the pixels before each.

In `HandlerProofs` the mean of a ring buffer is a sum over the array on the one side and over the window on the other. A fold is
a recursive function on sets, and an induction over sets cannot be cited here; instead a set on which two sums differ is taken with as few elements as
possible (`MinimalSubset`), which a smaller one contradicts. So a sum is the same however its elements are numbered
(`SumRenumbered`), and the numbering of the array is that of the window turned round.

In `ReprojectorProofs` the invariant follows a frame through the walk. `CellsSound` alone is not inductive: a point
that is projected from a second keyframe is kept out by `projected`, candidates are kept out of what keyframes
project by their type, and two entries of one point fall into one cell (`GridInv`). `OutcomeAllowed` and `BestMatched`
speak of the end of the walk; `JudgedInv`, `FeaturesInv` and `BestInv` say the same of every moment of it: what has
become of each point since the frame came, that features lie in cells before the one at hand, and that these are done.
A candidate that the mapper adds meanwhile is in no cell, since the types of what is there are known.

In `VisionProofs` the generated trees of the corner detector stand as what they decide, so that nothing is proved about
their three thousand lines; `SSE2Exact` is about the hand-written detector, whose thirteen
conditions are compared with ten contiguous flags.

Only model-checked are the liveness properties `CallsReturn`, `QueuedFrameServed`, `KeyframeServedInStream`, `ResetServed`,
`PendingStartServed`, `RunReturns` and `DestructorReturns`: they need fairness and `ENABLED`, for which TLAPS has no rules here. All safety
properties of the passing runs are proved, `DepthsNotStale` for a client that stops no mapper (only the destructor does); `FrontDefined` follows from `FrontLost` for a client without resets.
`FrameHandlerMono!ImplementsStages` and `AnotherKeyframe` are in no run, but TLC finds them to hold in the instance of `fhm_mapping`, and they are proved.

## Not modelled

The models stand for a good eighth of the implementation's lines. The rest is, by size:

* Numerics in floating point: Lie groups (Sophus), the least squares of alignment, pose and structure
  optimisation, homographies, cameras, robust cost, the seeds' filter (`updateSeed`, `computeTau`). Their
  verdicts are choices wherever they steer; TLC and TLAPS have no floating point to say more with.
* The generated decision trees of FAST: thousands of lines that decide one formula, which stands for them.
  `corner_9.h`, the test of the NEON build, is left out. In `FastDetector` scores are integers, where the code compares a `float` with a `double`.
* Input and output: drivers, viewer, `PerformanceMonitor`, `Config`, scripts, the programs under `test/`.
* `setFirstFrame`, `Map::transform`, and `relocalizeFrameAtPose` as it acts on the map (`FrameHandlerBase`
  has what it does to the stage): no caller in the library. `setFirstFrame` makes a map of one keyframe in the default
  stage, after which `getClosestKeyframe` may take the front of an empty list.
* Exits that make no difference to the properties: `SparseImgAlign::run` on a frame without features, `getFurthestKeyframe`
  without a keyframe (`AnotherKeyframeLeft` shows that there is one), and an end of file met by `getchar`.
* Bundle adjustment, and `FrameHandlerMono::setCoreKfs`, which only it uses: not compiled. (With no overlapping keyframe
  the latter's `size() - 1` would wrap around.)

## Plan

The order was that of importance: first what is concurrent and shared, then the map, then what steers
them, then the small parts. All of these are done as described above. Still to come:

1. `OutcomeAllowed` and `FrameHandlerMono`'s `ReprojectMap` joined by a refinement rather than by their comments.
2. `setFirstFrame`, `relocalizeFrameAtPose` and `Map::transform`, once something calls them.
