------------------------- MODULE FrameHandlerMonoProofs -------------------------
(***************************************************************************)
(* The bookkeeping of the map, for any numbers of frames, points and       *)
(* keyframes.  How far it is right does not depend on how fast the mapper  *)
(* is: a mapper that is late only brings back frames that it had when they *)
(* left the map.                                                           *)
(***************************************************************************)
EXTENDS FrameHandlerMono, FiniteSetTheorems, SequenceTheorems, TLAPS

-----------------------------------------------------------------------------
(* Lists of observations                                                    *)

Distinct(s) == \A m, n \in DOMAIN s : s[m] = s[n] => m = n

LEMMA ToSetType ==
  ASSUME NEW S, NEW s \in Seq(S)
  PROVE  /\ ToSet(s) \subseteq S
         /\ \A n \in 1 .. Len(s) : s[n] \in ToSet(s)
         /\ \A e \in ToSet(s) : \E n \in 1 .. Len(s) : s[n] = e
BY DEF ToSet

LEMMA ToSetEmpty == ToSet(<<>>) = {} /\ Len(<<>>) = 0
BY DEF ToSet

LEMMA ToSetOne ==
  ASSUME NEW e
  PROVE  ToSet(<<e>>) = {e} /\ Len(<<e>>) = 1 /\ Distinct(<<e>>)
BY DEF ToSet, Distinct

LEMMA PushFront ==
  ASSUME NEW S, NEW s \in Seq(S), NEW e \in S
  PROVE  /\ <<e>> \o s \in Seq(S) /\ Len(<<e>> \o s) = Len(s) + 1
         /\ ToSet(<<e>> \o s) = {e} \cup ToSet(s)
         /\ Distinct(s) /\ e \notin ToSet(s) => Distinct(<<e>> \o s)
<1> DEFINE t == <<e>> \o s
<1>1. t \in Seq(S) /\ Len(t) = Len(s) + 1 /\ Len(s) \in Nat
  OBVIOUS
<1>2. t[1] = e /\ \A n \in 2 .. Len(t) : n - 1 \in 1 .. Len(s) /\ t[n] = s[n - 1]
  BY <1>1
<1>3. \A n \in 1 .. Len(s) : n + 1 \in 2 .. Len(t) /\ t[n + 1] = s[n]
  BY <1>1
<1>4. ToSet(t) = {e} \cup ToSet(s)
  <2>1. ToSet(t) \subseteq {e} \cup ToSet(s)
    BY <1>1, <1>2 DEF ToSet
  <2>2. e \in ToSet(t)
    BY <1>1, <1>2 DEF ToSet
  <2>3. ToSet(s) \subseteq ToSet(t)
    <3>1. ASSUME NEW n \in 1 .. Len(s) PROVE s[n] \in ToSet(t)
      <4>1. n + 1 \in DOMAIN t /\ t[n + 1] = s[n]
        BY <1>1, <1>3
      <4> QED BY <4>1 DEF ToSet
    <3> QED BY <3>1 DEF ToSet
  <2> QED BY <2>1, <2>2, <2>3
<1>5. ASSUME Distinct(s), e \notin ToSet(s) PROVE Distinct(t)
  BY <1>1, <1>2, <1>5 DEF Distinct, ToSet
<1> QED BY <1>1, <1>4, <1>5

LEMMA RemoveFromDistinct ==
  ASSUME NEW S, NEW s \in Seq(S), NEW e \in ToSet(s), Distinct(s)
  PROVE  /\ RemoveFirst(s, e) \in Seq(S)
         /\ Len(RemoveFirst(s, e)) = Len(s) - 1
         /\ ToSet(RemoveFirst(s, e)) = ToSet(s) \ {e}
         /\ Distinct(RemoveFirst(s, e))
<1>1. PICK k \in 1 .. Len(s) : s[k] = e
  BY DEF ToSet
<1>2. {n \in 1 .. Len(s) : s[n] = e} = {k}
  BY <1>1 DEF Distinct
<1>3. Min({k}) = k
  BY <1>1 DEF Min
<1>4. RemoveFirst(s, e) = SubSeq(s, 1, k - 1) \o SubSeq(s, k + 1, Len(s))
  BY <1>1, <1>2, <1>3 DEF RemoveFirst, SelectInSeq, RemoveAt
<1> DEFINE a == SubSeq(s, 1, k - 1)
           b == SubSeq(s, k + 1, Len(s))
           t == a \o b
<1>5. a \in Seq(S) /\ Len(a) = k - 1 /\ \A n \in 1 .. k - 1 : a[n] = s[n]
  BY <1>1, SubSeqProperties
<1>6. b \in Seq(S) /\ Len(b) = Len(s) - k /\ \A n \in 1 .. Len(s) - k : b[n] = s[n + k]
  BY <1>1, SubSeqProperties
<1> HIDE DEF a, b
<1>7. t \in Seq(S) /\ Len(t) = Len(s) - 1
  <2>1. t \in Seq(S) /\ Len(t) = Len(a) + Len(b)
    BY <1>5, <1>6, ConcatProperties
  <2> QED BY <1>1, <1>5, <1>6, <2>1
<1>8. ASSUME NEW n \in 1 .. Len(t)
      PROVE  t[n] = s[IF n < k THEN n ELSE n + 1]
  <2>1. t[n] = IF n <= Len(a) THEN a[n] ELSE b[n - Len(a)]
    <3>1. n \in 1 .. Len(a) + Len(b)
      BY <1>1, <1>5, <1>6, <1>7
    <3> QED BY <1>5, <1>6, <3>1, ConcatProperties
  <2>2. CASE n < k
    BY <1>1, <1>5, <1>7, <2>1, <2>2
  <2>3. CASE n >= k
    <3>1. n - (k - 1) \in 1 .. Len(s) - k
      BY <1>1, <1>7, <2>3
    <3>2. b[n - (k - 1)] = s[n - (k - 1) + k] /\ n - (k - 1) + k = n + 1
      BY <1>1, <1>6, <3>1
    <3> QED BY <1>1, <1>5, <2>1, <2>3, <3>2
  <2> QED BY <1>1, <2>2, <2>3
<1> HIDE DEF t
<1>9. Distinct(t)
  <2>1. DOMAIN t = 1 .. Len(t) /\ DOMAIN s = 1 .. Len(s) /\ Len(s) \in Nat
    BY <1>7
  <2>2. ASSUME NEW m \in 1 .. Len(t), NEW n \in 1 .. Len(t), t[m] = t[n] PROVE m = n
    <3> DEFINE at(j) == IF j < k THEN j ELSE j + 1
    <3>1. at(m) \in 1 .. Len(s) /\ at(n) \in 1 .. Len(s)
      BY <1>1, <1>7, <2>1
    <3>2. s[at(m)] = s[at(n)]
      BY <1>8, <2>2
    <3>3. at(m) = at(n)
      BY <2>1, <3>1, <3>2 DEF Distinct
    <3> QED BY <1>1, <3>3
  <2> QED BY <2>1, <2>2 DEF Distinct
<1>10. ToSet(t) \subseteq ToSet(s) \ {e}
  BY <1>1, <1>7, <1>8 DEF Distinct, ToSet
<1>11. ASSUME NEW n \in 1 .. Len(s), n # k PROVE s[n] \in ToSet(t)
  <2>1. CASE n < k
    BY <1>1, <1>7, <1>8, <1>11, <2>1 DEF ToSet
  <2>2. CASE n > k
    <3>1. n - 1 \in 1 .. Len(t) /\ t[n - 1] = s[n]
      BY <1>1, <1>7, <1>8, <1>11, <2>2
    <3> QED BY <3>1, <1>7 DEF ToSet
  <2> QED BY <1>1, <1>11, <2>1, <2>2
<1>12. ToSet(s) \ {e} \subseteq ToSet(t)
  BY <1>1, <1>11 DEF ToSet
<1> QED BY <1>4, <1>7, <1>9, <1>10, <1>12 DEF t, a, b

LEMMA DistinctCount ==
  ASSUME NEW S, NEW s \in Seq(S), Distinct(s)
  PROVE  Cardinality(ToSet(s)) = Len(s)
<1>1. s \in Bijection(1 .. Len(s), ToSet(s))
  BY DEF Distinct, ToSet, Bijection, Injection, Surjection, IsInjective
<1>2. ExistsBijection(1 .. Len(s), ToSet(s))
  BY <1>1 DEF ExistsBijection
<1> QED BY <1>2, FS_CountingElements

-----------------------------------------------------------------------------
(* The invariant                                                            *)

(* Before there is a map, the mapper may still make candidates.             *)
NoMap ==
  /\ fts_ = [f \in Frames |-> {}] /\ key_pts_ = [f \in Frames |-> NoPoint]
  /\ \A p \in Points : type_[p] \in {"none", "candidate"}
  /\ trash_points_ = EmptyLists

Working == {"process", "reproject", "decide", "remove", "erase", "add"}

TypesInv ==
  /\ keyframes_ \subseteq Frames
  /\ fts_ \in [Frames -> SUBSET Points] /\ key_pts_ \in [Frames -> Points \cup {NoPoint}]
  /\ obs_ \in [Points -> Seq(Frames)] /\ type_ \in [Points -> PointTypes]
  /\ candidates_ \subseteq Points \X Frames /\ trash_points_ \in [Points -> Nat]
  /\ stage_ \in Stages /\ pc \in PCs
  /\ last_frame_ \in FrameOrNull /\ new_frame_ \in FrameOrNull /\ furthest \in FrameOrNull
  /\ given \subseteq Frames /\ seeded \subseteq Frames /\ late \subseteq Frames

(* Which stages and which frames belong to a place in addImage.             *)
ControlInv ==
  /\ pc = "process" => stage_ \in {"first", "second", "relocalizing"}
  /\ pc \in Working \ {"process"} => stage_ \in {"default", "relocalizing"}
  /\ pc \in {"reset_filter", "start_filter"} => stage_ = "paused"
  /\ pc \in Working =>
       new_frame_ \in Frames /\ new_frame_ \notin keyframes_ /\ new_frame_ # last_frame_
  /\ pc \in {"idle", "reset_filter", "start_filter"} => new_frame_ = NoFrame
  /\ pc = "erase" => furthest \in keyframes_
  /\ stage_ \in {"paused", "first", "second"} => NoMap
  /\ stage_ \in {"paused", "first"} => keyframes_ = {}
  /\ stage_ = "default" /\ pc = "idle" => last_frame_ \in Frames

KeyframesInv ==
  /\ IsFiniteSet(keyframes_) /\ Cardinality(keyframes_) <= MaxNKfs
  /\ stage_ = "second" => Cardinality(keyframes_) = 1
  /\ pc = "add" => Cardinality(keyframes_) < MaxNKfs

(* The frames whose features are observations: all but the last and the new *)
(* frame while they are not in the map.  A keyframe that was removed is     *)
(* still one: the mapper may have seeds of it.                              *)
Linked == Frames \ ({last_frame_, new_frame_} \ MapFrames)

(* The frames the mapper may know: the keyframe just removed may have been  *)
(* the last frame.                                                          *)
Held == Linked \cup (IF pc = "add" THEN {last_frame_} ELSE {})

Shared(p) == type_[p] \in {"unknown", "good"}
LinksInv ==
  /\ \A f \in Linked : \A p \in fts_[f] : Shared(p) /\ f \in Observers(p)
  /\ \A p \in Points : Shared(p) => \A f \in Observers(p) : f \in Linked /\ p \in fts_[f]
DistinctViews ==
  \A p \in Points : Shared(p) => Len(obs_[p]) >= 2 /\ Distinct(obs_[p])
CandidatesInv ==
  \A c \in candidates_ :
    type_[c[1]] = "candidate" /\ obs_[c[1]] = <<c[2]>> /\ c[2] \in Held
CandidatesListed == \A p \in Points : type_[p] = "candidate" => p \in CandidatePoints
KeyPointsInv ==
  \A f \in Frames : key_pts_[f] # NoPoint => f \in MapFrames /\ key_pts_[f] \in fts_[f]
OthersEmpty ==
  \A f \in Frames : fts_[f] # {} =>
    f \in Linked \cup {last_frame_} \/ (pc = "decide" /\ f = new_frame_)
FilterInv == given \subseteq Held /\ seeded \subseteq Held

GraphInv ==
  /\ LinksInv /\ DistinctViews
  /\ CandidatesInv /\ CandidatesListed
  /\ TrashExact
  /\ KeyPointsInv /\ OthersEmpty
  /\ FilterInv /\ FeaturesUsable

Inv == TypesInv /\ ControlInv /\ GraphInv

-----------------------------------------------------------------------------
(* The steps of addImage that leave the graph of points as it is            *)

LEMMA NoMapGraph ==
  /\ TypesInv /\ NoMap /\ CandidatesInv /\ CandidatesListed /\ FilterInv
  /\ pc \in {"idle", "process", "reset_map", "reset_filter", "start_map", "start_filter"}
  /\ pc = "idle" => stage_ # "default"
  => GraphInv
<1> SUFFICES ASSUME TypesInv, NoMap, CandidatesInv, CandidatesListed, FilterInv,
                    pc \in {"idle", "process", "reset_map", "reset_filter", "start_map",
                            "start_filter"},
                    pc = "idle" => stage_ # "default"
             PROVE  GraphInv
  OBVIOUS
<1>1. /\ \A p \in Points : ~Shared(p) /\ type_[p] # "deleted"
      /\ \A f \in Frames : fts_[f] = {} /\ key_pts_[f] = NoPoint
      /\ \A p \in Points : trash_points_[p] = 0
  BY DEF NoMap, Shared, EmptyLists
<1>2. LinksInv /\ DistinctViews /\ TrashExact
  BY <1>1 DEF LinksInv, Linked, DistinctViews, TrashExact
<1>3. KeyPointsInv /\ OthersEmpty
  BY <1>1 DEF KeyPointsInv, OthersEmpty
<1>4. FeaturesUsable
  BY DEF FeaturesUsable
<1> QED BY <1>2, <1>3, <1>4 DEF GraphInv

LEMMA NoMapGraphNext ==
  (/\ TypesInv /\ NoMap /\ CandidatesInv /\ CandidatesListed /\ FilterInv
   /\ pc \in {"idle", "process", "reset_map", "reset_filter", "start_map", "start_filter"}
   /\ pc = "idle" => stage_ # "default")'
  => GraphInv'
BY NoMapGraph, PTL

LEMMA InitInv == Init => Inv
<1> SUFFICES ASSUME Init PROVE Inv
  OBVIOUS
<1>1. TypesInv
  BY DEF Init, MapInit, EmptyLists, Filter!Init, TypesInv, PointTypes, Stages, PCs, FrameOrNull
<1>2. ControlInv /\ NoMap
  BY DEF Init, MapInit, Filter!Init, ControlInv, NoMap, Working
<1>3. CandidatesInv /\ CandidatesListed /\ FilterInv
  BY DEF Init, MapInit, Filter!Init, CandidatesInv, CandidatesListed, FilterInv
<1>4. GraphInv
  BY <1>1, <1>2, <1>3, NoMapGraph DEF Init
<1> QED BY <1>1, <1>2, <1>4 DEF Inv

(* What the mapper knows is not disturbed by a step that lets no frame go.  *)
LEMMA HeldKept ==
  ASSUME TypesInv, CandidatesInv, CandidatesListed, FilterInv,
         UNCHANGED <<obs_, type_, candidates_, given, seeded>>,
         Held \cap Frames \subseteq Held'
  PROVE  CandidatesInv' /\ CandidatesListed' /\ FilterInv'
<1>1. /\ obs_' = obs_ /\ type_' = type_ /\ candidates_' = candidates_
      /\ given' = given /\ seeded' = seeded
  OBVIOUS
<1>2. \A c \in candidates_ : c[2] \in Frames
  BY DEF TypesInv
<1>3. CandidatesInv'
  BY <1>1, <1>2 DEF CandidatesInv
<1>4. CandidatesListed'
  BY <1>1 DEF CandidatesListed, CandidatePoints
<1>5. FilterInv'
  BY <1>1 DEF FilterInv, TypesInv
<1> QED BY <1>3, <1>4, <1>5

(* The new frame becomes the last, and what the map knows of stays.         *)
LEMMA FinishKeeps ==
  ASSUME Inv,
         NEW K \in SUBSET Frames, NEW F \in [Frames -> SUBSET Points],
         NEW st \in {"default", "relocalizing"},
         pc \in Working, Finish(K, F, st),
         UNCHANGED <<key_pts_, obs_, type_, candidates_, trash_points_, filter>>,
         K = MapFrames, pc # "erase",
         \A f \in Frames \ {new_frame_} : F[f] = fts_[f],
         new_frame_ \in K => F[new_frame_] = fts_[new_frame_],
         st = "default" => \A p \in F[new_frame_] : Live(p)
  PROVE  Inv'
<1>1. /\ pc' \in {"idle", "reset_map"} /\ MapFrames' = K /\ last_frame_' = new_frame_
      /\ stage_' = st /\ keyframes_' = K /\ new_frame_' = NoFrame /\ furthest' = NoFrame
      /\ fts_' = WithoutLast(K, F)
  BY DEF Finish, MapFrames
<1>2. /\ new_frame_ \in Frames /\ new_frame_ # last_frame_
      /\ fts_ \in [Frames -> SUBSET Points]
  BY DEF Inv, ControlInv, TypesInv
<1>3. /\ fts_' \in [Frames -> SUBSET Points]
      /\ \A f \in K : fts_'[f] = fts_[f]
      /\ fts_'[new_frame_] = F[new_frame_]
      /\ \A f \in Frames \ K : fts_'[f] # {} => f = new_frame_ \/ (f # last_frame_ /\ fts_[f] # {})
  BY <1>1, <1>2 DEF WithoutLast
<1>4. TypesInv'
  BY <1>1, <1>2, <1>3 DEF Inv, TypesInv, filter, FrameOrNull, PCs, Stages
<1>5. ControlInv'
  BY <1>1, <1>2 DEF ControlInv, Working
<1>6. /\ Linked = Frames \ ({last_frame_, new_frame_} \ K)
      /\ Linked' = Frames \ ({new_frame_} \ K)
      /\ Held \cap Frames \subseteq Linked' /\ Held' = Linked'
  BY <1>1, <1>2, FramesAssumption DEF Linked, Held
<1>7. LinksInv' /\ DistinctViews'
  <2>1. ASSUME NEW g \in Linked', NEW p \in fts_'[g] PROVE Shared(p)' /\ g \in Observers(p)'
    <3>1. g \in Linked /\ p \in fts_[g]
      BY <1>1, <1>2, <1>6, <2>1 DEF WithoutLast
    <3> QED BY <3>1 DEF Inv, GraphInv, LinksInv, Shared, Observers
  <2>2. ASSUME NEW p \in Points, Shared(p), NEW g \in Observers(p)
        PROVE  g \in Linked' /\ p \in fts_'[g]
    <3>1. g \in Linked /\ p \in fts_[g]
      BY <2>2 DEF Inv, GraphInv, LinksInv
    <3> QED BY <1>1, <1>2, <1>6, <3>1 DEF WithoutLast
  <2>3. LinksInv'
    BY <2>1, <2>2 DEF LinksInv, Shared, Observers
  <2>4. DistinctViews'
    BY DEF Inv, GraphInv, DistinctViews, Shared
  <2> QED BY <2>3, <2>4
<1>8. CandidatesInv' /\ CandidatesListed' /\ FilterInv'
  BY <1>6, HeldKept DEF Inv, GraphInv, filter
<1>9. KeyPointsInv' /\ TrashExact'
  BY <1>1, <1>2, <1>3 DEF Inv, GraphInv, KeyPointsInv, TrashExact
<1>10. OthersEmpty'
  BY <1>1, <1>6 DEF OthersEmpty
<1>11. FeaturesUsable'
  BY <1>1, <1>2, <1>3 DEF FeaturesUsable, Live
<1> QED BY <1>4, <1>5, <1>7, <1>8, <1>9, <1>10, <1>11 DEF Inv, GraphInv

LEMMA NoMapFinish ==
  ASSUME Inv, pc = "process", stage_ \in {"first", "second"},
         NEW K \in SUBSET Frames, K \in {keyframes_, keyframes_ \cup {new_frame_}},
         NEW st \in {"first", "second"},
         Finish(K, fts_, st), st = "first" => K = {},
         UNCHANGED <<key_pts_, obs_, type_, candidates_, trash_points_, filter>>
  PROVE  Inv'
<1>1. /\ TypesInv /\ ControlInv /\ GraphInv /\ NoMap
      /\ new_frame_ \in Frames /\ new_frame_ \notin keyframes_
  BY DEF Inv, ControlInv, Working
<1>2. fts_' = fts_
  BY <1>1 DEF Finish, WithoutLast, NoMap
<1>3. TypesInv' /\ NoMap'
  BY <1>1, <1>2 DEF Finish, TypesInv, NoMap, filter, PCs, Stages, FrameOrNull
<1>4. ControlInv'
  BY <1>3 DEF Finish, ControlInv, Working
<1>5. Held \cap Frames \subseteq Held'
  <2>1. MapFrames = keyframes_ /\ MapFrames' = K
    BY DEF Finish, MapFrames
  <2>2. Held = Frames \ ({last_frame_, new_frame_} \ keyframes_)
    BY <2>1 DEF Held, Linked
  <2>3. Held' = Frames \ ({new_frame_} \ K)
    BY <2>1, FramesAssumption DEF Finish, Held, Linked
  <2> QED BY <1>1, <2>2, <2>3
<1>6. CandidatesInv' /\ CandidatesListed' /\ FilterInv'
  BY <1>1, <1>5, HeldKept DEF GraphInv, filter
<1>7. GraphInv'
  BY <1>3, <1>6, NoMapGraphNext DEF Finish
<1> QED BY <1>3, <1>4, <1>7 DEF Inv

LEMMA FirstFramesInv ==
  ASSUME Inv, ProcessFirstFrame \/ SecondFrameNoKeyframe PROVE Inv'
<1>1. /\ pc = "process" /\ stage_ \in {"first", "second"}
      /\ new_frame_ \in Frames /\ keyframes_ \subseteq Frames /\ (stage_ = "first" => keyframes_ = {})
      /\ UNCHANGED <<key_pts_, obs_, type_, candidates_, trash_points_, filter>>
  BY DEF ProcessFirstFrame, SecondFrameNoKeyframe, Inv, ControlInv, TypesInv, Working
<1>2. CASE ProcessFirstFrame
  <2>1. CASE Finish(keyframes_, fts_, "first")
    BY <1>1, <1>2, <2>1, NoMapFinish DEF ProcessFirstFrame
  <2>2. CASE Finish(keyframes_ \cup {new_frame_}, fts_, "second")
    <3>1. keyframes_ \cup {new_frame_} \in SUBSET Frames
      BY <1>1
    <3> QED BY <1>1, <2>2, <3>1, NoMapFinish
  <2> QED BY <1>2, <2>1, <2>2 DEF ProcessFirstFrame
<1>3. CASE SecondFrameNoKeyframe
  BY <1>1, <1>3, NoMapFinish DEF SecondFrameNoKeyframe
<1> QED BY <1>2, <1>3

LEMMA LaterFramesInv ==
  ASSUME Inv, RelocalizationFails \/ ProcessFrameFails \/ NoKeyframe \/ AddToMap PROVE Inv'
<1>1. /\ new_frame_ \in Frames /\ keyframes_ \subseteq Frames /\ new_frame_ \notin keyframes_
      /\ pc \in Working /\ pc # "erase"
      /\ fts_ \in [Frames -> SUBSET Points]
      /\ UNCHANGED <<key_pts_, obs_, type_, candidates_, trash_points_, filter>>
  BY DEF RelocalizationFails, ProcessFrameFails, NoKeyframe, AddToMap, Inv, ControlInv, TypesInv,
     Working
<1>2. CASE RelocalizationFails
  <2>1. MapFrames = keyframes_ /\ Finish(keyframes_, fts_, "relocalizing")
    BY <1>2 DEF RelocalizationFails, MapFrames
  <2> QED BY <1>1, <2>1, FinishKeeps
<1>3. CASE ProcessFrameFails \/ NoKeyframe
  <2>1. PICK inliers \in SUBSET fts_[new_frame_], st \in {"default", "relocalizing"} :
          Finish(keyframes_, [fts_ EXCEPT ![new_frame_] = inliers], st)
    BY <1>3 DEF ProcessFrameFails, NoKeyframe, Inliers
  <2> DEFINE F == [fts_ EXCEPT ![new_frame_] = inliers]
  <2>2. /\ F \in [Frames -> SUBSET Points] /\ F[new_frame_] = inliers
        /\ \A f \in Frames \ {new_frame_} : F[f] = fts_[f]
    BY <1>1
  <2>3. MapFrames = keyframes_ /\ \A p \in inliers : Live(p)
    BY <1>3 DEF ProcessFrameFails, NoKeyframe, MapFrames, Inv, GraphInv, FeaturesUsable
  <2>4. Finish(keyframes_, F, st)
    BY <2>1
  <2> HIDE DEF F
  <2> QED BY <1>1, <2>2, <2>3, <2>4, FinishKeeps
<1>4. CASE AddToMap
  <2>1. MapFrames = keyframes_ \cup {new_frame_} /\ Finish(keyframes_ \cup {new_frame_}, fts_, "default")
    BY <1>4 DEF AddToMap, MapFrames
  <2>2. \A p \in fts_[new_frame_] : Live(p)
    BY <1>4 DEF AddToMap, Inv, GraphInv, FeaturesUsable
  <2> QED BY <1>1, <2>1, <2>2, FinishKeeps
<1> QED BY <1>2, <1>3, <1>4

LEMMA AddImageInv ==
  ASSUME Inv, NEW f \in Frames, AddImage(f) PROVE Inv'
<1>1. /\ pc = "idle" /\ pc' = (IF stage_ = "default" THEN "reproject" ELSE "process")
      /\ stage_ # "paused" /\ new_frame_' = f /\ f \notin keyframes_ /\ f # last_frame_
      /\ f \notin given \cup seeded /\ \A p \in Points : f \notin Observers(p)
      /\ UNCHANGED <<keyframes_, fts_, key_pts_, candidates_, stage_, last_frame_, furthest,
                     given, seeded>>
      /\ trash_points_' = [p \in Points |-> 0] /\ late' = late \ {f}
      /\ type_' = [p \in Points |-> IF trash_points_[p] > 0 THEN "none" ELSE type_[p]]
      /\ obs_' = [p \in Points |-> IF trash_points_[p] > 0 THEN <<>> ELSE obs_[p]]
  BY DEF AddImage, Unused, Pending, EmptyTrash, EmptyLists, Free
<1>2. TypesInv /\ ControlInv /\ GraphInv
  BY DEF Inv
<1>3. /\ \A p \in Points : type_[p] # "deleted" => type_'[p] = type_[p] /\ obs_'[p] = obs_[p]
      /\ \A p \in Points : type_[p] = "deleted" => type_'[p] = "none"
  BY <1>1, <1>2 DEF GraphInv, TrashExact
<1>4. /\ MapFrames = keyframes_ /\ MapFrames' = keyframes_
      /\ Linked = Frames \ ({last_frame_} \ keyframes_) /\ Held = Linked
      /\ Linked' = Linked \ {f} /\ Held' = Linked \ {f}
  <2>1. MapFrames = keyframes_ /\ MapFrames' = keyframes_
    BY <1>1 DEF MapFrames
  <2>2. new_frame_ = NoFrame
    BY <1>1, <1>2 DEF ControlInv
  <2>3. Linked = Frames \ ({last_frame_} \ keyframes_) /\ Held = Linked
    BY <1>1, <2>1, <2>2, FramesAssumption DEF Linked, Held
  <2>4. Linked' = Linked \ {f}
    BY <1>1, <2>1, <2>3 DEF Linked
  <2>5. Held' = Linked \ {f}
    BY <1>1, <2>4 DEF Held
  <2> QED BY <2>1, <2>3, <2>4, <2>5
<1>5. TypesInv'
  <2>1. type_' \in [Points -> PointTypes] /\ obs_' \in [Points -> Seq(Frames)]
    BY <1>1, <1>2 DEF TypesInv, PointTypes
  <2> QED BY <1>1, <1>2, <2>1 DEF TypesInv, PCs, FrameOrNull, filter
<1>6. ControlInv'
  <2>1. stage_ \in {"first", "second"} => NoMap'
    BY <1>1, <1>2 DEF ControlInv, NoMap, EmptyLists
  <2> QED BY <1>1, <1>2, <2>1 DEF ControlInv, TypesInv, Stages, Working
<1>7. LinksInv' /\ DistinctViews'
  BY <1>1, <1>2, <1>3, <1>4
  DEF TypesInv, GraphInv, LinksInv, DistinctViews, Shared, Observers
<1>8. CandidatesInv' /\ CandidatesListed' /\ TrashExact'
  <2>1. ASSUME NEW c \in candidates_
        PROVE  type_'[c[1]] = "candidate" /\ obs_'[c[1]] = <<c[2]>> /\ c[2] \in Held'
    <3>1. /\ c[1] \in Points /\ type_[c[1]] = "candidate" /\ obs_[c[1]] = <<c[2]>>
          /\ c[2] \in Held
      BY <1>2 DEF TypesInv, GraphInv, CandidatesInv
    <3>2. c[2] # f
      BY <1>1, <3>1, ToSetOne DEF Observers
    <3> QED BY <1>3, <1>4, <3>1, <3>2
  <2>2. CandidatesInv'
    BY <1>1, <2>1 DEF CandidatesInv
  <2>3. CandidatesListed' /\ TrashExact'
    BY <1>1, <1>2, <1>3
    DEF TypesInv, GraphInv, CandidatesListed, TrashExact, CandidatePoints
  <2> QED BY <2>2, <2>3
<1>9. KeyPointsInv' /\ OthersEmpty'
  <2>1. KeyPointsInv'
    BY <1>1, <1>2, <1>4 DEF GraphInv, KeyPointsInv
  <2>2. fts_[f] = {}
    BY <1>1, <1>2, <1>4 DEF GraphInv, LinksInv, TypesInv
  <2>3. OthersEmpty'
    BY <1>1, <1>2, <1>4, <2>2 DEF GraphInv, OthersEmpty
  <2> QED BY <2>1, <2>3
<1>10. FilterInv' /\ FeaturesUsable'
  BY <1>1, <1>2, <1>4 DEF GraphInv, FilterInv, FeaturesUsable, filter
<1> QED BY <1>5, <1>6, <1>7, <1>8, <1>9, <1>10 DEF Inv, GraphInv

(* Only the place in addImage changes.                                      *)
LEMMA TurnInv ==
  ASSUME Inv, Start \/ SecondFrameFails PROVE Inv'
<1>1. /\ pc \in {"idle", "process"} /\ pc' \in {"reset_map", "start_map"}
      /\ UNCHANGED <<mapVars, stage_, frames, filter>>
  BY DEF Start, SecondFrameFails
<1>2. MapFrames = keyframes_ /\ MapFrames' = keyframes_
  BY <1>1 DEF MapFrames, mapVars
<1>3. Linked' = Linked /\ Held' = Held
  BY <1>1, <1>2 DEF Linked, Held, frames
<1>4. TypesInv' /\ ControlInv'
  BY <1>1 DEF Inv, TypesInv, ControlInv, Working, PCs, NoMap, mapVars, graph, frames, filter
<1>5. LinksInv' /\ DistinctViews' /\ CandidatesInv' /\ CandidatesListed' /\ TrashExact'
  BY <1>1, <1>2, <1>3
  DEF Inv, GraphInv, LinksInv, DistinctViews, Shared, Observers, CandidatesInv,
      CandidatesListed, CandidatePoints, TrashExact, mapVars, graph
<1>6. KeyPointsInv' /\ OthersEmpty' /\ FilterInv' /\ FeaturesUsable'
  BY <1>1, <1>2, <1>3
  DEF Inv, GraphInv, KeyPointsInv, OthersEmpty, FilterInv, FeaturesUsable, mapVars, graph,
      frames, filter
<1> QED BY <1>4, <1>5, <1>6 DEF Inv, GraphInv

LEMMA ResetInv ==
  ASSUME Inv, ResetMap \/ ResetFilter PROVE Inv'
<1>1. CASE ResetMap
  <2>1. /\ pc' \in {"reset_filter", "start_filter"} /\ stage_' = "paused" /\ keyframes_' = {}
        /\ last_frame_' = NoFrame /\ new_frame_' = NoFrame /\ furthest' = furthest
        /\ candidates_' = {} /\ given' = given /\ seeded' = seeded
        /\ late' = given \cup seeded
        /\ type_' = [p \in Points |-> "none"] /\ obs_' = [p \in Points |-> <<>>]
    BY <1>1 DEF ResetMap, MapReset, Free, Pending
  <2>2. NoMap'
    BY <1>1, <2>1 DEF ResetMap, MapReset, NoMap
  <2>3. TypesInv'
    BY <2>1, <2>2 DEF Inv, TypesInv, NoMap, EmptyLists, PointTypes, Stages, PCs, FrameOrNull
  <2>4. ControlInv'
    BY <2>1, <2>2 DEF ControlInv, Working
  <2>5. Held' = Frames
    BY <2>1, FramesAssumption DEF Held, Linked
  <2>6. CandidatesInv' /\ CandidatesListed' /\ FilterInv'
    BY <2>1, <2>5 DEF Inv, TypesInv, CandidatesInv, CandidatesListed, FilterInv
  <2> QED BY <2>1, <2>2, <2>3, <2>4, <2>6, NoMapGraphNext DEF Inv
<1>2. CASE ResetFilter
  <2>1. /\ pc \in {"reset_filter", "start_filter"}
        /\ pc' = "idle" /\ stage_ = "paused" /\ stage_' \in {"paused", "first"} /\ NoMap
        /\ seeded' = {} /\ keyframes_ = {} /\ new_frame_ = NoFrame
        /\ UNCHANGED <<mapVars, frames, given, late>>
    BY <1>2 DEF ResetFilter, Filter!Clear, Inv, ControlInv
  <2>2. NoMap'
    BY <2>1 DEF NoMap, mapVars, graph
  <2>3. TypesInv'
    BY <2>1, <2>2 DEF Inv, TypesInv, Stages, PCs, mapVars, graph, frames
  <2>4. ControlInv'
    BY <2>1, <2>2 DEF ControlInv, Working, mapVars, frames
  <2>5. Held' = Held
    <3>1. MapFrames' = MapFrames
      BY <2>1 DEF MapFrames, mapVars
    <3> QED BY <2>1, <3>1 DEF Held, Linked, frames
  <2>6. CandidatesInv' /\ CandidatesListed' /\ FilterInv'
    BY <2>1, <2>5
    DEF Inv, GraphInv, CandidatesInv, CandidatesListed, CandidatePoints, FilterInv, mapVars, graph
  <2> QED BY <2>1, <2>2, <2>3, <2>4, <2>6, NoMapGraphNext DEF Inv
<1> QED BY <1>1, <1>2

LEMMA RelocalizeInv ==
  ASSUME Inv, RelocalizeFrame PROVE Inv'
<1>1. PICK ref \in keyframes_ : last_frame_' = ref
  BY DEF RelocalizeFrame
<1>2. /\ pc = "process" /\ pc' = "reproject" /\ stage_ = "relocalizing"
      /\ fts_' = WithoutLast(keyframes_, fts_)
      /\ UNCHANGED <<keyframes_, key_pts_, obs_, type_, candidates_, trash_points_, stage_,
                     new_frame_, furthest, filter>>
  BY DEF RelocalizeFrame
<1>3. TypesInv /\ ControlInv /\ GraphInv
  BY DEF Inv
<1>4. MapFrames = keyframes_ /\ MapFrames' = keyframes_
  BY <1>2 DEF MapFrames
<1>5. /\ Linked = Frames \ ({last_frame_, new_frame_} \ keyframes_)
      /\ Linked' = Frames \ ({new_frame_} \ keyframes_)
      /\ Held \cap Frames \subseteq Linked' /\ Held' = Linked'
  BY <1>1, <1>2, <1>4 DEF Linked, Held
<1>6. /\ fts_' \in [Frames -> SUBSET Points]
      /\ \A g \in Frames : fts_'[g] = IF g = last_frame_ /\ g \notin keyframes_ THEN {}
                                      ELSE fts_[g]
  BY <1>2, <1>3 DEF TypesInv, WithoutLast
<1>7. TypesInv'
  BY <1>1, <1>2, <1>3, <1>6 DEF TypesInv, PCs, FrameOrNull, filter
<1>8. ControlInv'
  BY <1>1, <1>2, <1>3 DEF ControlInv, Working
<1>9. LinksInv' /\ DistinctViews'
  <2>1. \A g \in Linked' : \A p \in fts_'[g] : g \in Linked /\ p \in fts_[g]
    BY <1>5, <1>6
  <2>2. \A g \in Linked : g \in Linked' /\ fts_'[g] = fts_[g]
    BY <1>5, <1>6
  <2> QED BY <1>2, <1>3, <2>1, <2>2 DEF GraphInv, LinksInv, DistinctViews, Shared, Observers
<1>10. CandidatesInv' /\ CandidatesListed' /\ FilterInv'
  BY <1>2, <1>3, <1>5, HeldKept DEF GraphInv, filter
<1>11. KeyPointsInv' /\ TrashExact'
  BY <1>2, <1>3, <1>4, <1>6 DEF GraphInv, KeyPointsInv, TrashExact
<1>12. OthersEmpty'
  <2>1. new_frame_ # last_frame_ /\ new_frame_ \notin keyframes_
    BY <1>2, <1>3 DEF ControlInv, Working
  <2>2. \A g \in Frames : fts_'[g] # {} => g # new_frame_
    BY <1>2, <1>3, <1>5, <1>6, <2>1 DEF GraphInv, OthersEmpty
  <2> QED BY <1>5, <2>2 DEF OthersEmpty
<1>13. FeaturesUsable'
  BY <1>2 DEF FeaturesUsable
<1> QED BY <1>7, <1>8, <1>9, <1>10, <1>11, <1>12, <1>13 DEF Inv, GraphInv

-----------------------------------------------------------------------------
(* The steps that change the graph                                          *)

LEMMA SecondFrameInv ==
  ASSUME Inv, ProcessSecondFrame PROVE Inv'
<1> DEFINE new == new_frame_
<1>1. /\ TypesInv /\ NoMap /\ pc = "process" /\ stage_ = "second"
      /\ new \in Frames /\ new \notin keyframes_ /\ new # last_frame_
      /\ candidates_' = candidates_ /\ trash_points_' = EmptyLists
      /\ seeded' = seeded /\ given' = given \cup {new} /\ late' = late
      /\ CandidatesInv /\ CandidatesListed
  BY DEF ProcessSecondFrame, Filter!Give, Inv, ControlInv, Working, NoMap, GraphInv
<1>2. PICK ref \in keyframes_, points \in SUBSET {p \in Points : type_[p] = "none"} :
        /\ Finish(keyframes_ \cup {new}, [fts_ EXCEPT ![ref] = points, ![new] = points], "default")
        /\ key_pts_' \in {[key_pts_ EXCEPT ![new] = p] : p \in ChosenFrom(points)}
        /\ obs_' = [p \in Points |-> IF p \in points THEN <<ref, new>> ELSE obs_[p]]
        /\ type_' = [p \in Points |-> IF p \in points THEN "unknown" ELSE type_[p]]
  BY DEF ProcessSecondFrame
<1>3. /\ pc' \in {"idle", "reset_map"} /\ stage_' = "default"
      /\ keyframes_' = keyframes_ \cup {new} /\ MapFrames' = keyframes_ \cup {new}
      /\ last_frame_' = new /\ new_frame_' = NoFrame /\ furthest' = NoFrame
  BY <1>2 DEF Finish, MapFrames
<1>4. ref \in Frames /\ ref # new /\ points \subseteq Points
  BY <1>1 DEF TypesInv
<1>5. fts_' = [f \in Frames |-> IF f \in {ref, new} THEN points ELSE {}]
  <2>1. fts_ = [f \in Frames |-> {}] /\ new # last_frame_
    BY <1>1 DEF NoMap
  <2> QED BY <1>1, <1>2, <1>4, <2>1 DEF Finish, WithoutLast, TypesInv
<1>6. /\ \A p \in points : type_'[p] = "unknown" /\ obs_'[p] = <<ref, new>>
      /\ \A p \in Points \ points : type_'[p] = type_[p] /\ obs_'[p] = obs_[p]
                                    /\ type_[p] \in {"none", "candidate"}
  BY <1>1, <1>2, <1>4 DEF NoMap
<1>7. PICK key \in ChosenFrom(points) : key_pts_' = [key_pts_ EXCEPT ![new] = key]
  BY <1>2
<1>8. key \in Points \cup {NoPoint} /\ (key # NoPoint => key \in points)
  BY <1>7 DEF ChosenFrom
<1>9. TypesInv'
  <2>1. type_' \in [Points -> PointTypes] /\ obs_' \in [Points -> Seq(Frames)]
    BY <1>1, <1>2, <1>4 DEF TypesInv, PointTypes
  <2>2. key_pts_' \in [Frames -> Points \cup {NoPoint}] /\ fts_' \in [Frames -> SUBSET Points]
    BY <1>1, <1>5, <1>7, <1>8 DEF TypesInv
  <2> QED BY <1>1, <1>3, <2>1, <2>2 DEF TypesInv, EmptyLists, PCs, Stages, FrameOrNull
<1>10. ControlInv'
  BY <1>1, <1>3 DEF ControlInv, Working
<1>11. ToSet(<<ref, new>>) = {ref, new} /\ Len(<<ref, new>>) = 2 /\ Distinct(<<ref, new>>)
  BY <1>4 DEF ToSet, Distinct
<1>12. Linked' = Frames /\ Held' = Frames
  BY <1>3, FramesAssumption DEF Linked, Held
<1>13. LinksInv' /\ DistinctViews'
  <2>1. \A p \in points : /\ Observers(p)' = {ref, new}
                           /\ Len(obs_'[p]) = 2 /\ Distinct(obs_'[p])
    BY <1>6, <1>11 DEF Observers
  <2>2. \A f \in Frames : fts_'[f] = IF f \in {ref, new} THEN points ELSE {}
    BY <1>5
  <2>3. \A p \in Points : Shared(p)' <=> p \in points
    BY <1>4, <1>6 DEF Shared
  <2>4. LinksInv'
    BY <1>1, <1>4, <1>12, <2>1, <2>2, <2>3 DEF LinksInv
  <2>5. DistinctViews'
    BY <2>1, <2>3 DEF DistinctViews
  <2> QED BY <2>4, <2>5
<1>14. CandidatesInv' /\ CandidatesListed' /\ TrashExact'
  <2>1. \A c \in candidates_ : c[1] \in Points /\ c[2] \in Frames /\ c[1] \notin points
    BY <1>1 DEF CandidatesInv, TypesInv
  <2>2. CandidatesInv'
    BY <1>1, <1>6, <1>12, <2>1 DEF CandidatesInv
  <2>3. CandidatesListed'
    BY <1>1, <1>6 DEF CandidatesListed, CandidatePoints
  <2>4. TrashExact'
    BY <1>1, <1>6 DEF TrashExact, EmptyLists
  <2> QED BY <2>2, <2>3, <2>4
<1>15. KeyPointsInv'
  BY <1>1, <1>3, <1>4, <1>5, <1>7, <1>8 DEF KeyPointsInv, NoMap, TypesInv
<1>16. OthersEmpty' /\ FilterInv'
  BY <1>1, <1>12 DEF OthersEmpty, FilterInv, TypesInv
<1>17. FeaturesUsable'
  BY <1>1, <1>3, <1>5, <1>6 DEF FeaturesUsable, Live
<1> QED BY <1>9, <1>10, <1>13, <1>14, <1>15, <1>16, <1>17 DEF Inv, GraphInv

(* The key points after removeKeyPoint.                                     *)
LEMMA KeyPointsRemoved ==
  ASSUME TypesInv, NEW lost \in SUBSET (Frames \X Points), RemoveKeyPoints(lost)
  PROVE  /\ key_pts_' \in [Frames -> Points \cup {NoPoint}]
         /\ \A f \in Frames : key_pts_'[f] # NoPoint =>
              /\ key_pts_[f] # NoPoint
              /\ \/ key_pts_'[f] \in fts_'[f]
                 \/ key_pts_'[f] = key_pts_[f] /\ <<f, key_pts_[f]>> \notin lost
<1>1. /\ key_pts_' \in [Frames -> Points \cup {NoPoint}]
      /\ \A f \in Frames : IF <<f, key_pts_[f]>> \in lost
                           THEN key_pts_'[f] \in ChosenFrom(fts_'[f])
                           ELSE key_pts_'[f] = key_pts_[f]
  <2> DEFINE bare == {f \in Frames : <<f, key_pts_[f]>> \in lost}
  <2>1. PICK key \in [bare -> Points \cup {NoPoint}] :
          /\ \A f \in bare : key[f] \in ChosenFrom(fts_'[f])
          /\ key_pts_' = [f \in Frames |-> IF f \in bare THEN key[f] ELSE key_pts_[f]]
    BY DEF RemoveKeyPoints
  <2>2. \A f \in Frames : key_pts_[f] \in Points \cup {NoPoint}
    BY DEF TypesInv
  <2> QED BY <2>1, <2>2
<1>2. ASSUME NEW f \in Frames, key_pts_'[f] # NoPoint
      PROVE  /\ key_pts_[f] # NoPoint
             /\ \/ key_pts_'[f] \in fts_'[f]
                \/ key_pts_'[f] = key_pts_[f] /\ <<f, key_pts_[f]>> \notin lost
  <2>1. CASE <<f, key_pts_[f]>> \in lost
    BY <1>1, <1>2, <2>1, PointsAssumption DEF ChosenFrom
  <2>2. CASE <<f, key_pts_[f]>> \notin lost
    BY <1>1, <1>2, <2>2
  <2> QED BY <2>1, <2>2
<1> QED BY <1>1, <1>2

LEMMA ReprojectInv ==
  ASSUME Inv, ReprojectMap PROVE Inv'
<1> DEFINE new == new_frame_
<1>1. /\ TypesInv /\ ControlInv /\ GraphInv
      /\ pc = "reproject" /\ pc' = "decide"
      /\ new \in Frames /\ new \notin keyframes_ /\ new # last_frame_
      /\ UNCHANGED <<keyframes_, stage_, frames, filter>>
  BY DEF ReprojectMap, Inv, ControlInv, Working
<1>2. PICK found \in SUBSET Projected,
           gone \in SUBSET {p \in Projected : type_[p] = "unknown"},
           dropped \in SUBSET {p \in Projected : type_[p] = "candidate"},
           promoted \in SUBSET {p \in Projected : type_[p] = "unknown"} :
        /\ (gone \cup dropped) \cap found = {} /\ promoted \subseteq found
        /\ DeletePoints(gone, dropped, new, found)
        /\ type_' = [p \in Points |-> IF p \in gone \cup dropped THEN "deleted"
                                      ELSE IF p \in promoted THEN "good" ELSE type_[p]]
  <2>1. PICK found \in SUBSET Projected :
          \E gone \in SUBSET {p \in NotFound(found) : type_[p] = "unknown"},
             dropped \in SUBSET {p \in NotFound(found) : type_[p] = "candidate"},
             promoted \in SUBSET {p \in found : type_[p] = "unknown"} :
            /\ DeletePoints(gone, dropped, new_frame_, found)
            /\ type_' = [p \in Points |-> IF p \in gone \cup dropped THEN "deleted"
                                          ELSE IF p \in promoted THEN "good" ELSE type_[p]]
    BY DEF ReprojectMap
  <2>2. PICK gone \in SUBSET {p \in NotFound(found) : type_[p] = "unknown"},
             dropped \in SUBSET {p \in NotFound(found) : type_[p] = "candidate"},
             promoted \in SUBSET {p \in found : type_[p] = "unknown"} :
            /\ DeletePoints(gone, dropped, new_frame_, found)
            /\ type_' = [p \in Points |-> IF p \in gone \cup dropped THEN "deleted"
                                          ELSE IF p \in promoted THEN "good" ELSE type_[p]]
    BY <2>1
  <2>3. /\ gone \in SUBSET {p \in Projected : type_[p] = "unknown"}
        /\ dropped \in SUBSET {p \in Projected : type_[p] = "candidate"}
        /\ promoted \in SUBSET {p \in Projected : type_[p] = "unknown"}
        /\ (gone \cup dropped) \cap found = {} /\ promoted \subseteq found
    BY DEF NotFound
  <2> QED BY <2>2, <2>3, SMTT(30)
<1>3. /\ MapFrames = keyframes_ /\ MapFrames' = keyframes_ /\ keyframes_ \subseteq Frames
      /\ keyframes_ \subseteq Linked /\ new \notin Linked /\ Linked \subseteq Frames
      /\ Linked' = Linked /\ Held' = Held
  <2>1. MapFrames = keyframes_ /\ MapFrames' = keyframes_ /\ keyframes_ \subseteq Frames
    BY <1>1 DEF MapFrames, TypesInv
  <2> QED BY <1>1, <2>1 DEF Linked, Held, frames
<1>4. Projected \subseteq Points /\ \A p \in Projected : Live(p)
  <2>1. ASSUME NEW p \in CandidatePoints PROVE p \in Points /\ Live(p)
    BY <1>1 DEF CandidatePoints, TypesInv, GraphInv, CandidatesInv, Live
  <2>2. ASSUME NEW f \in keyframes_, NEW p \in fts_[f] PROVE p \in Points /\ Live(p)
    BY <1>1, <1>3 DEF TypesInv, GraphInv, LinksInv, Shared, Live
  <2>3. \A p \in Projected : p \in CandidatePoints \/ \E f \in keyframes_ : p \in fts_[f]
    BY DEF Projected
  <2> QED BY <2>1, <2>2, <2>3
<1>5. /\ fts_' = [[f \in Frames |-> fts_[f] \ {p \in gone : f \in Observers(p)}]
                    EXCEPT ![new] = found]
      /\ RemoveKeyPoints({o \in Frames \X gone : o[1] \in Observers(o[2])})
      /\ obs_' = [p \in Points |-> IF p \in gone THEN <<>> ELSE obs_[p]]
      /\ candidates_' = {c \in candidates_ : c[1] \notin dropped}
      /\ trash_points_' = [p \in Points |-> trash_points_[p] + Times(p, gone) + Times(p, dropped)]
  BY <1>2 DEF DeletePoints, Push
<1>6. /\ fts_' \in [Frames -> SUBSET Points] /\ fts_'[new] = found
      /\ \A f \in Linked : fts_'[f] = fts_[f] \ gone
      /\ \A f \in Frames : fts_'[f] # {} => f = new \/ fts_[f] # {}
  <2>1. /\ fts_' \in [Frames -> SUBSET Points] /\ fts_'[new] = found
        /\ \A f \in Frames \ {new} : fts_'[f] = fts_[f] \ {p \in gone : f \in Observers(p)}
    BY <1>1, <1>2, <1>4, <1>5 DEF TypesInv
  <2>2. ASSUME NEW f \in Linked, NEW p \in fts_[f] PROVE f \in Observers(p)
    BY <1>1, <1>3 DEF GraphInv, LinksInv
  <2> QED BY <1>1, <1>3, <2>1, <2>2
<1>7. /\ \A p \in Points : type_'[p] = "deleted" <=> p \in gone \cup dropped \/ type_[p] = "deleted"
      /\ \A p \in Points : type_'[p] = "candidate" <=> type_[p] = "candidate" /\ p \notin dropped
      /\ \A p \in Points : type_'[p] \in {"unknown", "good"} <=>
                            type_[p] \in {"unknown", "good"} /\ p \notin gone
      /\ type_' \in [Points -> PointTypes]
  BY <1>1, <1>2, <1>4 DEF TypesInv, PointTypes
<1>8. \A p \in Points : p \notin gone => obs_'[p] = obs_[p]
  BY <1>5
<1>9. /\ key_pts_' \in [Frames -> Points \cup {NoPoint}]
      /\ \A f \in Frames : key_pts_'[f] # NoPoint =>
            /\ key_pts_[f] # NoPoint
            /\ \/ key_pts_'[f] \in fts_'[f]
               \/ /\ key_pts_'[f] = key_pts_[f]
                  /\ key_pts_[f] \in gone => f \notin Observers(key_pts_[f])
  <2> DEFINE lost == {o \in Frames \X gone : o[1] \in Observers(o[2])}
  <2>1. lost \in SUBSET (Frames \X Points)
    BY <1>2, <1>4
  <2>2. RemoveKeyPoints(lost)
    BY <1>5
  <2>3. \A f \in Frames : <<f, key_pts_[f]>> \notin lost /\ key_pts_[f] \in gone =>
                          f \notin Observers(key_pts_[f])
    OBVIOUS
  <2> HIDE DEF lost
  <2> QED BY <1>1, <2>1, <2>2, <2>3, KeyPointsRemoved
<1>10. TypesInv'
  <2>1. obs_' \in [Points -> Seq(Frames)]
    BY <1>1, <1>5 DEF TypesInv
  <2>2. candidates_' \subseteq Points \X Frames /\ trash_points_' \in [Points -> Nat]
    BY <1>1, <1>5 DEF TypesInv, Times
  <2> QED BY <1>1, <1>6, <1>7, <1>9, <2>1, <2>2 DEF TypesInv, PCs, frames, filter
<1>11. ControlInv'
  BY <1>1 DEF ControlInv, Working, frames
<1>12. LinksInv' /\ DistinctViews'
  BY <1>1, <1>3, <1>6, <1>7, <1>8 DEF GraphInv, TypesInv, LinksInv, DistinctViews, Shared,
     Observers
<1>13. CandidatesInv' /\ CandidatesListed' /\ TrashExact'
  <2>1. CandidatesInv'
    BY <1>1, <1>2, <1>3, <1>5, <1>7, <1>8 DEF GraphInv, TypesInv, CandidatesInv
  <2>2. CandidatesListed'
    BY <1>1, <1>5, <1>7 DEF GraphInv, CandidatesListed, CandidatePoints
  <2>3. TrashExact'
    <3>1. gone \cap dropped = {} /\ \A p \in gone \cup dropped : type_[p] # "deleted"
      BY <1>2
    <3> QED BY <1>1, <1>5, <1>7, <3>1 DEF GraphInv, TrashExact, Times
  <2> QED BY <2>1, <2>2, <2>3
<1>14. KeyPointsInv' /\ OthersEmpty'
  <2>1. \A f \in Frames : key_pts_[f] # NoPoint =>
          f \in keyframes_ /\ key_pts_[f] \in fts_[f] /\ f \in Observers(key_pts_[f])
    BY <1>1, <1>3 DEF GraphInv, KeyPointsInv, LinksInv
  <2>2. KeyPointsInv'
    BY <1>3, <1>6, <1>9, <2>1 DEF KeyPointsInv
  <2> QED BY <1>1, <1>3, <1>6, <2>2 DEF GraphInv, OthersEmpty, frames
<1>15. FilterInv' /\ FeaturesUsable'
  <2>1. \A p \in found : Live(p)'
    BY <1>2, <1>4, <1>7 DEF Live
  <2> QED BY <1>1, <1>3, <1>6, <2>1 DEF GraphInv, FilterInv, FeaturesUsable, frames, filter
<1> QED BY <1>10, <1>11, <1>12, <1>13, <1>14, <1>15 DEF Inv, GraphInv

LEMMA SelectInv ==
  ASSUME Inv, SelectKeyframe PROVE Inv'
<1> DEFINE new == new_frame_
<1>1. /\ TypesInv /\ ControlInv /\ GraphInv
      /\ pc = "decide" /\ pc' \in {"remove", "add"}
      /\ new \in Frames /\ new \notin keyframes_ /\ new # last_frame_
      /\ given' = given \cup {new}
      /\ UNCHANGED <<keyframes_, trash_points_, stage_, frames, seeded, late>>
  BY DEF SelectKeyframe, Filter!Give, Inv, ControlInv, Working
<1>2. PICK points \in SUBSET fts_[new] : MakeKeyframe(new, points)
  BY DEF SelectKeyframe, Inliers
<1> DEFINE seen == {c \in candidates_ : c[1] \in points}
<1>3. /\ fts_' = [f \in Frames |-> (IF f = new THEN points ELSE fts_[f])
                                    \cup {c[1] : c \in {s \in seen : s[2] = f}}]
      /\ key_pts_' \in {[key_pts_ EXCEPT ![new] = p] : p \in ChosenFrom(points)}
      /\ obs_' = [p \in Points |-> IF p \in points THEN <<new>> \o obs_[p] ELSE obs_[p]]
      /\ type_' = [p \in Points |-> IF \E c \in seen : c[1] = p THEN "unknown" ELSE type_[p]]
      /\ candidates_' = candidates_ \ seen
  BY <1>2 DEF MakeKeyframe, Seen, TakenOver
<1>4. /\ MapFrames = keyframes_ /\ MapFrames' = keyframes_ \cup {new} /\ keyframes_ \subseteq Frames
      /\ keyframes_ \subseteq Linked /\ new \notin Linked /\ Linked \subseteq Frames
      /\ Held = Linked /\ Linked' = Linked \cup {new} /\ Linked' \subseteq Held'
  <2>1. MapFrames = keyframes_ /\ MapFrames' = keyframes_ \cup {new} /\ keyframes_ \subseteq Frames
    BY <1>1 DEF MapFrames, TypesInv, frames
  <2>2. /\ keyframes_ \subseteq Linked /\ new \notin Linked /\ Linked \subseteq Frames
        /\ Held = Linked
    BY <1>1, <2>1 DEF Linked, Held
  <2>3. Linked' = Linked \cup {new}
    BY <1>1, <2>1 DEF Linked, frames
  <2>4. Linked' \subseteq Held'
    BY DEF Held
  <2> QED BY <2>1, <2>2, <2>3, <2>4
<1>5. points \subseteq Points /\ \A p \in points : Live(p)
  BY <1>1, <1>2 DEF TypesInv, GraphInv, FeaturesUsable
<1>6. \A c \in candidates_ : /\ c[1] \in Points /\ type_[c[1]] = "candidate"
                             /\ obs_[c[1]] = <<c[2]>> /\ c[2] \in Linked
  BY <1>1, <1>4 DEF GraphInv, CandidatesInv, TypesInv
<1>7. \A p \in Points : type_[p] = "candidate" => \E c \in candidates_ : c[1] = p
  BY <1>1 DEF GraphInv, CandidatesListed, CandidatePoints
<1>8. \A p \in Points : (\E c \in seen : c[1] = p) <=> (p \in points /\ type_[p] = "candidate")
  BY <1>6, <1>7
<1>9. /\ \A p \in Points : type_'[p] = IF p \in points /\ type_[p] = "candidate" THEN "unknown"
                                       ELSE type_[p]
      /\ type_' \in [Points -> PointTypes]
  BY <1>1, <1>3, <1>8 DEF TypesInv, PointTypes
<1>10. /\ fts_' \in [Frames -> SUBSET Points] /\ fts_'[new] = points
       /\ \A f \in Frames \ {new}, p \in Points :
             p \in fts_'[f] <=> p \in fts_[f] \/ (p \in points /\ <<p, f>> \in candidates_)
       /\ \A f \in Frames \ {new} : fts_'[f] # fts_[f] => f \in Linked
  <2>1. ASSUME NEW f \in Frames
        PROVE  {c[1] : c \in {s \in seen : s[2] = f}} = {p \in points : <<p, f>> \in candidates_}
    <3>1. \A c \in candidates_ : c = <<c[1], c[2]>>
      BY <1>1 DEF TypesInv
    <3> QED BY <3>1
  <2>2. \A f \in Frames : fts_'[f] = (IF f = new THEN points ELSE fts_[f])
                                    \cup {p \in points : <<p, f>> \in candidates_}
    BY <1>3, <2>1
  <2>3. \A p \in Points, f \in Frames : <<p, f>> \in candidates_ => f \in Linked
    BY <1>6
  <2>4. fts_' \in [Frames -> SUBSET Points]
    <3>1. \A f \in Frames : fts_'[f] \subseteq Points
      BY <1>1, <1>5, <2>2 DEF TypesInv
    <3>2. fts_' = [f \in Frames |-> fts_'[f]]
      BY <1>3
    <3> QED BY <3>1, <3>2
  <2> HIDE DEF seen
  <2>5. fts_'[new] = points
    BY <1>1, <1>5, <2>2, <2>3
  <2> QED BY <1>1, <1>5, <2>2, <2>3, <2>4, <2>5
<1>11. \A p \in Points : p \notin points => obs_'[p] = obs_[p]
  BY <1>3
<1>12. \A p \in points : new \notin Observers(p)
  <2>1. ASSUME NEW p \in points PROVE new \notin Observers(p)
    <3>1. CASE type_[p] = "candidate"
      <4>1. PICK c \in candidates_ : c[1] = p
        BY <1>5, <1>7, <3>1
      <4>2. Observers(p) = {c[2]} /\ c[2] \in Linked
        BY <1>6, <4>1, ToSetOne DEF Observers
      <4> QED BY <1>4, <4>2
    <3>2. CASE Shared(p)
      BY <1>1, <1>4, <1>5, <3>2 DEF GraphInv, LinksInv, Shared
    <3> QED BY <1>5, <3>1, <3>2 DEF Live, Shared
  <2> QED BY <2>1
<1>13. \A p \in points : /\ Observers(p)' = {new} \cup Observers(p)
                         /\ obs_'[p] \in Seq(Frames) /\ Len(obs_'[p]) = Len(obs_[p]) + 1
                         /\ Distinct(obs_[p]) => Distinct(obs_'[p])
  <2>1. ASSUME NEW p \in points
        PROVE  /\ Observers(p)' = {new} \cup Observers(p)
               /\ obs_'[p] \in Seq(Frames) /\ Len(obs_'[p]) = Len(obs_[p]) + 1
               /\ Distinct(obs_[p]) => Distinct(obs_'[p])
    <3>1. obs_[p] \in Seq(Frames) /\ obs_'[p] = <<new>> \o obs_[p]
      BY <1>1, <1>3, <1>5, <2>1 DEF TypesInv
    <3> QED BY <1>1, <1>12, <3>1, PushFront DEF Observers
  <2> QED BY <2>1
<1>14. \A p \in points : type_[p] = "candidate" =>
         /\ Len(obs_[p]) = 1 /\ Distinct(obs_[p])
         /\ \A f \in Observers(p) : f \in Linked /\ <<p, f>> \in candidates_
  <2>1. ASSUME NEW c \in candidates_
        PROVE  /\ Len(obs_[c[1]]) = 1 /\ Distinct(obs_[c[1]])
               /\ Observers(c[1]) = {c[2]} /\ <<c[1], c[2]>> \in candidates_
    <3>1. c = <<c[1], c[2]>>
      BY <1>1, <2>1 DEF TypesInv
    <3> QED BY <1>6, <2>1, <3>1, ToSetOne DEF Observers
  <2>2. ASSUME NEW p \in points, type_[p] = "candidate"
        PROVE  /\ Len(obs_[p]) = 1 /\ Distinct(obs_[p])
               /\ \A f \in Observers(p) : f \in Linked /\ <<p, f>> \in candidates_
    <3>1. PICK c \in candidates_ : c[1] = p
      BY <1>5, <1>7, <2>2
    <3> QED BY <1>6, <2>1, <3>1
  <2> QED BY <2>2
<1> HIDE DEF seen
<1>15. PICK key \in ChosenFrom(points) : key_pts_' = [key_pts_ EXCEPT ![new] = key]
  BY <1>3
<1>16. key \in Points \cup {NoPoint} /\ (key # NoPoint => key \in points)
  BY <1>5, <1>15 DEF ChosenFrom
<1>17. TypesInv'
  <2>1. obs_' \in [Points -> Seq(Frames)]
    <3>1. \A p \in Points : obs_'[p] \in Seq(Frames)
      BY <1>1, <1>11, <1>13 DEF TypesInv
    <3>2. obs_' = [p \in Points |-> obs_'[p]]
      BY <1>3
    <3> QED BY <3>1, <3>2
  <2>2. key_pts_' \in [Frames -> Points \cup {NoPoint}]
    BY <1>1, <1>15, <1>16 DEF TypesInv
  <2> QED BY <1>1, <1>3, <1>9, <1>10, <2>1, <2>2 DEF TypesInv, PCs, frames
<1>18. ControlInv'
  BY <1>1 DEF ControlInv, Working, frames
<1>19. LinksInv'
  <2>1. ASSUME NEW f \in Linked', NEW p \in fts_'[f]
        PROVE  Shared(p)' /\ f \in Observers(p)'
    <3>1. f \in Frames /\ p \in Points
      BY <1>1, <1>4, <1>10, <2>1
    <3>2. CASE f = new
      BY <1>5, <1>9, <1>10, <1>13, <2>1, <3>2 DEF Live, Shared
    <3>3. CASE f # new /\ p \in fts_[f]
      <4>1. Shared(p) /\ f \in Observers(p)
        BY <1>1, <1>4, <2>1, <3>3 DEF GraphInv, LinksInv, Shared
      <4>2. f \in Observers(p)'
        BY <1>11, <1>13, <3>1, <4>1 DEF Observers
      <4> QED BY <1>9, <3>1, <4>1, <4>2 DEF Shared
    <3>4. CASE f # new /\ p \in points /\ <<p, f>> \in candidates_
      <4>1. type_[p] = "candidate" /\ obs_[p] = <<f>>
        BY <1>6, <3>4
      <4> QED BY <1>9, <1>13, <3>1, <3>4, <4>1, ToSetOne, ZenonT(40) DEF Observers, Shared
    <3> QED BY <1>10, <2>1, <3>1, <3>2, <3>3, <3>4
  <2>2. ASSUME NEW p \in Points, Shared(p)', NEW f \in Observers(p)'
        PROVE  f \in Linked' /\ p \in fts_'[f]
    <3>1. CASE p \in points /\ f = new
      BY <1>4, <1>10, <3>1
    <3>2. CASE p \in points /\ f # new /\ type_[p] = "candidate"
      <4>1. f \in Observers(p)
        BY <1>13, <2>2, <3>2
      <4> QED BY <1>1, <1>4, <1>10, <1>14, <2>2, <3>2, <4>1
    <3>3. CASE Shared(p) /\ (p \in points => f # new)
      <4>1. f \in Observers(p)
        BY <1>11, <1>13, <2>2, <3>3 DEF Observers
      <4>2. f \in Linked /\ p \in fts_[f]
        BY <1>1, <1>4, <3>3, <4>1 DEF GraphInv, LinksInv, Shared
      <4> QED BY <1>1, <1>4, <1>10, <2>2, <4>2
    <3>4. Shared(p) \/ (p \in points /\ type_[p] = "candidate")
      BY <1>9, <2>2 DEF Shared
    <3> QED BY <3>1, <3>2, <3>3, <3>4
  <2> QED BY <2>1, <2>2 DEF LinksInv
<1>20. DistinctViews'
  <2>1. ASSUME NEW p \in Points, Shared(p)' PROVE Len(obs_'[p]) >= 2 /\ Distinct(obs_'[p])
    <3>1. CASE Shared(p)
      <4>1. Len(obs_[p]) >= 2 /\ Distinct(obs_[p]) /\ Len(obs_[p]) \in Nat
        BY <1>1, <3>1 DEF GraphInv, DistinctViews, TypesInv
      <4> QED BY <1>11, <1>13, <2>1, <4>1
    <3>2. CASE p \in points /\ type_[p] = "candidate"
      <4>1. Len(obs_[p]) = 1 /\ Distinct(obs_[p])
        BY <1>14, <3>2
      <4>2. Len(obs_'[p]) = Len(obs_[p]) + 1 /\ (Distinct(obs_[p]) => Distinct(obs_'[p]))
        BY <1>13, <3>2
      <4> QED BY <4>1, <4>2
    <3> QED BY <1>9, <2>1, <3>1, <3>2 DEF Shared
  <2> QED BY <2>1 DEF DistinctViews
<1>21. CandidatesInv' /\ CandidatesListed' /\ TrashExact'
  <2>1. candidates_' = {c \in candidates_ : c[1] \notin points}
    BY <1>3 DEF seen
  <2>2. CandidatesInv'
    BY <1>4, <1>6, <1>9, <1>11, <2>1 DEF CandidatesInv
  <2>3. CandidatesListed'
    BY <1>7, <1>9, <2>1 DEF CandidatesListed, CandidatePoints
  <2>4. TrashExact'
    BY <1>1, <1>9 DEF GraphInv, TrashExact
  <2> QED BY <2>2, <2>3, <2>4
<1>22. KeyPointsInv'
  <2>1. ASSUME NEW f \in Frames, key_pts_'[f] # NoPoint
        PROVE  f \in MapFrames' /\ key_pts_'[f] \in fts_'[f]
    <3>1. CASE f = new
      BY <1>1, <1>4, <1>10, <1>15, <1>16, <2>1, <3>1 DEF TypesInv
    <3>2. CASE f # new
      <4>1. key_pts_'[f] = key_pts_[f] /\ key_pts_[f] \in Points
        BY <1>1, <1>15, <2>1, <3>2 DEF TypesInv
      <4>2. f \in keyframes_ /\ key_pts_[f] \in fts_[f]
        BY <1>1, <1>4, <2>1, <4>1 DEF GraphInv, KeyPointsInv
      <4> QED BY <1>4, <1>10, <3>2, <4>1, <4>2
    <3> QED BY <3>1, <3>2
  <2> QED BY <2>1 DEF KeyPointsInv
<1>23. OthersEmpty'
  BY <1>1, <1>4, <1>10 DEF GraphInv, OthersEmpty, frames
<1>24. FilterInv' /\ FeaturesUsable'
  <2>1. \A p \in points : Live(p)'
    BY <1>5, <1>9 DEF Live
  <2> QED BY <1>1, <1>4, <1>10, <2>1 DEF GraphInv, FilterInv, FeaturesUsable, frames
<1> QED BY <1>17, <1>18, <1>19, <1>20, <1>21, <1>22, <1>23, <1>24 DEF Inv, GraphInv

LEMMA FurthestInv ==
  ASSUME Inv, RemoveFurthest PROVE Inv'
<1>1. PICK f \in keyframes_ : furthest' = f /\ seeded' = seeded \ {f} /\ given' = given
  BY DEF RemoveFurthest, Filter!Erase
<1>2. /\ pc = "remove" /\ pc' = "erase"
      /\ UNCHANGED <<mapVars, stage_, last_frame_, new_frame_, given, late>>
  BY DEF RemoveFurthest, Filter!Erase
<1>3. TypesInv /\ ControlInv /\ GraphInv
  BY DEF Inv
<1>4. MapFrames' = MapFrames /\ Linked' = Linked /\ Held' = Held
  <2>1. MapFrames' = MapFrames
    BY <1>2 DEF MapFrames, mapVars
  <2> QED BY <1>2, <2>1 DEF Linked, Held
<1>5. TypesInv' /\ ControlInv'
  BY <1>1, <1>2, <1>3 DEF TypesInv, ControlInv, Working, NoMap, PCs, FrameOrNull, mapVars, graph
<1>6. LinksInv' /\ DistinctViews' /\ CandidatesInv' /\ CandidatesListed' /\ TrashExact'
  BY <1>2, <1>3, <1>4
  DEF GraphInv, LinksInv, DistinctViews, Shared, Observers, CandidatesInv,
      CandidatesListed, CandidatePoints, TrashExact, mapVars, graph
<1>7. KeyPointsInv' /\ OthersEmpty' /\ FilterInv'
  BY <1>1, <1>2, <1>3, <1>4
  DEF GraphInv, KeyPointsInv, OthersEmpty, FilterInv, mapVars, graph
<1>8. FeaturesUsable'
  BY <1>2, <1>3 DEF GraphInv, FeaturesUsable, Live, mapVars, graph
<1> QED BY <1>5, <1>6, <1>7, <1>8 DEF Inv, GraphInv

LEMMA EraseInv ==
  ASSUME Inv, EraseFurthest PROVE Inv'
<1> DEFINE new == new_frame_
           kf == furthest
           gone == {p \in fts_[kf] : TooFewViews(p)}
           lost == {o \in Frames \X fts_[kf] :
                      o[1] = kf \/ (o[2] \in gone /\ o[1] \in Observers(o[2]))}
           dropped == CandidatesOf(kf)
<1>1. /\ TypesInv /\ ControlInv /\ GraphInv
      /\ pc = "erase" /\ pc' = "add"
      /\ new \in Frames /\ new \notin keyframes_ /\ new # last_frame_
      /\ kf \in keyframes_ /\ keyframes_ \subseteq Frames /\ kf # new
      /\ late' \subseteq late \cup {kf}
      /\ UNCHANGED <<stage_, frames, given, seeded>>
  BY DEF EraseFurthest, Inv, ControlInv, Working, TypesInv
<1>2. /\ keyframes_' = keyframes_ \ {kf}
      /\ fts_' = [g \in Frames |-> {p \in fts_[g] : <<g, p>> \notin lost}]
      /\ RemoveKeyPoints(lost)
      /\ obs_' = [p \in Points |-> IF p \in gone THEN <<>>
                                   ELSE IF p \in fts_[kf] THEN RemoveFirst(obs_[p], kf)
                                   ELSE obs_[p]]
      /\ candidates_' = candidates_ \ dropped
      /\ Trash(gone, {c[1] : c \in dropped})
  BY DEF EraseFurthest, SafeDeleteFrame
<1>3. /\ MapFrames = keyframes_ \cup {new} /\ MapFrames' = MapFrames \ {kf}
      /\ kf \in Linked /\ new \in Linked' /\ Linked \subseteq Frames /\ Held = Linked
      /\ Linked' \subseteq Linked /\ Linked \ {kf} \subseteq Linked'
      /\ Linked \subseteq Held'
  <2>1. MapFrames = keyframes_ \cup {new} /\ MapFrames' = MapFrames \ {kf}
    BY <1>1, <1>2 DEF MapFrames, frames
  <2>2. Linked = Frames \ ({last_frame_} \ MapFrames)
    BY <2>1 DEF Linked
  <2>3. Linked' = Frames \ ({last_frame_} \ (MapFrames \ {kf}))
    BY <1>1, <2>1 DEF Linked, frames
  <2>4. Held = Linked /\ Held' = Linked' \cup {last_frame_}
    BY <1>1 DEF Held, frames
  <2> QED BY <1>1, <2>1, <2>2, <2>3, <2>4
<1>4. /\ fts_[kf] \subseteq Points /\ gone \subseteq fts_[kf]
      /\ \A p \in fts_[kf] : Shared(p)
  BY <1>1, <1>3 DEF TypesInv, GraphInv, LinksInv, Shared
<1>5. \A p \in Points : Shared(p) =>
        \A f \in Frames : f \in Observers(p) <=> f \in Linked /\ p \in fts_[f]
  BY <1>1, <1>3 DEF GraphInv, LinksInv, Shared
<1>6. \A c \in candidates_ : /\ c[1] \in Points /\ type_[c[1]] = "candidate"
                             /\ obs_[c[1]] = <<c[2]>> /\ c[2] \in Linked
  BY <1>1, <1>3 DEF TypesInv, GraphInv, CandidatesInv
<1> DEFINE unsupported == {c[1] : c \in dropped}
<1>7. /\ unsupported \subseteq Points
      /\ \A p \in unsupported : type_[p] = "candidate"
      /\ \A c \in candidates_ : c[1] \in unsupported <=> c[2] = kf
  <2>1. dropped = {c \in candidates_ : c[2] = kf}
    BY DEF CandidatesOf
  <2>2. \A c, d \in candidates_ : c[1] = d[1] => c[2] = d[2]
    <3>1. ASSUME NEW c \in candidates_, NEW d \in candidates_, c[1] = d[1] PROVE c[2] = d[2]
      <4>1. <<c[2]>> = <<d[2]>>
        BY <1>6, <3>1
      <4> QED BY <4>1
    <3> QED BY <3>1
  <2> QED BY <1>6, <2>1, <2>2
<1>8. /\ \A p \in Points : type_'[p] = IF p \in gone \cup unsupported THEN "deleted" ELSE type_[p]
      /\ type_' \in [Points -> PointTypes]
      /\ trash_points_' =
           [p \in Points |-> trash_points_[p] + Times(p, gone) + Times(p, unsupported)]
  BY <1>1, <1>2 DEF Trash, Push, TypesInv, PointTypes
<1>9. \A p \in Points : Shared(p)' <=> Shared(p) /\ p \notin gone
  BY <1>7, <1>8 DEF Shared
<1>10. /\ fts_' \in [Frames -> SUBSET Points]
       /\ \A f \in Frames : fts_'[f] \subseteq fts_[f]
       /\ fts_'[kf] = {}
       /\ \A f \in Linked \ {kf} : fts_'[f] = fts_[f] \ gone
  <2>1. \A f \in Frames : fts_'[f] = {p \in fts_[f] : <<f, p>> \notin lost}
    BY <1>2
  <2>2. \A f \in Frames : fts_'[f] \subseteq fts_[f]
    BY <2>1
  <2>3. fts_' \in [Frames -> SUBSET Points]
    <3>1. fts_' = [f \in Frames |-> fts_'[f]]
      BY <1>2
    <3> QED BY <1>1, <2>2, <3>1 DEF TypesInv
  <2>4. fts_'[kf] = {}
    BY <1>1, <2>1
  <2>5. ASSUME NEW f \in Linked \ {kf}, NEW p \in fts_[f] PROVE <<f, p>> \in lost <=> p \in gone
    <3>1. f \in Frames /\ f # kf /\ f \in Linked /\ p \in Points
      BY <1>1, <1>3, <2>5 DEF TypesInv
    <3>2. p \in fts_[kf] => f \in Observers(p)
      BY <1>4, <1>5, <2>5, <3>1
    <3> QED BY <1>4, <3>1, <3>2
  <2> HIDE DEF lost
  <2>6. \A f \in Linked \ {kf} : fts_'[f] = fts_[f] \ gone
    BY <1>3, <2>1, <2>5
  <2> QED BY <2>2, <2>3, <2>4, <2>6
<1>11. /\ key_pts_' \in [Frames -> Points \cup {NoPoint}]
       /\ \A f \in Frames : key_pts_'[f] # NoPoint =>
             /\ key_pts_[f] # NoPoint
             /\ \/ key_pts_'[f] \in fts_'[f]
                \/ key_pts_'[f] = key_pts_[f] /\ <<f, key_pts_[f]>> \notin lost
  <2>1. lost \in SUBSET (Frames \X Points)
    BY <1>4
  <2> HIDE DEF lost
  <2> QED BY <1>1, <1>2, <2>1, KeyPointsRemoved
<1>12. \A f \in Frames, p \in Points : p \in fts_[f] /\ <<f, p>> \notin lost => p \in fts_'[f]
  BY <1>2
<1>13. /\ \A p \in Points \ fts_[kf] : obs_'[p] = obs_[p]
       /\ \A p \in gone : obs_'[p] = <<>>
       /\ \A p \in fts_[kf] \ gone :
             /\ obs_'[p] \in Seq(Frames) /\ Observers(p)' = Observers(p) \ {kf}
             /\ Len(obs_'[p]) >= 2 /\ Distinct(obs_'[p])
  <2>1. ASSUME NEW p \in fts_[kf] \ gone
        PROVE  /\ obs_'[p] \in Seq(Frames) /\ Observers(p)' = Observers(p) \ {kf}
               /\ Len(obs_'[p]) >= 2 /\ Distinct(obs_'[p])
    <3>1. /\ obs_'[p] = RemoveFirst(obs_[p], kf) /\ obs_[p] \in Seq(Frames)
          /\ kf \in ToSet(obs_[p]) /\ p \in Points
      BY <1>1, <1>2, <1>3, <1>4, <1>5, <2>1 DEF TypesInv, Observers
    <3>2. Len(obs_[p]) \in Nat /\ Len(obs_[p]) > 2 /\ Distinct(obs_[p])
      BY <1>1, <1>4, <2>1, <3>1 DEF TooFewViews, GraphInv, DistinctViews
    <3>3. /\ obs_'[p] \in Seq(Frames) /\ Len(obs_'[p]) = Len(obs_[p]) - 1
          /\ ToSet(obs_'[p]) = ToSet(obs_[p]) \ {kf} /\ Distinct(obs_'[p])
      BY <3>1, <3>2, RemoveFromDistinct
    <3> QED BY <3>2, <3>3 DEF Observers
  <2> HIDE DEF gone
  <2> QED BY <1>2, <1>4, <2>1
<1>14. key_pts_'[kf] = NoPoint
  <2>1. key_pts_[kf] # NoPoint => key_pts_[kf] \in fts_[kf]
    BY <1>1 DEF GraphInv, KeyPointsInv
  <2>2. key_pts_[kf] # NoPoint => <<kf, key_pts_[kf]>> \in lost
    BY <1>1, <2>1
  <2> HIDE DEF lost
  <2> QED BY <1>1, <1>10, <1>11, <2>2
<1> HIDE DEF gone, lost, unsupported
<1>15. TypesInv'
  <2>1. obs_' \in [Points -> Seq(Frames)]
    <3>1. obs_' = [p \in Points |-> obs_'[p]]
      BY <1>2
    <3>2. ASSUME NEW p \in Points PROVE obs_'[p] \in Seq(Frames)
      <4>1. CASE p \notin fts_[kf]
        BY <1>1, <1>13, <4>1 DEF TypesInv
      <4>2. CASE p \in fts_[kf] \ gone
        BY <1>13, <4>2
      <4>3. CASE p \in gone
        <5>1. obs_'[p] = <<>>
          BY <1>13, <4>3
        <5> QED BY <5>1
      <4> QED BY <4>1, <4>2, <4>3
    <3> QED BY <3>1, <3>2
  <2>2. trash_points_' \in [Points -> Nat]
    BY <1>1, <1>8 DEF TypesInv, Times
  <2>3. candidates_' \subseteq Points \X Frames /\ late' \subseteq Frames
    BY <1>1, <1>2 DEF TypesInv
  <2> QED BY <1>1, <1>2, <1>8, <1>10, <1>11, <2>1, <2>2, <2>3 DEF TypesInv, PCs, frames
<1>16. ControlInv'
  BY <1>1, <1>2 DEF ControlInv, Working, frames
<1>17. LinksInv'
  <2>1. ASSUME NEW f \in Linked', NEW p \in fts_'[f]
        PROVE  Shared(p)' /\ f \in Observers(p)'
    <3>1. /\ f \in Linked /\ f \in Frames /\ f # kf
          /\ p \in fts_[f] /\ p \notin gone /\ p \in Points
      BY <1>1, <1>3, <1>10, <2>1
    <3>2. Shared(p) /\ f \in Observers(p)
      BY <1>1, <3>1 DEF GraphInv, LinksInv, Shared
    <3>3. f \in Observers(p)'
      BY <1>13, <3>1, <3>2 DEF Observers
    <3> QED BY <1>9, <3>1, <3>2, <3>3
  <2>2. ASSUME NEW p \in Points, Shared(p)', NEW f \in Observers(p)'
        PROVE  f \in Linked' /\ p \in fts_'[f]
    <3>1. Shared(p) /\ p \notin gone
      BY <1>9, <2>2
    <3>2. f \in Observers(p) /\ (p \in fts_[kf] => f # kf)
      BY <1>13, <2>2, <3>1 DEF Observers
    <3>3. f \in Linked /\ p \in fts_[f]
      BY <1>1, <3>1, <3>2 DEF GraphInv, LinksInv
    <3> QED BY <1>3, <1>10, <3>1, <3>2, <3>3
  <2> QED BY <2>1, <2>2 DEF LinksInv, Shared
<1>18. DistinctViews'
  <2>1. ASSUME NEW p \in Points, Shared(p)' PROVE Len(obs_'[p]) >= 2 /\ Distinct(obs_'[p])
    <3>1. Shared(p) /\ p \notin gone
      BY <1>9, <2>1
    <3>2. CASE p \in fts_[kf]
      BY <1>13, <3>1, <3>2
    <3>3. CASE p \notin fts_[kf]
      BY <1>1, <1>13, <3>1, <3>3 DEF GraphInv, DistinctViews
    <3> QED BY <3>2, <3>3
  <2> QED BY <2>1 DEF DistinctViews
<1>19. CandidatesInv' /\ CandidatesListed' /\ TrashExact'
  <2>1. candidates_' = {c \in candidates_ : c[1] \notin unsupported}
    BY <1>2, <1>7 DEF CandidatesOf
  <2>2. \A p \in Points : type_[p] = "candidate" => p \notin gone /\ obs_'[p] = obs_[p]
    BY <1>4, <1>13 DEF Shared
  <2>3. CandidatesInv'
    BY <1>3, <1>6, <1>7, <1>8, <2>1, <2>2 DEF CandidatesInv
  <2>4. CandidatesListed'
    BY <1>1, <1>8, <2>1 DEF GraphInv, CandidatesListed, CandidatePoints
  <2>5. TrashExact'
    <3>1. gone \cap unsupported = {} /\ \A p \in gone \cup unsupported : type_[p] # "deleted"
      BY <1>4, <1>7 DEF Shared
    <3> QED BY <1>1, <1>8, <3>1 DEF GraphInv, TrashExact, Times
  <2> QED BY <2>3, <2>4, <2>5
<1>20. KeyPointsInv'
  <2>1. ASSUME NEW f \in Frames, key_pts_'[f] # NoPoint
        PROVE  f \in MapFrames' /\ key_pts_'[f] \in fts_'[f]
    <3>1. f # kf /\ f \in MapFrames /\ key_pts_[f] \in fts_[f]
      BY <1>1, <1>11, <1>14, <2>1 DEF GraphInv, KeyPointsInv
    <3>2. key_pts_[f] \in Points
      BY <1>1, <3>1 DEF TypesInv
    <3> QED BY <1>3, <1>11, <1>12, <2>1, <3>1, <3>2
  <2> QED BY <2>1 DEF KeyPointsInv
<1>21. OthersEmpty'
  BY <1>1, <1>3, <1>10 DEF GraphInv, OthersEmpty, frames
<1>22. FilterInv' /\ FeaturesUsable'
  <2>1. \A p \in fts_'[new] : Live(p)'
    BY <1>1, <1>3, <1>17 DEF LinksInv, Shared, Live
  <2> QED BY <1>1, <1>3, <2>1 DEF GraphInv, FilterInv, FeaturesUsable, frames
<1> QED BY <1>15, <1>16, <1>17, <1>18, <1>19, <1>20, <1>21, <1>22 DEF Inv, GraphInv

-----------------------------------------------------------------------------
(* The mapper's steps                                                       *)

LEMMA SeedsInv ==
  ASSUME Inv, InitializeSeeds \/ LastSeedErased PROVE Inv'
<1>1. UNCHANGED <<mapVars, stage_, pc, frames, late>>
  BY DEF InitializeSeeds, LastSeedErased
<1>2. /\ given' \subseteq given /\ seeded' \subseteq seeded \cup given
      /\ TypesInv /\ ControlInv /\ GraphInv
  BY DEF InitializeSeeds, LastSeedErased, Filter!MakeSeeds, Filter!Erase, Inv
<1>3. MapFrames' = MapFrames /\ Linked' = Linked /\ Held' = Held
  <2>1. MapFrames' = MapFrames
    BY <1>1 DEF MapFrames, mapVars, frames
  <2> QED BY <1>1, <2>1 DEF Linked, Held, frames
<1>4. TypesInv' /\ ControlInv'
  <2>1. NoMap => NoMap'
    BY <1>1, <1>2 DEF NoMap, mapVars, graph
  <2> QED BY <1>1, <1>2, <2>1 DEF TypesInv, ControlInv, Working, mapVars, graph, frames
<1>5. LinksInv' /\ DistinctViews' /\ CandidatesInv' /\ CandidatesListed' /\ TrashExact'
  BY <1>1, <1>2, <1>3
  DEF GraphInv, LinksInv, DistinctViews, Shared, Observers, CandidatesInv,
      CandidatesListed, CandidatePoints, TrashExact, mapVars, graph
<1>6. KeyPointsInv' /\ OthersEmpty' /\ FeaturesUsable'
  BY <1>1, <1>2, <1>3
  DEF GraphInv, KeyPointsInv, OthersEmpty, FeaturesUsable, Live, mapVars, graph, frames
<1>7. FilterInv'
  BY <1>1, <1>2, <1>3 DEF GraphInv, FilterInv
<1> QED BY <1>4, <1>5, <1>6, <1>7 DEF Inv, GraphInv

LEMMA ConvergesInv ==
  ASSUME Inv, SeedConverges PROVE Inv'
<1>1. PICK f \in seeded : NewCandidatePoint(f)
  BY DEF SeedConverges
<1>2. PICK p \in Points : /\ type_[p] = "none"
                          /\ type_' = [type_ EXCEPT ![p] = "candidate"]
                          /\ obs_' = [obs_ EXCEPT ![p] = <<f>>]
                          /\ candidates_' = candidates_ \cup {<<p, f>>}
  BY <1>1 DEF NewCandidatePoint
<1>3. /\ TypesInv /\ ControlInv /\ GraphInv /\ f \in Held /\ f \in Frames
      /\ UNCHANGED <<keyframes_, fts_, key_pts_, trash_points_, stage_, pc, frames, filter>>
  BY <1>1 DEF NewCandidatePoint, SeedConverges, Inv, GraphInv, FilterInv, TypesInv
<1>4. MapFrames' = MapFrames /\ Linked' = Linked /\ Held' = Held
  <2>1. MapFrames' = MapFrames
    BY <1>3 DEF MapFrames, frames
  <2> QED BY <1>3, <2>1 DEF Linked, Held, frames
<1>5. /\ type_'[p] = "candidate" /\ obs_'[p] = <<f>>
      /\ \A q \in Points \ {p} : type_'[q] = type_[q] /\ obs_'[q] = obs_[q]
  BY <1>2, <1>3 DEF TypesInv
<1>6. TypesInv'
  <2>1. type_' \in [Points -> PointTypes] /\ obs_' \in [Points -> Seq(Frames)]
    BY <1>2, <1>3 DEF TypesInv, PointTypes
  <2> QED BY <1>2, <1>3, <2>1 DEF TypesInv, frames, filter
<1>7. ControlInv'
  <2>1. NoMap => NoMap'
    BY <1>3, <1>5 DEF NoMap
  <2> QED BY <1>3, <2>1 DEF ControlInv, Working, frames
<1>8. LinksInv' /\ DistinctViews'
  BY <1>2, <1>3, <1>4, <1>5
  DEF TypesInv, GraphInv, LinksInv, DistinctViews, Shared, Observers
<1>9. CandidatesInv' /\ CandidatesListed' /\ TrashExact'
  <2>1. CandidatesInv'
    BY <1>2, <1>3, <1>4, <1>5 DEF TypesInv, GraphInv, CandidatesInv
  <2>2. CandidatesListed'
    <3>1. CandidatePoints \subseteq CandidatePoints'
      BY <1>2 DEF CandidatePoints
    <3>2. <<p, f>> \in candidates_' /\ <<p, f>>[1] = p
      BY <1>2
    <3>3. p \in CandidatePoints'
      BY <3>2 DEF CandidatePoints
    <3> QED BY <1>3, <1>5, <3>1, <3>3 DEF GraphInv, CandidatesListed
  <2>3. TrashExact'
    BY <1>2, <1>3, <1>5 DEF GraphInv, TrashExact
  <2> QED BY <2>1, <2>2, <2>3
<1>10. KeyPointsInv' /\ OthersEmpty' /\ FilterInv'
  BY <1>3, <1>4 DEF GraphInv, KeyPointsInv, OthersEmpty, FilterInv, frames, filter
<1>11. FeaturesUsable'
  <2>1. \A q \in Points : Live(q) => Live(q)'
    BY <1>2, <1>5 DEF Live
  <2>2. \A g \in Frames : \A q \in fts_[g] : q \in Points
    BY <1>3 DEF TypesInv
  <2>3. /\ stage_ = "default" /\ pc = "idle" => \A q \in fts_[last_frame_] : Live(q)
        /\ pc \in {"decide", "remove", "erase", "add"} => \A q \in fts_[new_frame_] : Live(q)
    BY <1>3 DEF GraphInv, FeaturesUsable
  <2>4. /\ stage_ = "default" /\ pc = "idle" => last_frame_ \in Frames
        /\ pc \in {"decide", "remove", "erase", "add"} => new_frame_ \in Frames
    BY <1>3 DEF ControlInv, Working
  <2> QED BY <1>3, <2>1, <2>2, <2>3, <2>4 DEF FeaturesUsable, frames
<1> QED BY <1>6, <1>7, <1>8, <1>9, <1>10, <1>11 DEF Inv, GraphInv

LEMMA StutterInv == Inv /\ UNCHANGED vars => Inv'
<1> SUFFICES ASSUME Inv, UNCHANGED vars PROVE Inv'
  OBVIOUS
<1>1. UNCHANGED <<mapVars, stage_, pc, frames>> /\ UNCHANGED <<given, seeded, late>>
  BY DEF vars, filter
<1> USE DEF Inv, mapVars, graph, frames
<1>2. MapFrames' = MapFrames /\ Linked' = Linked /\ Held' = Held
  <2>1. MapFrames' = MapFrames
    BY <1>1 DEF MapFrames
  <2> QED BY <1>1, <2>1 DEF Linked, Held
<1>3. TypesInv' /\ ControlInv'
  BY <1>1 DEF TypesInv, ControlInv, NoMap, Working
<1>4. LinksInv' /\ DistinctViews' /\ CandidatesInv' /\ CandidatesListed' /\ TrashExact'
  BY <1>1, <1>2
  DEF GraphInv, LinksInv, DistinctViews, Shared, Observers, CandidatesInv,
      CandidatesListed, CandidatePoints, TrashExact
<1>5. KeyPointsInv' /\ OthersEmpty' /\ FilterInv' /\ FeaturesUsable'
  BY <1>1, <1>2
  DEF GraphInv, KeyPointsInv, OthersEmpty, FilterInv, FeaturesUsable, Live
<1> QED BY <1>3, <1>4, <1>5 DEF GraphInv

-----------------------------------------------------------------------------
(* The number of keyframes                                                  *)

LEMMA KeyframesStep ==
  ASSUME Inv, KeyframesInv, [Next]_vars PROVE KeyframesInv'
<1>1. /\ IsFiniteSet(keyframes_) /\ Cardinality(keyframes_) \in Nat
      /\ Cardinality(keyframes_) <= MaxNKfs /\ MaxNKfs \in Nat /\ MaxNKfs > 2
  BY FS_CardinalityType, MaxNKfsAssumption DEF KeyframesInv
<1>2. CASE ProcessFirstFrame
  <2>1. keyframes_ = {} /\ pc' \in {"idle", "reset_map"}
    BY <1>2 DEF ProcessFirstFrame, Inv, ControlInv, Finish
  <2>2. IsFiniteSet({new_frame_}) /\ Cardinality({new_frame_}) = 1
    BY FS_Singleton
  <2>3. \/ keyframes_' = {} /\ stage_' = "first"
        \/ keyframes_' = {new_frame_}
    BY <1>2, <2>1 DEF ProcessFirstFrame, Finish
  <2> QED BY <1>1, <2>1, <2>2, <2>3, FS_EmptySet DEF KeyframesInv
<1>3. CASE ProcessSecondFrame \/ AddToMap
  <2>1. /\ keyframes_' = keyframes_ \cup {new_frame_} /\ pc' \in {"idle", "reset_map"}
        /\ stage_' = "default"
    BY <1>3 DEF ProcessSecondFrame, AddToMap, Finish
  <2>2. Cardinality(keyframes_) < MaxNKfs
    BY <1>1, <1>3 DEF ProcessSecondFrame, AddToMap, KeyframesInv
  <2>3. /\ IsFiniteSet(keyframes_')
        /\ Cardinality(keyframes_') \in {Cardinality(keyframes_), Cardinality(keyframes_) + 1}
    BY <1>1, <2>1, FS_AddElement
  <2> QED BY <1>1, <2>1, <2>2, <2>3 DEF KeyframesInv
<1>4. CASE EraseFurthest
  <2>1. /\ furthest \in keyframes_ /\ keyframes_' = keyframes_ \ {furthest}
        /\ stage_' = stage_ /\ stage_ # "second"
    BY <1>4 DEF EraseFurthest, SafeDeleteFrame, Inv, ControlInv, Working
  <2>2. IsFiniteSet(keyframes_') /\ Cardinality(keyframes_') = Cardinality(keyframes_) - 1
    BY <1>1, <2>1, FS_RemoveElement
  <2> QED BY <1>1, <2>1, <2>2 DEF KeyframesInv
<1>5. CASE ResetMap
  BY <1>1, <1>5, FS_EmptySet DEF ResetMap, MapReset, KeyframesInv
<1>6. CASE SelectKeyframe
  <2>1. keyframes_' = keyframes_ /\ stage_' = stage_ /\ (pc' = "add" => ~MapFull)
    BY <1>6 DEF SelectKeyframe
  <2> QED BY <1>1, <2>1 DEF MapFull, KeyframesInv
<1>7. CASE /\ keyframes_' = keyframes_ /\ (stage_' = "second" => stage_ = "second")
           /\ (pc' = "add" => pc = "add")
  BY <1>7 DEF KeyframesInv
<1>8. CASE UNCHANGED vars
  BY <1>7, <1>8 DEF vars, mapVars
<1>9. CASE \/ \E f \in Frames : AddImage(f)
           \/ Start \/ ResetFilter \/ SecondFrameNoKeyframe \/ SecondFrameFails
           \/ RelocalizationFails \/ RelocalizeFrame
           \/ ReprojectMap \/ ProcessFrameFails \/ NoKeyframe \/ RemoveFurthest
  BY <1>7, <1>9
  DEF AddImage, Start, ResetFilter, SecondFrameNoKeyframe, SecondFrameFails, RelocalizationFails,
      RelocalizeFrame, ReprojectMap, ProcessFrameFails, NoKeyframe, RemoveFurthest, Finish,
      mapVars
<1>10. CASE MapperStep
  BY <1>7, <1>10
  DEF MapperStep, InitializeSeeds, LastSeedErased, SeedConverges, NewCandidatePoint, mapVars
<1> QED BY <1>2, <1>3, <1>4, <1>5, <1>6, <1>8, <1>9, <1>10 DEF Next, TrackerStep

-----------------------------------------------------------------------------
(* The theorems                                                             *)

LEMMA NextInv ==
  ASSUME Inv, [Next]_vars PROVE Inv'
<1>1. CASE \E f \in Frames : AddImage(f)
  BY <1>1, AddImageInv
<1>2. CASE Start \/ SecondFrameFails
  BY <1>2, TurnInv
<1>3. CASE ResetMap \/ ResetFilter
  BY <1>3, ResetInv
<1>4. CASE ProcessFirstFrame \/ SecondFrameNoKeyframe
  BY <1>4, FirstFramesInv
<1>5. CASE ProcessSecondFrame
  BY <1>5, SecondFrameInv
<1>6. CASE RelocalizationFails \/ ProcessFrameFails \/ NoKeyframe \/ AddToMap
  BY <1>6, LaterFramesInv
<1>7. CASE RelocalizeFrame
  BY <1>7, RelocalizeInv
<1>8. CASE ReprojectMap
  BY <1>8, ReprojectInv
<1>9. CASE SelectKeyframe
  BY <1>9, SelectInv
<1>10. CASE RemoveFurthest
  BY <1>10, FurthestInv
<1>11. CASE EraseFurthest
  BY <1>11, EraseInv
<1>12. CASE InitializeSeeds \/ LastSeedErased
  BY <1>12, SeedsInv
<1>13. CASE SeedConverges
  BY <1>13, ConvergesInv
<1>14. CASE UNCHANGED vars
  BY <1>14, StutterInv
<1> QED BY <1>1, <1>2, <1>3, <1>4, <1>5, <1>6, <1>7, <1>8, <1>9, <1>10, <1>11, <1>12, <1>13,
           <1>14 DEF Next, TrackerStep, MapperStep

(* Whatever the tracker and the mapper do, features and observations agree  *)
(* but for those of frames that are not in the map, and the map stays       *)
(* within its limit.  The theorems below follow.                            *)
THEOREM BookkeepingCorrect == Spec => [](Inv /\ KeyframesInv)
<1>1. Init => Inv /\ KeyframesInv
  BY InitInv, FS_EmptySet, MaxNKfsAssumption DEF Init, MapInit, KeyframesInv
<1>2. Inv /\ KeyframesInv /\ [Next]_vars => (Inv /\ KeyframesInv)'
  BY NextInv, KeyframesStep
<1> QED BY <1>1, <1>2, PTL DEF Spec

(* Every part of the state has its type, and there are never more than      *)
(* maxNKfs keyframes.                                                       *)
THEOREM TypeCorrect == Spec => []TypeOK
<1>1. Inv /\ KeyframesInv => TypeOK
  BY DEF Inv, TypesInv, KeyframesInv, TypeOK
<1> QED BY <1>1, BookkeepingCorrect, PTL

(* No point of the map is left with fewer than two views, nor is one seen    *)
(* twice by the same keyframe: also when the views are of keyframes that    *)
(* were removed before their seeds were made.                               *)
THEOREM PointsSharedCorrect == Spec => []PointsShared
<1>1. Inv /\ KeyframesInv => PointsShared
  <2> SUFFICES ASSUME Inv, NEW p \in Points, type_[p] \in {"unknown", "good"}
               PROVE  Len(obs_[p]) >= 2 /\ Cardinality(Observers(p)) = Len(obs_[p])
    BY DEF PointsShared
  <2>1. obs_[p] \in Seq(Frames) /\ Len(obs_[p]) >= 2 /\ Distinct(obs_[p])
    BY DEF Inv, TypesInv, GraphInv, DistinctViews, Shared
  <2> QED BY <2>1, DistinctCount DEF Observers
<1> QED BY <1>1, BookkeepingCorrect, PTL

(* The key point of a keyframe is always one of its features.               *)
THEOREM KeyPointsHavePoints == Spec => []KeyPointsCorrect
<1>1. Inv /\ KeyframesInv => KeyPointsCorrect
  <2>1. Inv => MapFrames \subseteq Frames
    BY DEF Inv, TypesInv, ControlInv, Working, MapFrames
  <2> QED BY <2>1 DEF Inv, GraphInv, KeyPointsInv, KeyPointsCorrect, Findable
<1> QED BY <1>1, BookkeepingCorrect, PTL

(* No feature that is going to be read refers to a deleted or freed point.  *)
THEOREM FeaturesStayUsable == Spec => []FeaturesUsable
<1>1. Inv /\ KeyframesInv => FeaturesUsable
  BY DEF Inv, GraphInv
<1> QED BY <1>1, BookkeepingCorrect, PTL

(* The trash holds exactly the deleted points that are not freed yet.       *)
THEOREM TrashCorrect == Spec => []TrashExact
<1>1. Inv /\ KeyframesInv => TrashExact
  BY DEF Inv, GraphInv
<1> QED BY <1>1, BookkeepingCorrect, PTL

-----------------------------------------------------------------------------
(* The depth filter as it is used                                           *)

(* A frame that is about to be made a keyframe is new to the depth filter:  *)
(* what SeedFilter's Give asks of its client holds, and keeps no call of    *)
(* addKeyframe from being made.                                             *)
NewFrameUnknown ==
  pc \in {"process", "reproject", "decide"} => new_frame_ \notin given \cup seeded

(* So every frame that is given to the depth filter is one of which it has  *)
(* neither seeds nor seeds to make.                                         *)
THEOREM NewFramesGiven == Spec => []NewFrameUnknown
<1>1. Inv /\ KeyframesInv => NewFrameUnknown
  <2> SUFFICES ASSUME Inv, pc \in {"process", "reproject", "decide"}
               PROVE  new_frame_ \notin given \cup seeded
    BY DEF NewFrameUnknown
  <2>1. new_frame_ \notin MapFrames
    BY DEF Inv, ControlInv, Working, MapFrames
  <2>2. new_frame_ \notin Held
    BY <2>1 DEF Held, Linked
  <2> QED BY <2>2 DEF Inv, GraphInv, FilterInv
<1> QED BY <1>1, BookkeepingCorrect, PTL

(* The tracker and the mapper do with the depth filter what its             *)
(* specification has, and nothing else.  DepthFilter implements the same    *)
(* specification: the map's theorems rest on no more than it promises.      *)
THEOREM FilterUsedAsPromised == Spec => Filter!Spec
<1>1. Init => Filter!Init
  BY DEF Init
<1>2. ASSUME Inv, [Next]_vars PROVE Filter!Next \/ UNCHANGED <<given, seeded>>
  <2>1. CASE ProcessSecondFrame \/ SelectKeyframe
    <3>1. new_frame_ \in Frames /\ Filter!Give(new_frame_)
      BY <1>2, <2>1 DEF ProcessSecondFrame, SelectKeyframe, Inv, ControlInv, Working
    <3> QED BY <3>1 DEF Filter!Next
  <2>2. CASE RemoveFurthest \/ LastSeedErased
    <3>1. PICK f \in Frames : Filter!Erase(f)
      BY <1>2, <2>2 DEF RemoveFurthest, LastSeedErased, Inv, TypesInv
    <3> QED BY <3>1 DEF Filter!Next
  <2>3. CASE ResetFilter
    BY <2>3 DEF ResetFilter, Filter!Next
  <2>4. CASE InitializeSeeds
    BY <2>4 DEF InitializeSeeds, Filter!Next
  <2>5. CASE \/ \E f \in Frames : AddImage(f)
             \/ Start \/ ResetMap \/ ProcessFirstFrame \/ SecondFrameNoKeyframe
             \/ SecondFrameFails \/ RelocalizationFails \/ RelocalizeFrame \/ ReprojectMap
             \/ ProcessFrameFails \/ NoKeyframe \/ EraseFurthest \/ AddToMap \/ SeedConverges
    BY <2>5
    DEF AddImage, Start, ResetMap, ProcessFirstFrame, SecondFrameNoKeyframe, SecondFrameFails,
        RelocalizationFails, RelocalizeFrame, ReprojectMap, ProcessFrameFails, NoKeyframe,
        EraseFurthest, AddToMap, SeedConverges, filter
  <2>6. CASE UNCHANGED vars
    BY <2>6 DEF vars, filter
  <2> QED BY <1>2, <2>1, <2>2, <2>3, <2>4, <2>5, <2>6 DEF Next, TrackerStep, MapperStep
<1>3. Inv /\ [Next]_vars => [Filter!Next]_<<given, seeded>>
  BY <1>2
<1> QED BY <1>1, <1>3, BookkeepingCorrect, PTL DEF Spec, Filter!Spec

-----------------------------------------------------------------------------
(* The stages and the size of the map                                       *)

(* A keyframe is being replaced only when there are as many as there may    *)
(* be, so that enough are left; nothing else leaves a keyframe behind that  *)
(* is no longer in the map.                                                 *)
SizesInv ==
  /\ pc \notin {"erase", "add"} => furthest = NoFrame
  /\ pc \in {"remove", "erase"} => MapFull
  /\ AnotherKeyframe

LEMMA SizesStep ==
  ASSUME Inv, KeyframesInv, SizesInv, [Next]_vars
  PROVE  SizesInv' /\ (StageGraph!Next \/ UNCHANGED <<stage_, MapSize>>)
<1> DEFINE size == Cardinality(keyframes_)
<1>1. IsFiniteSet(keyframes_) /\ size \in Nat /\ MaxNKfs \in Nat /\ MaxNKfs > 2
  BY FS_CardinalityType, MaxNKfsAssumption DEF KeyframesInv
<1>2. pc \in Working => new_frame_ \in Frames /\ new_frame_ \notin keyframes_
  BY DEF Inv, ControlInv
<1>3. IsFiniteSet({}) /\ Cardinality({}) = 0
  BY FS_EmptySet
<1>4. new_frame_ \notin keyframes_ => Cardinality(keyframes_ \cup {new_frame_}) = size + 1
  BY <1>1, FS_AddElement
<1> HIDE DEF size
<1>5. CASE ProcessFirstFrame
  <2>1. /\ pc = "process" /\ pc' \in {"idle", "reset_map"} /\ furthest' = NoFrame
        /\ stage_ = "first" /\ MapSize = size
    BY <1>1, <1>5 DEF ProcessFirstFrame, Finish, MapSize, size
  <2>2. CASE stage_' = "first" /\ keyframes_' = keyframes_
    BY <2>1, <2>2 DEF SizesInv, AnotherKeyframe, MapSize, size
  <2>3. CASE stage_' = "second" /\ keyframes_' = keyframes_ \cup {new_frame_}
    <3>1. MapSize' = size + 1
      BY <1>1, <1>2, <1>4, <2>1, <2>3 DEF MapSize, Working
    <3> QED BY <2>1, <2>3, <3>1
            DEF SizesInv, AnotherKeyframe, StageGraph!Next, StageGraph!FirstKeyframe
  <2> QED BY <1>5, <2>2, <2>3 DEF ProcessFirstFrame, Finish
<1>6. CASE ProcessSecondFrame
  <2>1. /\ pc = "process" /\ pc' \in {"idle", "reset_map"} /\ furthest' = NoFrame
        /\ stage_ = "second" /\ stage_' = "default" /\ MapSize = size
        /\ keyframes_' = keyframes_ \cup {new_frame_}
    BY <1>1, <1>6 DEF ProcessSecondFrame, Finish, MapSize, size
  <2>2. Cardinality(keyframes_') = size + 1 /\ size = 1
    BY <1>2, <1>4, <2>1 DEF Working, KeyframesInv, size
  <2>3. MapSize' = size + 1
    BY <1>1, <2>1, <2>2 DEF MapSize
  <2> QED BY <2>1, <2>2, <2>3
          DEF SizesInv, AnotherKeyframe, StageGraph!Next, StageGraph!SecondKeyframe
<1>7. CASE AddToMap
  <2>1. /\ pc = "add" /\ pc' \in {"idle", "reset_map"} /\ furthest' = NoFrame
        /\ stage_ \in {"default", "relocalizing"} /\ stage_' = "default"
        /\ keyframes_' = keyframes_ \cup {new_frame_}
    BY <1>7 DEF AddToMap, Finish, Inv, ControlInv, Working
  <2>2. Cardinality(keyframes_') = size + 1 /\ size >= 2 /\ size < MaxNKfs
    BY <1>2, <1>4, <2>1 DEF Working, SizesInv, AnotherKeyframe, KeyframesInv, size
  <2>3. /\ MapSize' = size + 1
        /\ MapSize = IF furthest # NoFrame THEN size + 1 ELSE size
    BY <1>1, <2>1, <2>2 DEF MapSize, size
  <2>4. StageGraph!TrackFrame
    BY <1>1, <2>1, <2>2, <2>3 DEF StageGraph!TrackFrame, StageGraph!Tracks, StageGraph!Full
  <2> QED BY <1>1, <2>1, <2>2, <2>4 DEF SizesInv, AnotherKeyframe, StageGraph!Next
<1>8. CASE EraseFurthest
  <2>1. /\ furthest \in keyframes_ /\ furthest # NoFrame /\ keyframes_' = keyframes_ \ {furthest}
        /\ pc = "erase" /\ pc' = "add" /\ stage_' = stage_ /\ furthest' = furthest
    BY <1>8, FramesAssumption
    DEF EraseFurthest, SafeDeleteFrame, Inv, TypesInv, ControlInv, frames
  <2>2. Cardinality(keyframes_') = size - 1 /\ size >= MaxNKfs
    BY <1>1, <2>1, FS_RemoveElement DEF SizesInv, MapFull, size
  <2>3. MapSize = size /\ MapSize' = size
    BY <1>1, <2>1, <2>2 DEF MapSize, size
  <2> QED BY <1>1, <2>1, <2>2, <2>3 DEF SizesInv, AnotherKeyframe
<1>9. CASE ResetMap
  <2>1. /\ pc' \in {"reset_filter", "start_filter"} /\ stage_' = "paused"
        /\ keyframes_' = {} /\ furthest' = furthest /\ furthest = NoFrame
    BY <1>9 DEF ResetMap, MapReset, SizesInv
  <2>2. MapSize' = 0
    BY <1>3, <2>1 DEF MapSize
  <2> QED BY <2>1, <2>2 DEF SizesInv, AnotherKeyframe, StageGraph!Next, StageGraph!Reset
<1>10. CASE ResetFilter
  <2>1. /\ pc \in {"reset_filter", "start_filter"} /\ pc' = "idle" /\ stage_ = "paused"
        /\ stage_' = IF pc = "start_filter" THEN "first" ELSE stage_
        /\ furthest' = furthest /\ keyframes_' = keyframes_
    BY <1>10 DEF ResetFilter, Inv, ControlInv, frames, mapVars
  <2>2. MapSize' = MapSize
    BY <2>1 DEF MapSize
  <2> QED BY <2>1, <2>2 DEF SizesInv, AnotherKeyframe, StageGraph!Next, StageGraph!Start
<1>11. ASSUME keyframes_' = keyframes_, furthest' = NoFrame, pc' \in {"idle", "reset_map"},
              pc \in {"process", "decide"},
              \/ stage_' = stage_
              \/ /\ stage_' \in {"default", "relocalizing"}
                 /\ stage_ \in {"default", "relocalizing"}
       PROVE  SizesInv' /\ (StageGraph!Next \/ UNCHANGED <<stage_, MapSize>>)
  <2>1. MapSize' = MapSize
    BY <1>11 DEF MapSize
  <2> QED BY <1>11, <2>1 DEF SizesInv, AnotherKeyframe, StageGraph!Next, StageGraph!Tracks,
                             StageGraph!TrackFrame, StageGraph!LoseFrame
<1>12. CASE SecondFrameNoKeyframe \/ RelocalizationFails \/ ProcessFrameFails \/ NoKeyframe
  BY <1>11, <1>12 DEF SecondFrameNoKeyframe, RelocalizationFails, ProcessFrameFails, NoKeyframe,
                      Finish, Inv, ControlInv, Working
<1>13. ASSUME UNCHANGED <<keyframes_, stage_>>, SizesInv', pc # "add" /\ pc' # "add"
       PROVE  SizesInv' /\ UNCHANGED <<stage_, MapSize>>
  BY <1>13 DEF MapSize
<1>14. CASE \/ \E f \in Frames : AddImage(f)
            \/ Start \/ SecondFrameFails \/ RelocalizeFrame \/ ReprojectMap \/ RemoveFurthest
  <2>1. /\ UNCHANGED <<keyframes_, stage_>> /\ pc \notin {"erase", "add"} /\ pc' # "add"
        /\ pc' # "erase" => furthest' = furthest
        /\ pc' \in {"remove", "erase"} => pc = "remove"
    BY <1>14 DEF AddImage, Start, SecondFrameFails, RelocalizeFrame, ReprojectMap, RemoveFurthest,
                 mapVars, frames
  <2> QED BY <1>13, <2>1 DEF SizesInv, AnotherKeyframe, MapFull
<1>15. CASE SelectKeyframe
  <2>1. /\ UNCHANGED <<keyframes_, stage_>> /\ pc = "decide" /\ furthest' = furthest
        /\ pc' = IF MapFull THEN "remove" ELSE "add"
    BY <1>15 DEF SelectKeyframe, frames
  <2>2. furthest = NoFrame
    BY <2>1 DEF SizesInv
  <2> QED BY <2>1, <2>2 DEF SizesInv, AnotherKeyframe, MapFull, MapSize
<1>16. CASE MapperStep \/ UNCHANGED vars
  <2>1. UNCHANGED <<keyframes_, stage_, pc, furthest>>
    BY <1>16 DEF MapperStep, InitializeSeeds, LastSeedErased, SeedConverges, NewCandidatePoint,
                 mapVars, vars, frames
  <2> QED BY <2>1 DEF SizesInv, AnotherKeyframe, MapFull, MapSize
<1> QED BY <1>5, <1>6, <1>7, <1>8, <1>9, <1>10, <1>12, <1>14, <1>15, <1>16 DEF Next, TrackerStep

LEMMA SizesCorrect == Spec => [](Inv /\ KeyframesInv /\ SizesInv)
<1>1. Init => SizesInv
  BY DEF Init, SizesInv, AnotherKeyframe
<1>2. Inv /\ KeyframesInv /\ SizesInv /\ [Next]_vars => SizesInv'
  BY SizesStep
<1> QED BY <1>1, <1>2, BookkeepingCorrect, PTL DEF Spec

(* A tracker that has a map has two keyframes at least at every moment, the *)
(* one of replacing the furthest included.                                  *)
THEOREM AnotherKeyframeLeft == Spec => []AnotherKeyframe
<1>1. SizesInv => AnotherKeyframe
  BY DEF SizesInv
<1> QED BY <1>1, SizesCorrect, PTL

(* The tracker at work on its map goes through the stages, and its map      *)
(* grows, as TrackingStages has it (ImplementsStages).                      *)
THEOREM StagesFollowed == Spec => ImplementsStages
<1>1. Init => StageGraph!Init
  <2>1. IsFiniteSet({}) /\ Cardinality({}) = 0
    BY FS_EmptySet
  <2> QED BY <2>1 DEF Init, MapInit, MapSize, StageGraph!Init
<1>2. Inv /\ KeyframesInv /\ SizesInv /\ [Next]_vars => [StageGraph!Next]_<<stage_, MapSize>>
  BY SizesStep
<1> QED
  BY <1>1, <1>2, SizesCorrect, PTL DEF Spec, ImplementsStages, StageGraph!Spec

-----------------------------------------------------------------------------
(* What references lead to                                                  *)

(* No reference leads to a frame that has left the map, unless the mapper   *)
(* still had it then; and the mapper has no others.                         *)
KnownInv ==
  /\ \A p \in Points : Shared(p) => Observers(p) \subseteq Referable
  /\ \A c \in candidates_ : c[2] \in Referable
  /\ Pending \subseteq Referable

(* A step that changes no reference and lets no keyframe go.                *)
LEMMA KnownKept ==
  ASSUME KnownInv, MapFrames \subseteq MapFrames',
         UNCHANGED <<obs_, type_, candidates_, filter>>
  PROVE  KnownInv'
BY DEF KnownInv, Shared, Observers, Referable, Pending, filter

LEMMA KnownFinish ==
  ASSUME Inv, KnownInv,
         \/ ProcessFirstFrame \/ SecondFrameNoKeyframe \/ RelocalizationFails
         \/ ProcessFrameFails \/ NoKeyframe \/ AddToMap
  PROVE  KnownInv'
<1>1. UNCHANGED <<obs_, type_, candidates_, filter>>
  BY DEF ProcessFirstFrame, SecondFrameNoKeyframe, RelocalizationFails, ProcessFrameFails,
     NoKeyframe, AddToMap, Finish
<1>2. MapFrames \subseteq keyframes_'
  BY DEF ProcessFirstFrame, SecondFrameNoKeyframe, RelocalizationFails, ProcessFrameFails,
     NoKeyframe, AddToMap, Finish, MapFrames
<1>3. MapFrames \subseteq MapFrames'
  BY <1>2 DEF MapFrames
<1> QED BY <1>1, <1>3, KnownKept

LEMMA KnownTurn ==
  ASSUME KnownInv, Start \/ SecondFrameFails \/ RelocalizeFrame \/ RemoveFurthest
  PROVE  KnownInv'
<1>1. CASE Start \/ SecondFrameFails \/ RelocalizeFrame
  <2>1. /\ pc \in {"idle", "process"}
        /\ UNCHANGED <<keyframes_, obs_, type_, candidates_, filter>>
    BY <1>1 DEF Start, SecondFrameFails, RelocalizeFrame, mapVars, graph
  <2>2. MapFrames \subseteq MapFrames'
    BY <2>1 DEF MapFrames
  <2> QED BY <2>1, <2>2, KnownKept
<1>2. CASE RemoveFurthest
  <2>1. /\ pc = "remove" /\ pc' = "erase" /\ seeded' \subseteq seeded
        /\ new_frame_' = new_frame_ /\ UNCHANGED <<mapVars, given, late>>
    BY <1>2 DEF RemoveFurthest, Filter!Erase
  <2>2. MapFrames' = MapFrames
    BY <2>1 DEF MapFrames, mapVars
  <2> QED BY <2>1, <2>2 DEF KnownInv, Referable, Pending, Shared, Observers, mapVars, graph
<1> QED BY <1>1, <1>2

(* A frame object is taken for a new frame when nothing refers to the old.  *)
LEMMA KnownAddImage ==
  ASSUME Inv, KnownInv, NEW f \in Frames, AddImage(f) PROVE KnownInv'
<1>1. /\ pc = "idle" /\ pc' \in {"reproject", "process"} /\ Unused(f)
      /\ UNCHANGED <<keyframes_, candidates_, given, seeded>> /\ late' = late \ {f}
      /\ \A p \in Points : Shared(p)' => Shared(p) /\ obs_'[p] = obs_[p]
  BY DEF AddImage, EmptyTrash, Free, Shared
<1>2. MapFrames' = MapFrames
  BY <1>1 DEF MapFrames
<1>3. Referable' = Referable \ {f} \/ Referable' = Referable
  BY <1>1, <1>2 DEF Referable
<1>4. \A p \in Points : f \notin Observers(p)
  BY <1>1 DEF Unused
<1>5. ASSUME NEW c \in candidates_ PROVE c[2] # f
  <2>1. c[1] \in Points /\ obs_[c[1]] = <<c[2]>>
    BY DEF Inv, TypesInv, GraphInv, CandidatesInv
  <2>2. c[2] \in Observers(c[1])
    BY <2>1, ToSetOne DEF Observers
  <2> QED BY <1>4, <2>1, <2>2
<1>6. f \notin Pending
  BY <1>1 DEF Unused
<1>7. ASSUME NEW p \in Points, Shared(p)' PROVE Observers(p)' \subseteq Referable'
  BY <1>1, <1>3, <1>4, <1>7 DEF KnownInv, Observers
<1>8. Pending' = Pending
  BY <1>1 DEF Pending
<1> QED BY <1>1, <1>3, <1>5, <1>6, <1>7, <1>8 DEF KnownInv

LEMMA KnownReset ==
  ASSUME Inv, KnownInv, ResetMap \/ ResetFilter PROVE KnownInv'
<1>1. CASE ResetMap
  <2>1. /\ candidates_' = {} /\ late' = Pending /\ Pending' = Pending
        /\ type_' = [p \in Points |-> "none"]
    BY <1>1 DEF ResetMap, MapReset, Free, Pending
  <2> QED BY <2>1 DEF KnownInv, Referable, Shared
<1>2. CASE ResetFilter
  <2>1. /\ pc \in {"reset_filter", "start_filter"} /\ pc' = "idle"
        /\ given' = given /\ seeded' = {} /\ late' = late
        /\ UNCHANGED mapVars
    BY <1>2 DEF ResetFilter, Filter!Clear
  <2>2. MapFrames' = MapFrames /\ Pending' \subseteq Pending
    BY <2>1 DEF MapFrames, Pending, mapVars
  <2> QED BY <2>1, <2>2 DEF KnownInv, Referable, Shared, Observers, mapVars, graph
<1> QED BY <1>1, <1>2

LEMMA KnownSecondFrame ==
  ASSUME Inv, KnownInv, ProcessSecondFrame PROVE KnownInv'
<1>1. /\ MapFrames = keyframes_ /\ MapFrames' = keyframes_ \cup {new_frame_}
      /\ candidates_' = candidates_ /\ Pending' = Pending \cup {new_frame_} /\ late' = late
  BY DEF ProcessSecondFrame, Finish, Filter!Give, MapFrames, Pending
<1>2. PICK ref \in keyframes_, points \in SUBSET {p \in Points : type_[p] = "none"} :
        /\ obs_' = [p \in Points |-> IF p \in points THEN <<ref, new_frame_>> ELSE obs_[p]]
        /\ type_' = [p \in Points |-> IF p \in points THEN "unknown" ELSE type_[p]]
  BY DEF ProcessSecondFrame
<1>3. ToSet(<<ref, new_frame_>>) = {ref, new_frame_}
  BY DEF ToSet
<1>4. Referable \subseteq Referable' /\ {ref, new_frame_} \subseteq Referable'
  BY <1>1 DEF Referable
<1>5. ASSUME NEW p \in Points, Shared(p)' PROVE Observers(p)' \subseteq Referable'
  <2>1. CASE p \in points
    BY <1>2, <1>3, <1>4, <2>1 DEF Observers
  <2>2. CASE p \notin points
    BY <1>2, <1>4, <1>5, <2>2 DEF KnownInv, Shared, Observers
  <2> QED BY <2>1, <2>2
<1> QED BY <1>1, <1>4, <1>5 DEF KnownInv

LEMMA KnownReproject ==
  ASSUME Inv, KnownInv, ReprojectMap PROVE KnownInv'
<1>1. /\ pc = "reproject" /\ pc' = "decide" /\ UNCHANGED <<keyframes_, frames, filter>>
  BY DEF ReprojectMap
<1>2. PICK gone, dropped, promoted, found :
        /\ promoted \subseteq {p \in Projected : type_[p] = "unknown"}
        /\ DeletePoints(gone, dropped, new_frame_, found)
        /\ type_' = [p \in Points |-> IF p \in gone \cup dropped THEN "deleted"
                                      ELSE IF p \in promoted THEN "good" ELSE type_[p]]
  BY DEF ReprojectMap
<1>3. candidates_' \subseteq candidates_ /\ MapFrames' = MapFrames
  BY <1>1, <1>2 DEF DeletePoints, MapFrames
<1>4. Referable' = Referable /\ Pending' = Pending
  BY <1>1, <1>3 DEF Referable, Pending, filter
<1>5. \A p \in Points : Shared(p)' => Shared(p) /\ obs_'[p] = obs_[p]
  BY <1>2 DEF DeletePoints, Shared
<1> QED BY <1>3, <1>4, <1>5 DEF KnownInv, Observers

LEMMA KnownSelect ==
  ASSUME Inv, KnownInv, SelectKeyframe PROVE KnownInv'
<1> DEFINE new == new_frame_
<1>1. /\ pc = "decide" /\ pc' \in {"remove", "add"}
      /\ Pending' = Pending \cup {new} /\ late' = late
      /\ UNCHANGED <<keyframes_, frames>>
  BY DEF SelectKeyframe, Filter!Give, Pending
<1>2. Referable' = Referable \cup {new}
  BY <1>1 DEF MapFrames, Referable, frames
<1>3. PICK points \in SUBSET fts_[new] : MakeKeyframe(new, points)
  BY DEF SelectKeyframe, Inliers
<1> DEFINE seen == {c \in candidates_ : c[1] \in points}
<1>4. /\ obs_' = [p \in Points |-> IF p \in points THEN <<new>> \o obs_[p] ELSE obs_[p]]
      /\ type_' = [p \in Points |-> IF \E c \in seen : c[1] = p THEN "unknown" ELSE type_[p]]
      /\ candidates_' \subseteq candidates_
  BY <1>3 DEF MakeKeyframe, Seen, TakenOver
<1>5. ASSUME NEW p \in Points, Shared(p)' PROVE Observers(p)' \subseteq Referable'
  <2>1. Observers(p) \subseteq Referable
    <3>1. CASE Shared(p)
      BY <3>1 DEF KnownInv
    <3>2. CASE ~Shared(p)
      <4>1. PICK c \in candidates_ : c[1] = p
        BY <1>4, <1>5, <3>2 DEF Shared
      <4>2. obs_[p] = <<c[2]>> /\ c[2] \in Referable
        BY <4>1 DEF Inv, GraphInv, CandidatesInv, KnownInv
      <4> QED BY <4>2, ToSetOne DEF Observers
    <3> QED BY <3>1, <3>2
  <2>2. new \in Frames /\ obs_[p] \in Seq(Frames)
    BY <1>1 DEF Inv, ControlInv, Working, TypesInv
  <2>3. ToSet(<<new>> \o obs_[p]) = {new} \cup ToSet(obs_[p])
    BY <2>2, PushFront
  <2> QED BY <1>2, <1>4, <2>1, <2>3 DEF Observers
<1> QED BY <1>1, <1>2, <1>4, <1>5 DEF KnownInv

(* The keyframe that goes is late if the mapper has it.  That no point of   *)
(* the map is seen from it is read off the features: it has none left.      *)
LEMMA KnownErase ==
  ASSUME Inv, Inv', KnownInv, EraseFurthest PROVE KnownInv'
<1> DEFINE kf == furthest
<1>1. /\ pc = "erase" /\ pc' = "add" /\ kf \in keyframes_ /\ keyframes_ \subseteq Frames
      /\ keyframes_' = keyframes_ \ {kf} /\ candidates_' = candidates_ \ CandidatesOf(kf)
      /\ UNCHANGED <<frames, given, seeded>> /\ late' = late \cup ({kf} \cap Pending)
  BY DEF EraseFurthest, SafeDeleteFrame, Inv, TypesInv, ControlInv, Working
<1>2. MapFrames \ {kf} \subseteq MapFrames' /\ Linked' \subseteq Linked
  BY <1>1 DEF MapFrames, Linked, frames
<1>3. Referable \ {kf} \subseteq Referable' /\ Pending' = Pending
      /\ (kf \in Pending => kf \in Referable')
  BY <1>1, <1>2 DEF Referable, Pending
<1>4. PICK lost, dead :
        /\ \A p \in fts_[kf] : <<kf, p>> \in lost
        /\ fts_' = [g \in Frames |-> {p \in fts_[g] : <<g, p>> \notin lost}]
        /\ type_' = [p \in Points |-> IF p \in dead THEN "deleted" ELSE type_[p]]
  <2> DEFINE gone == {p \in fts_[kf] : TooFewViews(p)}
             lost == {o \in Frames \X fts_[kf] :
                        o[1] = kf \/ (o[2] \in gone /\ o[1] \in Observers(o[2]))}
             dead == gone \cup {c[1] : c \in CandidatesOf(kf)}
  <2>1. \A p \in fts_[kf] : <<kf, p>> \in lost
    BY <1>1
  <2>2. fts_' = [g \in Frames |-> {p \in fts_[g] : <<g, p>> \notin lost}]
    BY DEF EraseFurthest, SafeDeleteFrame
  <2>3. type_' = [p \in Points |-> IF p \in dead THEN "deleted" ELSE type_[p]]
    BY DEF EraseFurthest, SafeDeleteFrame, Trash
  <2> HIDE DEF lost, dead
  <2> QED BY <2>1, <2>2, <2>3
<1>5. ASSUME NEW p \in Points, Shared(p)', NEW f \in Observers(p)' PROVE f \in Referable'
  <2>1. f \in Linked' /\ p \in fts_'[f]
    BY <1>5 DEF Inv, GraphInv, LinksInv
  <2>2. f \in Frames /\ f \in Linked /\ p \in fts_[f] /\ f # kf
    BY <1>2, <1>4, <2>1 DEF Linked
  <2>3. Shared(p) /\ f \in Observers(p)
    BY <2>2 DEF Inv, GraphInv, LinksInv
  <2> QED BY <1>3, <2>2, <2>3 DEF KnownInv
<1>6. \A c \in candidates_' : c[2] \in Referable'
  BY <1>1, <1>3 DEF KnownInv, CandidatesOf
<1> QED BY <1>3, <1>5, <1>6 DEF KnownInv

LEMMA KnownMapper ==
  ASSUME Inv, KnownInv, MapperStep PROVE KnownInv'
<1>1. UNCHANGED <<keyframes_, pc, frames, late>>
  BY DEF MapperStep, InitializeSeeds, LastSeedErased, SeedConverges, NewCandidatePoint, mapVars,
         filter
<1>2. Referable' = Referable
  BY <1>1 DEF Referable, MapFrames, frames
<1>3. CASE InitializeSeeds \/ LastSeedErased
  <2>1. Pending' \subseteq Pending /\ UNCHANGED <<obs_, type_, candidates_>>
    BY <1>3 DEF InitializeSeeds, LastSeedErased, Filter!MakeSeeds, Filter!Erase, mapVars, graph,
                Pending
  <2> QED BY <1>2, <2>1 DEF KnownInv, Shared, Observers
<1>4. CASE SeedConverges
  <2>1. PICK f \in seeded : NewCandidatePoint(f)
    BY <1>4 DEF SeedConverges
  <2>2. PICK p \in Points : /\ type_' = [type_ EXCEPT ![p] = "candidate"]
                            /\ obs_' = [obs_ EXCEPT ![p] = <<f>>]
                            /\ candidates_' = candidates_ \cup {<<p, f>>}
    BY <2>1 DEF NewCandidatePoint
  <2>3. f \in Referable /\ Pending' = Pending
    BY <1>4 DEF SeedConverges, KnownInv, Pending, filter
  <2>4. \A q \in Points : Shared(q)' => Shared(q) /\ obs_'[q] = obs_[q]
    BY <2>2 DEF Inv, TypesInv, Shared
  <2> QED BY <1>2, <2>2, <2>3, <2>4 DEF KnownInv, Observers
<1> QED BY <1>3, <1>4 DEF MapperStep

LEMMA KnownStep ==
  ASSUME Inv, Inv', KnownInv, [Next]_vars PROVE KnownInv'
<1>1. CASE \E f \in Frames : AddImage(f)
  BY <1>1, KnownAddImage
<1>2. CASE Start \/ SecondFrameFails \/ RelocalizeFrame \/ RemoveFurthest
  BY <1>2, KnownTurn
<1>3. CASE ResetMap \/ ResetFilter
  BY <1>3, KnownReset
<1>4. CASE \/ ProcessFirstFrame \/ SecondFrameNoKeyframe \/ RelocalizationFails
           \/ ProcessFrameFails \/ NoKeyframe \/ AddToMap
  BY <1>4, KnownFinish
<1>5. CASE ProcessSecondFrame
  BY <1>5, KnownSecondFrame
<1>6. CASE ReprojectMap
  BY <1>6, KnownReproject
<1>7. CASE SelectKeyframe
  BY <1>7, KnownSelect
<1>8. CASE EraseFurthest
  BY <1>8, KnownErase
<1>9. CASE MapperStep
  BY <1>9, KnownMapper
<1>10. CASE UNCHANGED vars
  BY <1>10 DEF vars, mapVars, graph, frames, filter, KnownInv, Referable, Pending, Shared,
               Observers, MapFrames
<1> QED BY <1>1, <1>2, <1>3, <1>4, <1>5, <1>6, <1>7, <1>8, <1>9, <1>10 DEF Next, TrackerStep

LEMMA OnlyReferable == Spec => [](Inv /\ KnownInv)
<1>1. Init => KnownInv
  BY DEF Init, MapInit, Filter!Init, KnownInv, Shared, Pending
<1>2. Inv /\ Inv' /\ KnownInv /\ [Next]_vars => KnownInv'
  BY KnownStep
<1> QED BY <1>1, <1>2, BookkeepingCorrect, PTL DEF Spec

LEMMA MapFramesLinked == Inv => MapFrames \subseteq Linked
BY DEF Linked, MapFrames, Inv, TypesInv, ControlInv, Working

(* A feature of a keyframe and its point refer to each other, and a point   *)
(* of the map to no other frames than the map's and those the mapper still  *)
(* had when they left it, however late the mapper is.                       *)
THEOREM ReferencesCorrect == Spec => []ReferencesAgree
<1>1. Inv /\ KnownInv => ReferencesAgree
  BY MapFramesLinked DEF Inv, GraphInv, LinksInv, KnownInv, ReferencesAgree, Shared
<1> QED BY <1>1, OnlyReferable, PTL

(* A candidate has one view, by a keyframe of the map or one the mapper had *)
(* when it left, and is no point of a keyframe.                             *)
THEOREM CandidatesHaveKeyframes == Spec => []CandidatesCorrect
<1>1. Inv /\ KnownInv => CandidatesCorrect
  <2> SUFFICES ASSUME Inv, KnownInv, NEW c \in candidates_
               PROVE  /\ type_[c[1]] = "candidate" /\ obs_[c[1]] = <<c[2]>>
                      /\ c[2] \in Referable
                      /\ \A f \in MapFrames : c[1] \notin fts_[f]
    BY DEF CandidatesCorrect
  <2>1. type_[c[1]] = "candidate" /\ obs_[c[1]] = <<c[2]>> /\ c[2] \in Referable
    BY DEF Inv, GraphInv, CandidatesInv, KnownInv
  <2>2. \A f \in MapFrames : c[1] \notin fts_[f]
    BY <2>1, MapFramesLinked DEF Inv, GraphInv, LinksInv, Shared
  <2> QED BY <2>1, <2>2
<1> QED BY <1>1, OnlyReferable, PTL
=============================================================================
