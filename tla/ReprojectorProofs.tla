--------------------------- MODULE ReprojectorProofs ---------------------------
(***************************************************************************)
(* The properties of the reprojector, for any number of points, keyframes  *)
(* and cells, and any limits.                                              *)
(***************************************************************************)
EXTENDS Reprojector, FiniteSetTheorems, TLAPS

-----------------------------------------------------------------------------
(* The invariant                                                            *)

PointTypes == {"none", "deleted", "candidate", "unknown", "good"}
Shared == {"unknown", "good"}
Usable == Shared \cup {"candidate"}

TypesInv ==
  /\ fts_ \in [Keyframes -> SUBSET Points] /\ candidates_ \subseteq Points \X Keyframes
  /\ type_ \in [Points -> PointTypes]
  /\ n_failed_ \in [Points -> 0 .. FailedLimit + 1]
  /\ n_succeeded_ \in [Points -> 0 .. MaxSucceeded + 1]
  /\ projected \subseteq Points /\ cells \in [Cells -> SUBSET Entries] /\ i \in Cells
  /\ features \subseteq Points /\ n_matches_ = Cardinality(features)
  /\ pc \in {"idle", "keyframes", "cells", "decide"}
  /\ close \subseteq Keyframes
  /\ px \in [Points -> {0} \cup Cells]
  /\ before \in [types : [Points -> PointTypes], fts : [Keyframes -> SUBSET Points]]

(* Keyframes have points that are no candidates, and the list has exactly   *)
(* the candidates.                                                         *)
MapInv ==
  /\ \A k \in Keyframes : \A p \in fts_[k] : type_[p] \in Shared
  /\ CandidatePoints = {p \in Points : type_[p] = "candidate"}
  /\ \A c, d \in candidates_ : c[1] = d[1] => c = d
  /\ \A p \in Points : type_[p] = "none" => n_failed_[p] = 0
  /\ CountersWithinLimits

(* An entry is in the cell its point falls into; before the candidates are  *)
(* projected it is marked as projected.                                    *)
GridInv ==
  /\ CellsSound
  /\ pc # "idle" => \A c \in Cells : \A e \in cells[c] : px[e.pt] = c
  /\ pc = "keyframes" =>
       /\ features = {}
       /\ \A c \in Cells : \A e \in cells[c] : e.pt \in projected /\ type_[e.pt] \in Shared

(* What has become of the points since the frame came.                      *)
JudgedInv ==
  pc # "idle" =>
    /\ \A p \in Points : Judged(p)
    /\ \A k \in Keyframes : fts_[k] = {p \in before.fts[k] : type_[p] # "deleted"}
    /\ \A k \in Keyframes : \A p \in before.fts[k] : before.types[p] \in Shared

(* The cells that are done.                                                 *)
FeaturesInv ==
  pc # "idle" =>
    /\ \A p \in features : type_[p] \in Usable /\ px[p] \in Cells /\ px[p] <= i
    /\ pc = "cells" => \A p \in features : px[p] < i
    /\ \A p, q \in features : px[p] = px[q] => p = q
BestInv ==
  /\ pc = "cells" => n_matches_ <= MaxFts /\ \A c \in Cells : c < i => MatchedBest(c)
  /\ n_matches_ <= MaxFts + 1
  /\ BestMatched

Inv == TypesInv /\ MapInv /\ GridInv /\ JudgedInv /\ FeaturesInv /\ BestInv

LEMMA Limits ==
  /\ MaxNKfs \in Nat /\ MaxFts \in Nat /\ OutOfFrame \in Nat /\ MaxSucceeded \in Nat
  /\ NCells \in Nat \ {0} /\ IsFiniteSet(Points)
  /\ MaxFailed.unknown \in Nat /\ MaxFailed.candidate \in Nat
  /\ MaxFailed["unknown"] \in Nat /\ MaxFailed["candidate"] \in Nat
  /\ FailedLimit \in Nat /\ MaxFailed.unknown <= FailedLimit
  /\ MaxFailed.candidate <= FailedLimit
<1>1. MaxFailed.unknown \in Nat /\ MaxFailed.candidate \in Nat
  BY LimitsAssumption
<1> QED BY <1>1, LimitsAssumption DEF FailedLimit

LEMMA CountToLimit ==
  ASSUME NEW limit \in Nat, NEW n \in Nat
  PROVE  /\ CountTo(limit, n) \in 0 .. limit + 1
         /\ n <= limit => CountTo(limit, n) = n
         /\ n > limit => CountTo(limit, n) > limit
BY DEF CountTo

LEMMA EmptyFeatures == Cardinality({}) = 0
BY FS_EmptySet

LEMMA OneMore ==
  ASSUME NEW p \in Points, features \subseteq Points, p \notin features
  PROVE  /\ Cardinality(features) \in Nat
         /\ Cardinality(features \cup {p}) = Cardinality(features) + 1
<1>1. IsFiniteSet(features)
  BY Limits, FS_Subset
<1> QED BY <1>1, FS_AddElement, FS_CardinalityType

-----------------------------------------------------------------------------
(* Init                                                                     *)

LEMMA InitInv == Init => Inv
<1> SUFFICES ASSUME Init PROVE Inv
  OBVIOUS
<1>1. PICK initial \in SUBSET Points, k1 \in Keyframes, k2 \in Keyframes :
        /\ fts_ = [k \in Keyframes |-> IF k \in {k1, k2} THEN initial ELSE {}]
        /\ type_ = [p \in Points |-> IF p \in initial THEN "unknown" ELSE "none"]
  BY DEF Init
<1>2. TypesInv
  <2>1. fts_ \in [Keyframes -> SUBSET Points] /\ type_ \in [Points -> PointTypes]
    BY <1>1 DEF PointTypes
  <2>2. /\ n_failed_ \in [Points -> 0 .. FailedLimit + 1]
        /\ n_succeeded_ \in [Points -> 0 .. MaxSucceeded + 1]
        /\ i \in Cells
    BY Limits DEF Init, Cells
  <2>3. before \in [types : [Points -> PointTypes], fts : [Keyframes -> SUBSET Points]]
    BY DEF Init, NoHistory, PointTypes
  <2> QED BY <2>1, <2>2, <2>3, EmptyFeatures DEF Init, TypesInv, NoImage
<1>3. MapInv
  <2>1. candidates_ = {} /\ CandidatePoints = {}
    BY DEF Init, CandidatePoints
  <2>2. \A p \in Points : n_failed_[p] = 0 /\ type_[p] \in {"none", "unknown"}
    BY <1>1 DEF Init
  <2>3. CountersWithinLimits
    BY <2>2, Limits DEF CountersWithinLimits
  <2>4. \A k \in Keyframes : \A p \in fts_[k] : type_[p] \in Shared
    BY <1>1 DEF Shared
  <2> QED BY <2>1, <2>2, <2>3, <2>4 DEF MapInv
<1> QED BY <1>2, <1>3, Limits
        DEF Init, Inv, GridInv, CellsSound, JudgedInv, FeaturesInv, BestInv, BestMatched

-----------------------------------------------------------------------------
(* The steps of a frame                                                     *)

LEMMA NewFrameInv ==
  ASSUME Inv, NewFrame PROVE Inv'
<1> DEFINE freed == {p \in Points : type_[p] = "deleted"}
<1>1. /\ pc = "idle" /\ pc' = "keyframes"
      /\ type_' = [p \in Points |-> IF p \in freed THEN "none" ELSE type_[p]]
      /\ n_failed_' = [p \in Points |-> IF p \in freed THEN 0 ELSE n_failed_[p]]
      /\ n_succeeded_' = [p \in Points |-> IF p \in freed THEN 0 ELSE n_succeeded_[p]]
      /\ cells' = [c \in Cells |-> {}] /\ n_matches_' = 0
      /\ projected' = {} /\ features' = {}
      /\ close' \subseteq Keyframes
      /\ px' \in [Points -> {0} \cup Cells]
      /\ before' = [types |-> type_', fts |-> fts_]
      /\ UNCHANGED <<fts_, candidates_, i>>
  BY DEF NewFrame, CloseKeyframes, map
<1>2. \A p \in Points :
        /\ type_[p] = "deleted" => type_'[p] = "none" /\ n_failed_'[p] = 0
        /\ type_[p] # "deleted" => /\ type_'[p] = type_[p] /\ n_failed_'[p] = n_failed_[p]
                                   /\ n_succeeded_'[p] = n_succeeded_[p]
  BY <1>1
<1>3. TypesInv'
  <2>1. type_' \in [Points -> PointTypes]
    BY <1>1 DEF Inv, TypesInv, PointTypes
  <2>2. /\ n_failed_' \in [Points -> 0 .. FailedLimit + 1]
        /\ n_succeeded_' \in [Points -> 0 .. MaxSucceeded + 1]
    BY <1>1, Limits DEF Inv, TypesInv
  <2>3. cells' \in [Cells -> SUBSET Entries]
    BY <1>1
  <2>4. before' \in [types : [Points -> PointTypes], fts : [Keyframes -> SUBSET Points]]
    BY <1>1, <2>1 DEF Inv, TypesInv
  <2> QED BY <1>1, <2>1, <2>2, <2>3, <2>4, EmptyFeatures DEF Inv, TypesInv
<1>4. MapInv'
  <2>1. \A k \in Keyframes : \A p \in fts_'[k] : type_'[p] \in Shared
    BY <1>1, <1>2 DEF Inv, TypesInv, MapInv, Shared
  <2>2. CandidatePoints' = {p \in Points : type_'[p] = "candidate"}
    BY <1>1, <1>2 DEF Inv, MapInv, CandidatePoints
  <2>3. CountersWithinLimits'
    BY <1>2 DEF Inv, MapInv, CountersWithinLimits
  <2> QED BY <1>1, <1>2, <2>1, <2>2, <2>3 DEF Inv, MapInv
<1>5. GridInv'
  BY <1>1 DEF GridInv, CellsSound
<1>6. JudgedInv'
  <2>1. \A p \in Points : Judged(p)'
    BY <1>1 DEF Judged
  <2>2. \A k \in Keyframes : \A p \in fts_[k] : type_'[p] \in Shared
    BY <1>1, <1>4 DEF MapInv
  <2>3. \A k \in Keyframes : fts_'[k] = {p \in before'.fts[k] : type_'[p] # "deleted"}
    BY <1>1, <2>2 DEF Shared
  <2> QED BY <1>1, <2>1, <2>2, <2>3 DEF JudgedInv
<1>7. FeaturesInv' /\ BestInv'
  BY <1>1, Limits DEF FeaturesInv, BestInv, BestMatched
<1> QED BY <1>3, <1>4, <1>5, <1>6, <1>7 DEF Inv

(* What projecting adds to the cells.                                       *)
LEMMA Projection ==
  ASSUME TypesInv, NEW new \in SUBSET Entries, Reproject(new)
  PROVE  /\ cells' \in [Cells -> SUBSET Entries]
         /\ \A c \in Cells : \A e \in cells'[c] : e \in cells[c] \/ (e \in new /\ px[e.pt] = c)
<1>1. \A c \in Cells : cells'[c] = cells[c] \cup {e \in new : px[e.pt] = c}
  BY DEF Reproject
<1>2. cells' \in [Cells -> SUBSET Entries]
  BY DEF TypesInv, Reproject
<1> QED BY <1>1, <1>2

LEMMA ProjectKeyframeInv ==
  ASSUME Inv, ProjectKeyframe PROVE Inv'
<1>1. PICK k \in close :
        LET new == {p \in fts_[k] : ProjectOnce(p)}
        IN  /\ projected' = projected \cup new
            /\ Reproject([pt : new, kf : {k}, candidate : {FALSE}])
            /\ close' = close \ {k}
  BY DEF ProjectKeyframe
<1> DEFINE new == {p \in fts_[k] : ProjectOnce(p)}
           entries == [pt : new, kf : {k}, candidate : {FALSE}]
<1>2. /\ pc = "keyframes"
      /\ UNCHANGED <<fts_, candidates_, type_, n_failed_, n_succeeded_, n_matches_, features, pc,
                     i, px, before>>
  BY DEF ProjectKeyframe, map, points, image
<1>3. k \in Keyframes /\ new \subseteq Points /\ \A p \in new : type_[p] \in Shared /\ p \notin projected
  BY DEF Inv, TypesInv, MapInv, ProjectOnce
<1>4. entries \in SUBSET Entries /\ \A e \in entries : e.pt \in new /\ e.kf = k /\ e.candidate = FALSE
  BY <1>3 DEF Entries
<1>5. \A e, f \in entries : e.pt = f.pt => e = f
  <2>1. ASSUME NEW e \in entries PROVE e = [pt |-> e.pt, kf |-> k, candidate |-> FALSE]
    OBVIOUS
  <2> HIDE DEF entries
  <2> QED BY <2>1
<1> HIDE DEF new, entries
<1>6. /\ projected' = projected \cup new /\ Reproject(entries) /\ close' = close \ {k}
  BY <1>1 DEF new, entries
<1>7. /\ cells' \in [Cells -> SUBSET Entries]
      /\ \A c \in Cells : \A e \in cells'[c] : e \in cells[c] \/ (e \in entries /\ px[e.pt] = c)
  BY <1>4, <1>6, Projection DEF Inv
<1>8. TypesInv'
  BY <1>2, <1>3, <1>6, <1>7 DEF Inv, TypesInv
<1>9. MapInv'
  BY <1>2 DEF Inv, MapInv, CandidatePoints, CountersWithinLimits
<1>10. GridInv'
  <2>1. features = {} /\ pc # "idle"
    BY <1>2 DEF Inv, GridInv
  <2>2. ASSUME NEW c \in Cells, NEW e \in cells'[c]
        PROVE  px[e.pt] = c /\ e.pt \in projected' /\ type_[e.pt] \in Shared
    <3>1. CASE e \in cells[c]
      BY <1>2, <1>6, <3>1 DEF Inv, GridInv
    <3>2. CASE e \in entries /\ px[e.pt] = c
      BY <1>3, <1>4, <1>6, <3>2
    <3> QED BY <1>7, <3>1, <3>2
  <2>3. ASSUME NEW c \in Cells, NEW d \in Cells, NEW e \in cells'[c], NEW f \in cells'[d], e.pt = f.pt
        PROVE  c = d /\ e = f
    <3>1. c = d
      BY <2>2, <2>3
    <3>2. CASE e \in cells[c] /\ f \in cells[d]
      BY <1>2, <2>3, <3>2 DEF Inv, GridInv, CellsSound
    <3>3. CASE e \in entries /\ f \in entries
      BY <1>5, <2>3, <3>1, <3>3
    <3>4. \A g \in entries : g.pt \notin projected
      BY <1>3, <1>4
    <3>5. \A g \in cells[c] : g.pt \in projected
      BY <1>2 DEF Inv, GridInv
    <3>6. (e \in cells[c] \/ e \in entries) /\ (f \in cells[c] \/ f \in entries)
      BY <1>7, <3>1
    <3> QED BY <2>3, <3>1, <3>2, <3>3, <3>4, <3>5, <3>6
  <2>4. CellsSound'
    BY <1>2, <2>1, <2>2, <2>3 DEF CellsSound, Shared
  <2> QED BY <1>2, <2>1, <2>2, <2>4 DEF GridInv
<1>11. JudgedInv'
  BY <1>2 DEF Inv, JudgedInv, Judged, OldType
<1>12. FeaturesInv' /\ BestInv'
  BY <1>2 DEF Inv, FeaturesInv, BestInv, BestMatched
<1> QED BY <1>8, <1>9, <1>10, <1>11, <1>12 DEF Inv

LEMMA ProjectCandidatesInv ==
  ASSUME Inv, ProjectCandidates PROVE Inv'
<1> DEFINE out == {p \in CandidatePoints : px[p] = 0}
           gone == {p \in out : n_failed_[p] + OutOfFrame > MaxFailed.candidate}
           entries == {[pt |-> c[1], kf |-> c[2], candidate |-> TRUE] : c \in candidates_}
<1>1. /\ pc = "keyframes" /\ pc' = "cells" /\ i' = 1
      /\ n_failed_' = [p \in Points |->
              IF p \in out THEN CountTo(FailedLimit, n_failed_[p] + OutOfFrame)
                           ELSE n_failed_[p]]
      /\ type_' = [p \in Points |-> IF p \in gone THEN "deleted" ELSE type_[p]]
      /\ candidates_' = {c \in candidates_ : c[1] \notin gone}
      /\ Reproject(entries)
      /\ UNCHANGED <<fts_, n_succeeded_, projected, n_matches_, features, close, px, before>>
  BY DEF ProjectCandidates, WithoutCandidates, image
<1>2. /\ out \subseteq Points /\ gone \subseteq out
      /\ \A p \in out : type_[p] = "candidate" /\ px[p] = 0
  BY DEF Inv, MapInv
<1>3. \A p \in Points :
        /\ type_'[p] # type_[p] => p \in gone /\ type_[p] = "candidate" /\ type_'[p] = "deleted"
        /\ p \in gone => type_'[p] = "deleted" /\ px[p] = 0
        /\ p \notin out => n_failed_'[p] = n_failed_[p]
  BY <1>1, <1>2
<1>4. ASSUME NEW p \in out
      PROVE  /\ n_failed_'[p] \in 0 .. FailedLimit + 1
             /\ p \notin gone => n_failed_'[p] <= MaxFailed.candidate
  <2>1. n_failed_[p] + OutOfFrame \in Nat
    BY <1>2, Limits DEF Inv, TypesInv
  <2>2. n_failed_'[p] = CountTo(FailedLimit, n_failed_[p] + OutOfFrame)
    BY <1>1, <1>2
  <2> HIDE DEF out
  <2> QED BY <2>1, <2>2, Limits, CountToLimit
<1>5. entries \in SUBSET Entries /\ \A e \in entries : e.candidate = TRUE /\ <<e.pt, e.kf>> \in candidates_
  <2>1. \A c \in candidates_ : c = <<c[1], c[2]>> /\ c[1] \in Points /\ c[2] \in Keyframes
    BY DEF Inv, TypesInv
  <2>2. ASSUME NEW e \in entries
        PROVE  e \in Entries /\ e.candidate = TRUE /\ <<e.pt, e.kf>> \in candidates_
    <3>1. PICK c \in candidates_ : e = [pt |-> c[1], kf |-> c[2], candidate |-> TRUE]
      OBVIOUS
    <3> QED BY <2>1, <3>1 DEF Entries
  <2> HIDE DEF entries
  <2> QED BY <2>2
<1>6. \A e \in entries : e = [pt |-> e.pt, kf |-> e.kf, candidate |-> TRUE]
  OBVIOUS
<1>7. \A e, f \in entries : e.pt = f.pt => e = f
  <2>1. \A e, f \in entries : e.pt = f.pt => e.kf = f.kf
    BY <1>5 DEF Inv, MapInv
  <2> HIDE DEF entries
  <2> QED BY <1>6, <2>1
<1>8. \A e \in entries : type_[e.pt] = "candidate"
  <2>1. \A c \in candidates_ : c[1] \in Points /\ c[1] \in CandidatePoints
    BY DEF Inv, TypesInv, CandidatePoints
  <2> QED BY <2>1 DEF Inv, MapInv
<1> HIDE DEF out, gone, entries
<1>9. /\ cells' \in [Cells -> SUBSET Entries]
      /\ \A c \in Cells : \A e \in cells'[c] : e \in cells[c] \/ (e \in entries /\ px[e.pt] = c)
  BY <1>1, <1>5, Projection DEF Inv
<1>10. 1 \in Cells /\ \A c \in Cells : 1 <= c
  BY Limits DEF Cells
<1>11. TypesInv'
  <2>1. type_' \in [Points -> PointTypes]
    BY <1>1 DEF Inv, TypesInv, PointTypes
  <2>2. n_failed_' \in [Points -> 0 .. FailedLimit + 1]
    <3>1. \A p \in Points : n_failed_'[p] \in 0 .. FailedLimit + 1
      BY <1>3, <1>4 DEF Inv, TypesInv
    <3> QED BY <1>1, <3>1
  <2> QED BY <1>1, <1>9, <1>10, <2>1, <2>2 DEF Inv, TypesInv
<1>12. MapInv'
  <2>1. \A k \in Keyframes : \A p \in fts_'[k] : type_'[p] \in Shared
    <3>1. \A k \in Keyframes : fts_[k] \subseteq Points
      BY DEF Inv, TypesInv
    <3> QED BY <1>1, <1>3, <3>1 DEF Inv, MapInv, Shared
  <2>2. CandidatePoints' = {p \in Points : type_'[p] = "candidate"}
    BY <1>1, <1>3 DEF Inv, MapInv, CandidatePoints
  <2>3. \A p \in Points : type_'[p] = "none" => n_failed_'[p] = 0
    BY <1>2, <1>3 DEF Inv, MapInv
  <2>4. CountersWithinLimits'
    BY <1>1, <1>2, <1>3, <1>4, Limits DEF Inv, MapInv, CountersWithinLimits
  <2>5. \A c, d \in candidates_' : c[1] = d[1] => c = d
    BY <1>1 DEF Inv, MapInv
  <2> QED BY <2>1, <2>2, <2>3, <2>4, <2>5 DEF MapInv
<1>13. GridInv'
  <2>1. features = {} /\ features' = {}
    BY <1>1 DEF Inv, GridInv
  <2>2. ASSUME NEW c \in Cells, NEW e \in cells'[c]
        PROVE  px[e.pt] = c /\ e.pt \in Points /\ type_'[e.pt] \in Usable
    <3>0. e.pt \in Points
      BY <1>9 DEF Entries
    <3>1. px[e.pt] = c
      BY <1>1, <1>9 DEF Inv, GridInv
    <3>2. type_[e.pt] \in Usable
      BY <1>1, <1>8, <1>9 DEF Inv, GridInv, Usable
    <3>3. c # 0
      BY DEF Cells
    <3> QED BY <1>3, <3>0, <3>1, <3>2, <3>3
  <2>3. ASSUME NEW c \in Cells, NEW d \in Cells, NEW e \in cells'[c], NEW f \in cells'[d], e.pt = f.pt
        PROVE  c = d /\ e = f
    <3>1. c = d
      BY <2>2, <2>3
    <3>2. CASE e \in cells[c] /\ f \in cells[d]
      BY <1>1, <2>3, <3>2 DEF Inv, GridInv, CellsSound
    <3>3. CASE e \in entries /\ f \in entries
      BY <1>7, <2>3, <3>1, <3>3
    <3>4. \A g \in cells[c] : type_[g.pt] # "candidate"
      BY <1>1 DEF Inv, GridInv, Shared
    <3>5. (e \in cells[c] \/ e \in entries) /\ (f \in cells[c] \/ f \in entries)
      BY <1>9, <3>1
    <3> QED BY <1>8, <2>3, <3>1, <3>2, <3>3, <3>4, <3>5
  <2>4. CellsSound'
    BY <1>1, <2>1, <2>2, <2>3 DEF CellsSound, Usable, Shared
  <2> QED BY <1>1, <2>2, <2>4 DEF GridInv
<1>14. JudgedInv'
  <2>1. ASSUME NEW p \in Points PROVE Judged(p)'
    <3>1. p \notin features'
      BY <1>1 DEF Inv, GridInv
    <3>2. Judged(p) /\ p \notin features
      BY <1>1 DEF Inv, JudgedInv, GridInv
    <3>3. CASE type_'[p] = type_[p]
      BY <1>1, <3>1, <3>2, <3>3 DEF Judged, OldType
    <3>4. CASE type_'[p] # type_[p]
      <4>1. type_[p] = "candidate" /\ type_'[p] = "deleted"
        BY <1>3, <3>4
      <4>2. OldType(p) = "candidate"
        BY <3>2, <4>1 DEF Judged, OldType
      <4> QED BY <1>1, <3>1, <4>1, <4>2 DEF Judged, OldType
    <3> QED BY <3>3, <3>4
  <2>2. ASSUME NEW k \in Keyframes, NEW p \in before.fts[k]
        PROVE  type_'[p] # "deleted" <=> type_[p] # "deleted"
    <3>1. p \in Points /\ before.types[p] \in Shared /\ Judged(p)
      BY <1>1 DEF Inv, TypesInv, JudgedInv
    <3>2. type_[p] # "candidate"
      BY <3>1 DEF Judged, Shared
    <3> QED BY <1>3, <3>1, <3>2
  <2> QED BY <1>1, <2>1, <2>2 DEF Inv, JudgedInv
<1>15. FeaturesInv' /\ BestInv'
  <2>1. features' = {} /\ n_matches_' = 0
    BY <1>1, EmptyFeatures DEF Inv, TypesInv, GridInv
  <2> QED BY <1>1, <1>10, <2>1, Limits DEF FeaturesInv, BestInv, BestMatched, Cells
<1> QED BY <1>11, <1>12, <1>13, <1>14, <1>15 DEF Inv

LEMMA NextCellStep ==
  ASSUME NEW matches, i \in Cells, pc = "cells", NextCell(matches)
  PROVE  /\ i' \in Cells /\ pc' \in {"cells", "decide"}
         /\ pc' = "cells" => i' = i + 1 /\ ~(matches > MaxFts)
         /\ pc' = "decide" => i' = i /\ (matches > MaxFts \/ i = NCells)
BY Limits DEF NextCell, Cells

(* The entry that is tried: its point is in no other, and has the type it   *)
(* had when the frame came.                                                *)
LEMMA Tried ==
  ASSUME Inv, pc = "cells", NEW e \in BestOf(cells[i])
  PROVE  /\ e \in cells[i] /\ e \in Entries
         /\ e.pt \in Points /\ e.pt \notin features
         /\ type_[e.pt] \in Usable /\ px[e.pt] = i /\ i \in Cells
         /\ OldType(e.pt) = type_[e.pt]
         /\ \A c \in Cells : \A f \in cells[c] :
              /\ f.pt = e.pt => c = i /\ f = e
              /\ c = i => Quality[type_[f.pt]] <= Quality[type_[e.pt]]
<1>1. i \in Cells /\ e \in cells[i] /\ cells[i] \subseteq Entries
  BY DEF Inv, TypesInv, BestOf
<1>2. e.pt \in Points
  BY <1>1 DEF Entries
<1>3. e.pt \notin features /\ type_[e.pt] \in Usable
  BY <1>1 DEF Inv, GridInv, CellsSound, Usable, Shared
<1>4. Judged(e.pt)
  BY <1>2 DEF Inv, JudgedInv
<1>5. OldType(e.pt) = type_[e.pt]
  BY <1>3, <1>4 DEF Judged, OldType, Usable, Shared
<1>6. px[e.pt] = i
  BY <1>1 DEF Inv, GridInv
<1>7. \A c \in Cells : \A f \in cells[c] : f.pt = e.pt => c = i /\ f = e
  BY <1>1 DEF Inv, GridInv, CellsSound
<1>8. \A f \in cells[i] : Quality[type_[f.pt]] <= Quality[type_[e.pt]]
  BY DEF BestOf
<1> QED BY <1>1, <1>2, <1>3, <1>5, <1>6, <1>7, <1>8

LEMMA MatchPointInv ==
  ASSUME Inv, MatchPoint PROVE Inv'
<1>1. PICK e \in BestOf(cells[i]) :
        LET p == e.pt
            succeeded == n_succeeded_[p] + 1
        IN  /\ type_[p] # "deleted"
            /\ n_succeeded_' = [n_succeeded_ EXCEPT ![p] = CountTo(MaxSucceeded, succeeded)]
            /\ type_' = [type_ EXCEPT ![p] = IF @ = "unknown" /\ succeeded > MaxSucceeded
                                             THEN "good" ELSE @]
            /\ features' = features \cup {p}
            /\ cells' = [cells EXCEPT ![i] = @ \ {e}]
  BY DEF MatchPoint
<1> DEFINE p == e.pt
           succeeded == n_succeeded_[p] + 1
<1>2. /\ pc = "cells" /\ n_matches_' = n_matches_ + 1 /\ NextCell(n_matches_ + 1)
      /\ UNCHANGED <<fts_, candidates_, n_failed_, projected, close, px, before>>
  BY DEF MatchPoint, map, image
<1>3. /\ e \in cells[i] /\ e \in Entries
      /\ p \in Points /\ p \notin features /\ type_[p] \in Usable /\ px[p] = i /\ i \in Cells
      /\ OldType(p) = type_[p]
      /\ \A c \in Cells : \A f \in cells[c] :
           /\ f.pt = p => c = i /\ f = e
           /\ c = i => Quality[type_[f.pt]] <= Quality[type_[p]]
  BY <1>2, Tried
<1> HIDE DEF p
<1>4. /\ n_succeeded_' = [n_succeeded_ EXCEPT ![p] = CountTo(MaxSucceeded, succeeded)]
      /\ type_' = [type_ EXCEPT ![p] = IF @ = "unknown" /\ succeeded > MaxSucceeded
                                       THEN "good" ELSE @]
      /\ features' = features \cup {p}
      /\ cells' = [cells EXCEPT ![i] = @ \ {e}]
  BY <1>1 DEF p
<1>5. /\ succeeded \in Nat
      /\ n_succeeded_'[p] = CountTo(MaxSucceeded, succeeded)
      /\ CountTo(MaxSucceeded, succeeded) \in 0 .. MaxSucceeded + 1
      /\ succeeded > MaxSucceeded => CountTo(MaxSucceeded, succeeded) > MaxSucceeded
  <2>1. n_succeeded_[p] \in 0 .. MaxSucceeded + 1 /\ succeeded \in Nat
    BY <1>3, Limits DEF Inv, TypesInv
  <2>2. n_succeeded_'[p] = CountTo(MaxSucceeded, succeeded)
    BY <1>3, <1>4 DEF Inv, TypesInv
  <2> QED BY <2>1, <2>2, Limits, CountToLimit
<1>6. n_succeeded_[p] > MaxSucceeded => n_succeeded_'[p] > MaxSucceeded
  <2>1. n_succeeded_[p] \in Nat /\ MaxSucceeded \in Nat
    BY <1>3, Limits DEF Inv, TypesInv
  <2> QED BY <1>5, <2>1
<1>7. /\ type_'[p] = type_[p] \/ (type_[p] = "unknown" /\ type_'[p] = "good" /\ succeeded > MaxSucceeded)
      /\ \A q \in Points : q # p => type_'[q] = type_[q] /\ n_succeeded_'[q] = n_succeeded_[q]
  BY <1>3, <1>4 DEF Inv, TypesInv
<1>8. /\ cells' \in [Cells -> SUBSET Entries]
      /\ \A c \in Cells : cells'[c] = IF c = i THEN cells[i] \ {e} ELSE cells[c]
      /\ \A c \in Cells : \A f \in cells'[c] : f \in cells[c] /\ f.pt \in Points /\ f.pt # p
  <2>1. /\ cells' \in [Cells -> SUBSET Entries]
        /\ \A c \in Cells : cells'[c] = IF c = i THEN cells[i] \ {e} ELSE cells[c]
    BY <1>3, <1>4 DEF Inv, TypesInv
  <2>2. \A c \in Cells : \A f \in cells'[c] : f \in cells[c] /\ f.pt \in Points
    BY <2>1 DEF Entries
  <2> QED BY <1>3, <2>1, <2>2
<1>9. /\ i' \in Cells /\ pc' \in {"cells", "decide"}
      /\ pc' = "cells" => i' = i + 1 /\ ~(n_matches_ + 1 > MaxFts)
      /\ pc' = "decide" => i' = i /\ (n_matches_ + 1 > MaxFts \/ i = NCells)
  BY <1>2, <1>3, NextCellStep
<1> HIDE DEF succeeded
<1>10. TypesInv'
  <2>1. n_succeeded_' \in [Points -> 0 .. MaxSucceeded + 1]
    BY <1>3, <1>4, <1>5 DEF Inv, TypesInv
  <2>2. type_' \in [Points -> PointTypes]
    BY <1>3, <1>4 DEF Inv, TypesInv, PointTypes
  <2>3. n_matches_' = Cardinality(features')
    BY <1>2, <1>3, <1>4, OneMore DEF Inv, TypesInv
  <2> QED BY <1>2, <1>3, <1>4, <1>8, <1>9, <2>1, <2>2, <2>3 DEF Inv, TypesInv
<1>11. MapInv'
  <2>1. ASSUME NEW k \in Keyframes, NEW q \in fts_'[k] PROVE type_'[q] \in Shared
    <3>1. q \in Points /\ type_[q] \in Shared
      BY <1>2, <2>1 DEF Inv, TypesInv, MapInv
    <3> QED BY <1>7, <3>1 DEF Shared
  <2>2. \A q \in Points : type_'[q] = "candidate" <=> type_[q] = "candidate"
    BY <1>3, <1>7
  <2>3. CandidatePoints' = {q \in Points : type_'[q] = "candidate"}
    BY <1>2, <2>2 DEF Inv, MapInv, CandidatePoints
  <2>4. \A q \in Points : type_'[q] = "none" => n_failed_'[q] = 0
    BY <1>2, <1>3, <1>7 DEF Inv, MapInv
  <2>5. CountersWithinLimits'
    BY <1>2, <1>3, <1>5, <1>6, <1>7 DEF Inv, MapInv, CountersWithinLimits
  <2> QED BY <1>2, <2>1, <2>3, <2>4, <2>5 DEF Inv, MapInv
<1>12. GridInv'
  <2>1. CellsSound'
    BY <1>2, <1>4, <1>7, <1>8 DEF Inv, GridInv, CellsSound
  <2> QED BY <1>2, <1>8, <1>9, <2>1 DEF Inv, GridInv
<1>13. JudgedInv'
  <2>1. ASSUME NEW q \in Points PROVE Judged(q)'
    BY <1>2, <1>3, <1>4, <1>7 DEF Inv, JudgedInv, Judged, OldType, Usable, Shared
  <2>2. \A k \in Keyframes : before.fts[k] \subseteq Points
    BY DEF Inv, TypesInv
  <2>3. \A q \in Points : type_'[q] # "deleted" <=> type_[q] # "deleted"
    BY <1>3, <1>7 DEF Usable, Shared
  <2> QED BY <1>2, <2>1, <2>2, <2>3 DEF Inv, JudgedInv
<1>14. FeaturesInv'
  <2>1. i \in Nat
    BY <1>3 DEF Cells
  <2>2. \A q \in features : q \in Points /\ q # p /\ type_[q] \in Usable /\ px[q] \in Cells /\ px[q] < i
    BY <1>2, <1>3 DEF Inv, TypesInv, FeaturesInv
  <2>3. \A q \in features' : type_'[q] \in Usable /\ px[q] \in Cells /\ px[q] <= i
    BY <1>3, <1>4, <1>7, <2>1, <2>2 DEF Usable, Shared, Cells
  <2>4. \A q, r \in features' : px[q] = px[r] => q = r
    BY <1>2, <1>3, <1>4, <2>1, <2>2 DEF Inv, FeaturesInv, Cells
  <2>5. \A q \in features' : px[q] \in Nat
    BY <2>3 DEF Cells
  <2> QED BY <1>2, <1>9, <2>1, <2>3, <2>4, <2>5 DEF FeaturesInv
<1>15. BestInv'
  <2>1. i \in Nat /\ n_matches_ \in Nat /\ MaxFts \in Nat /\ n_matches_ <= MaxFts
    <3>1. features \subseteq Points /\ n_matches_ = Cardinality(features) /\ n_matches_ <= MaxFts
      BY <1>2 DEF Inv, TypesInv, BestInv
    <3>2. n_matches_ \in Nat
      BY <1>3, <3>1, OneMore
    <3> QED BY <1>3, <3>1, <3>2, Limits DEF Cells
  <2>2. \A q \in features : q \in Points
    BY DEF Inv, TypesInv
  <2>3. ASSUME NEW c \in Cells, c < i PROVE MatchedBest(c)'
    <3>1. MatchedBest(c) /\ cells'[c] = cells[c]
      BY <1>2, <1>8, <2>1, <2>3 DEF Inv, BestInv
    <3>2. CASE cells[c] = {}
      BY <3>1, <3>2 DEF MatchedBest
    <3>3. CASE \E q \in features : /\ px[q] = c
                                   /\ \A f \in cells[c] : Quality[type_[f.pt]] <= Quality[OldType(q)]
      <4>1. PICK q \in features : /\ px[q] = c
                                  /\ \A f \in cells[c] : Quality[type_[f.pt]] <= Quality[OldType(q)]
        BY <3>3
      <4>2. q \in features' /\ px'[q] = c /\ OldType(q)' = OldType(q)
        BY <1>2, <1>4, <4>1 DEF OldType
      <4>3. \A f \in cells'[c] : type_'[f.pt] = type_[f.pt]
        BY <1>7, <1>8
      <4> QED BY <3>1, <4>1, <4>2, <4>3 DEF MatchedBest
    <3> QED BY <3>1, <3>2, <3>3 DEF MatchedBest
  <2>4. ASSUME NEW c \in Cells, c = i PROVE MatchedBest(c)'
    <3>1. p \in features' /\ px'[p] = c /\ OldType(p)' = type_[p]
      BY <1>2, <1>3, <1>4, <2>4 DEF OldType
    <3>2. \A f \in cells'[c] : /\ type_'[f.pt] = type_[f.pt]
                               /\ Quality[type_[f.pt]] <= Quality[type_[p]]
      BY <1>3, <1>7, <1>8, <2>4
    <3> QED BY <3>1, <3>2 DEF MatchedBest
  <2>5. \A c \in Cells : c <= i => MatchedBest(c)'
    BY <2>1, <2>3, <2>4 DEF Cells
  <2>6. \A c \in Cells : c \in Nat /\ c <= NCells
    BY DEF Cells
  <2>7. pc' = "cells" => \A c \in Cells : c < i' => MatchedBest(c)'
    BY <1>9, <2>1, <2>5, <2>6
  <2>8. BestMatched'
    BY <1>2, <1>9, <2>1, <2>5, <2>6, Limits DEF BestMatched
  <2> QED BY <1>2, <1>9, <2>1, <2>7, <2>8 DEF BestInv
<1> QED BY <1>10, <1>11, <1>12, <1>13, <1>14, <1>15 DEF Inv

LEMMA MissPointInv ==
  ASSUME Inv, MissPoint PROVE Inv'
<1>1. PICK e \in BestOf(cells[i]) :
        LET p == e.pt
            failed == n_failed_[p] + (IF type_[p] = "deleted" THEN 0 ELSE 1)
            gone == LostForGood(p, failed)
        IN  /\ n_failed_' = [n_failed_ EXCEPT ![p] = CountTo(FailedLimit, failed)]
            /\ type_' = [type_ EXCEPT ![p] = IF gone THEN "deleted" ELSE @]
            /\ fts_' = IF gone /\ type_[p] = "unknown" THEN WithoutPoint(p) ELSE fts_
            /\ candidates_' = IF gone /\ type_[p] = "candidate" THEN WithoutCandidates({p})
                                                                ELSE candidates_
            /\ cells' = [cells EXCEPT ![i] = @ \ {e}]
  BY DEF MissPoint
<1> DEFINE p == e.pt
           failed == n_failed_[p] + 1
           gone == LostForGood(p, failed)
<1>2. /\ pc = "cells"
      /\ UNCHANGED <<n_succeeded_, projected, n_matches_, features, pc, i, close, px, before>>
  BY DEF MissPoint, image
<1>3. /\ e \in cells[i] /\ e \in Entries
      /\ p \in Points /\ p \notin features /\ type_[p] \in Usable /\ px[p] = i /\ i \in Cells
      /\ OldType(p) = type_[p]
      /\ \A c \in Cells : \A f \in cells[c] :
           /\ f.pt = p => c = i /\ f = e
           /\ c = i => Quality[type_[f.pt]] <= Quality[type_[p]]
  BY <1>2, Tried
<1>4. type_[p] # "deleted"
  BY <1>3 DEF Usable, Shared
<1>5. /\ n_failed_' = [n_failed_ EXCEPT ![p] = CountTo(FailedLimit, failed)]
      /\ type_' = [type_ EXCEPT ![p] = IF gone THEN "deleted" ELSE @]
      /\ fts_' = IF gone /\ type_[p] = "unknown" THEN WithoutPoint(p) ELSE fts_
      /\ candidates_' = IF gone /\ type_[p] = "candidate" THEN WithoutCandidates({p})
                                                          ELSE candidates_
      /\ cells' = [cells EXCEPT ![i] = @ \ {e}]
  BY <1>1, <1>4
<1> HIDE DEF p
<1>6. /\ failed \in Nat
      /\ n_failed_'[p] \in 0 .. FailedLimit + 1
      /\ type_[p] \in {"unknown", "candidate"} /\ ~gone => n_failed_'[p] <= MaxFailed[type_[p]]
  <2>1. failed \in Nat
    BY <1>3, Limits DEF Inv, TypesInv
  <2>2. n_failed_'[p] = CountTo(FailedLimit, failed)
    BY <1>3, <1>5 DEF Inv, TypesInv
  <2>3. type_[p] \in {"unknown", "candidate"} /\ ~gone =>
          failed <= MaxFailed[type_[p]] /\ MaxFailed[type_[p]] <= FailedLimit
    BY <2>1, Limits DEF LostForGood
  <2> HIDE DEF failed, gone
  <2>4. CountTo(FailedLimit, failed) \in 0 .. FailedLimit + 1
    BY <2>1, Limits, CountToLimit
  <2>5. ASSUME type_[p] \in {"unknown", "candidate"}, ~gone PROVE n_failed_'[p] <= MaxFailed[type_[p]]
    <3>1. failed <= MaxFailed[type_[p]] /\ failed <= FailedLimit
      <4>1. MaxFailed[type_[p]] \in Nat /\ FailedLimit \in Nat
        BY <2>5, Limits
      <4> QED BY <2>1, <2>3, <2>5, <4>1
    <3>2. CountTo(FailedLimit, failed) = failed
      BY <2>1, <3>1, Limits, CountToLimit
    <3> QED BY <2>2, <3>1, <3>2
  <2> QED BY <2>1, <2>2, <2>4, <2>5
<1>7. gone => type_[p] \in {"unknown", "candidate"}
  BY DEF LostForGood
<1> HIDE DEF failed, gone
<1>8. /\ type_'[p] = IF gone THEN "deleted" ELSE type_[p]
      /\ \A q \in Points : q # p => type_'[q] = type_[q] /\ n_failed_'[q] = n_failed_[q]
  BY <1>3, <1>5 DEF Inv, TypesInv
<1>9. /\ cells' \in [Cells -> SUBSET Entries]
      /\ \A c \in Cells : cells'[c] = IF c = i THEN cells[i] \ {e} ELSE cells[c]
      /\ \A c \in Cells : \A f \in cells'[c] : f \in cells[c] /\ f.pt \in Points /\ f.pt # p
  <2>1. /\ cells' \in [Cells -> SUBSET Entries]
        /\ \A c \in Cells : cells'[c] = IF c = i THEN cells[i] \ {e} ELSE cells[c]
    BY <1>3, <1>5 DEF Inv, TypesInv
  <2>2. \A c \in Cells : \A f \in cells'[c] : f \in cells[c] /\ f.pt \in Points
    BY <2>1 DEF Entries
  <2> QED BY <1>3, <2>1, <2>2
<1>10. /\ fts_' \in [Keyframes -> SUBSET Points]
       /\ \A k \in Keyframes : fts_'[k] = IF gone /\ type_[p] = "unknown" THEN fts_[k] \ {p}
                                                                         ELSE fts_[k]
  BY <1>5 DEF Inv, TypesInv, WithoutPoint
<1>11. candidates_' = IF gone /\ type_[p] = "candidate" THEN {c \in candidates_ : c[1] # p}
                                                        ELSE candidates_
  BY <1>5 DEF WithoutCandidates
<1>12. TypesInv'
  <2>1. n_failed_' \in [Points -> 0 .. FailedLimit + 1]
    <3>1. n_failed_' = [n_failed_ EXCEPT ![p] = n_failed_'[p]]
      BY <1>3, <1>5 DEF Inv, TypesInv
    <3> QED BY <1>6, <3>1 DEF Inv, TypesInv
  <2>2. type_' \in [Points -> PointTypes]
    BY <1>5 DEF Inv, TypesInv, PointTypes
  <2>3. candidates_' \subseteq Points \X Keyframes
    BY <1>11 DEF Inv, TypesInv
  <2> QED BY <1>2, <1>9, <1>10, <2>1, <2>2, <2>3 DEF Inv, TypesInv
<1>13. MapInv'
  <2>1. ASSUME NEW k \in Keyframes, NEW q \in fts_'[k] PROVE type_'[q] \in Shared
    <3>1. q \in Points /\ q \in fts_[k] /\ type_[q] \in Shared
      BY <1>10, <2>1 DEF Inv, TypesInv, MapInv
    <3>2. CASE q = p
      <4>1. type_[p] # "candidate"
        BY <3>1, <3>2 DEF Shared
      <4>2. ~gone
        BY <1>7, <1>10, <2>1, <3>2, <4>1
      <4> QED BY <1>8, <3>1, <3>2, <4>2
    <3> QED BY <1>8, <3>1, <3>2
  <2>2. CandidatePoints' = {q \in Points : type_'[q] = "candidate"}
    <3>1. CandidatePoints' = CandidatePoints \ (IF gone /\ type_[p] = "candidate" THEN {p} ELSE {})
      BY <1>11 DEF CandidatePoints
    <3> QED BY <1>3, <1>8, <3>1 DEF Inv, MapInv
  <2>3. \A q \in Points : type_'[q] = "none" => n_failed_'[q] = 0
    BY <1>4, <1>3, <1>8 DEF Inv, MapInv, Usable, Shared
  <2>4. CountersWithinLimits'
    <3>1. ASSUME NEW q \in Points
          PROVE  /\ type_'[q] \in {"unknown", "candidate"} => n_failed_'[q] <= MaxFailed[type_'[q]]
                 /\ type_'[q] = "good" => n_succeeded_'[q] > MaxSucceeded
      BY <1>2, <1>6, <1>8 DEF Inv, MapInv, CountersWithinLimits
    <3> QED BY <3>1 DEF CountersWithinLimits
  <2>5. \A c, d \in candidates_' : c[1] = d[1] => c = d
    BY <1>11 DEF Inv, MapInv
  <2> QED BY <2>1, <2>2, <2>3, <2>4, <2>5 DEF MapInv
<1>14. GridInv'
  <2>1. CellsSound'
    BY <1>2, <1>8, <1>9 DEF Inv, GridInv, CellsSound
  <2> QED BY <1>2, <1>9, <2>1 DEF Inv, GridInv
<1>15. JudgedInv'
  <2>1. ASSUME NEW q \in Points PROVE Judged(q)'
    <3>1. Judged(q) /\ OldType(q)' = OldType(q)
      BY <1>2 DEF Inv, JudgedInv, OldType
    <3>2. CASE q = p
      BY <1>2, <1>3, <1>7, <1>8, <3>1, <3>2 DEF Judged
    <3>3. CASE q # p
      BY <1>2, <1>8, <3>1, <3>3 DEF Judged
    <3> QED BY <3>2, <3>3
  <2>2. ASSUME NEW k \in Keyframes
        PROVE  fts_'[k] = {q \in before.fts[k] : type_'[q] # "deleted"}
    <3>1. /\ before.fts[k] \subseteq Points
          /\ fts_[k] = {q \in before.fts[k] : type_[q] # "deleted"}
          /\ \A q \in before.fts[k] : before.types[q] \in Shared
      BY <1>2 DEF Inv, TypesInv, JudgedInv
    <3>2. p \in before.fts[k] => type_[p] # "candidate"
      BY <1>3, <3>1 DEF OldType, Shared
    <3> QED BY <1>4, <1>7, <1>8, <1>10, <3>1, <3>2
  <2> QED BY <1>2, <2>1, <2>2 DEF Inv, JudgedInv
<1>16. FeaturesInv'
  <2>1. \A q \in features : q \in Points /\ q # p
    BY <1>3 DEF Inv, TypesInv
  <2> QED BY <1>2, <1>8, <2>1 DEF Inv, FeaturesInv
<1>17. BestInv'
  <2>1. ASSUME NEW c \in Cells, c < i PROVE MatchedBest(c)'
    <3>0. i \in Nat /\ c # i
      BY <1>3, <2>1 DEF Cells
    <3>1. MatchedBest(c) /\ cells'[c] = cells[c]
      BY <1>2, <1>9, <2>1, <3>0 DEF Inv, BestInv
    <3>2. \A f \in cells'[c] : type_'[f.pt] = type_[f.pt]
      BY <1>8, <1>9
    <3>3. \A q \in features : OldType(q)' = OldType(q)
      BY <1>2 DEF OldType
    <3> QED BY <1>2, <3>1, <3>2, <3>3 DEF MatchedBest
  <2> QED BY <1>2, <2>1 DEF Inv, BestInv, BestMatched
<1> QED BY <1>12, <1>13, <1>14, <1>15, <1>16, <1>17 DEF Inv

LEMMA LeaveCellInv ==
  ASSUME Inv, LeaveCell PROVE Inv'
<1>1. /\ pc = "cells" /\ cells[i] = {} /\ NextCell(n_matches_) /\ i \in Cells
      /\ UNCHANGED <<map, points, projected, cells, n_matches_, features, close, image>>
  BY DEF LeaveCell, Inv, TypesInv
<1>2. UNCHANGED <<fts_, candidates_, type_, n_failed_, n_succeeded_, px, before>>
  BY <1>1 DEF map, points, image
<1>3. /\ i' \in Cells /\ pc' \in {"cells", "decide"}
      /\ pc' = "cells" => i' = i + 1 /\ ~(n_matches_ > MaxFts)
      /\ pc' = "decide" => i' = i /\ (n_matches_ > MaxFts \/ i = NCells)
  BY <1>1, NextCellStep
<1>4. TypesInv'
  BY <1>1, <1>2, <1>3 DEF Inv, TypesInv
<1>5. MapInv' /\ GridInv' /\ JudgedInv'
  BY <1>1, <1>2, <1>3 DEF Inv, MapInv, CandidatePoints, CountersWithinLimits, GridInv, CellsSound,
                          JudgedInv, Judged, OldType
<1>6. \A c \in Cells : c \in Nat /\ c <= NCells
  BY DEF Cells
<1>7. FeaturesInv'
  BY <1>1, <1>2, <1>3, <1>6 DEF Inv, FeaturesInv
<1>8. BestInv'
  <2>1. \A c \in Cells : c < i => MatchedBest(c)
    BY <1>1 DEF Inv, BestInv
  <2>2. \A c \in Cells : c = i => MatchedBest(c)
    BY <1>1 DEF MatchedBest
  <2>3. \A c \in Cells : c <= i => MatchedBest(c)'
    BY <1>1, <1>2, <1>6, <2>1, <2>2 DEF MatchedBest, OldType
  <2>4. n_matches_ <= MaxFts /\ MaxFts \in Nat
    BY <1>1, Limits DEF Inv, BestInv
  <2>5. n_matches_ <= MaxFts + 1
    BY DEF Inv, BestInv
  <2>6. pc' = "cells" => \A c \in Cells : c < i' => MatchedBest(c)'
    BY <1>1, <1>3, <1>6, <2>3
  <2>7. BestMatched'
    BY <1>1, <1>3, <1>6, <2>3, Limits DEF BestMatched
  <2> QED BY <1>1, <2>4, <2>5, <2>6, <2>7 DEF BestInv
<1> QED BY <1>4, <1>5, <1>7, <1>8 DEF Inv

-----------------------------------------------------------------------------
(* What becomes of the frame, and the mapper                                *)

LEMMA EndFrameInv ==
  ASSUME EndFrame PROVE GridInv' /\ JudgedInv' /\ FeaturesInv' /\ BestInv'
<1>1. pc' = "idle" /\ n_matches_' = 0
  BY DEF EndFrame
<1> QED BY <1>1, Limits DEF GridInv, CellsSound, JudgedInv, FeaturesInv, BestInv, BestMatched

LEMMA EndFrameTypes ==
  ASSUME TypesInv, EndFrame, UNCHANGED <<n_succeeded_, close>>,
         fts_' \in [Keyframes -> SUBSET Points], candidates_' \subseteq Points \X Keyframes,
         type_' \in [Points -> PointTypes], n_failed_' \in [Points -> 0 .. FailedLimit + 1]
  PROVE  TypesInv'
<1>1. /\ pc' = "idle" /\ i' = 1 /\ n_matches_' = 0 /\ projected' = {} /\ features' = {}
      /\ cells' = [c \in Cells |-> {}] /\ px' = [p \in Points |-> 0] /\ before' = NoHistory
  BY DEF EndFrame, NoImage
<1>2. cells' \in [Cells -> SUBSET Entries] /\ i' \in Cells
  BY <1>1, Limits DEF Cells
<1>3. before' \in [types : [Points -> PointTypes], fts : [Keyframes -> SUBSET Points]]
  BY <1>1 DEF NoHistory, PointTypes
<1> QED BY <1>1, <1>2, <1>3, EmptyFeatures DEF TypesInv

LEMMA ForgetFrameInv ==
  ASSUME Inv, ForgetFrame PROVE Inv'
<1>1. EndFrame /\ UNCHANGED <<fts_, candidates_, type_, n_failed_, n_succeeded_, close>>
  BY DEF ForgetFrame, map, points
<1>2. TypesInv'
  <2>1. /\ fts_' \in [Keyframes -> SUBSET Points] /\ candidates_' \subseteq Points \X Keyframes
        /\ type_' \in [Points -> PointTypes] /\ n_failed_' \in [Points -> 0 .. FailedLimit + 1]
    BY <1>1 DEF Inv, TypesInv
  <2> QED BY <1>1, <2>1, EndFrameTypes DEF Inv
<1>3. MapInv'
  BY <1>1 DEF Inv, MapInv, CandidatePoints, CountersWithinLimits
<1> QED BY <1>1, <1>2, <1>3, EndFrameInv DEF Inv

LEMMA MakeKeyframeInv ==
  ASSUME Inv, MakeKeyframe PROVE Inv'
<1>1. EndFrame /\ UNCHANGED <<n_succeeded_, close>>
  BY DEF MakeKeyframe
<1>2. PICK kept \in SUBSET features, new \in Keyframes :
       LET seen == {c \in candidates_ : c[1] \in kept}
           points_seen == {c[1] : c \in seen}
       IN  /\ fts_' = [k \in Keyframes |->
                IF k = new THEN kept ELSE fts_[k] \cup {c[1] : c \in {s \in seen : s[2] = k}}]
           /\ type_' = [p \in Points |-> IF p \in points_seen THEN "unknown" ELSE type_[p]]
           /\ n_failed_' = [p \in Points |-> IF p \in points_seen THEN 0 ELSE n_failed_[p]]
           /\ candidates_' = {c \in candidates_ : c[1] \notin points_seen}
  BY DEF MakeKeyframe, PromotedCount, WithoutCandidates
<1> DEFINE seen == {c \in candidates_ : c[1] \in kept}
           points_seen == {c[1] : c \in seen}
<1>3. /\ points_seen \subseteq Points
      /\ \A c \in candidates_ : c[1] \in points_seen <=> c[1] \in kept
      /\ \A p \in Points : p \in points_seen <=> p \in kept /\ type_[p] = "candidate"
  <2>1. \A c \in candidates_ : c[1] \in Points /\ c[1] \in CandidatePoints
    BY DEF Inv, TypesInv, CandidatePoints
  <2>2. \A p \in CandidatePoints : \E c \in candidates_ : c[1] = p
    BY DEF CandidatePoints
  <2> QED BY <2>1, <2>2 DEF Inv, MapInv
<1>4. kept \subseteq Points /\ \A p \in kept : type_[p] \in Usable
  BY <1>1 DEF Inv, TypesInv, FeaturesInv, EndFrame
<1>5. \A k \in Keyframes : \A p \in fts_'[k] :
        p \in Points /\ (p \in fts_[k] \/ p \in kept \/ p \in points_seen)
  BY <1>2, <1>3, <1>4 DEF Inv, TypesInv
<1>6. /\ type_' = [p \in Points |-> IF p \in points_seen THEN "unknown" ELSE type_[p]]
      /\ n_failed_' = [p \in Points |-> IF p \in points_seen THEN 0 ELSE n_failed_[p]]
      /\ candidates_' = {c \in candidates_ : c[1] \notin points_seen}
      /\ fts_' \in [Keyframes -> SUBSET Points]
  <2>1. \A c \in candidates_ : c[1] \in Points
    BY DEF Inv, TypesInv
  <2>2. \A k \in Keyframes : fts_[k] \cup {c[1] : c \in {s \in seen : s[2] = k}} \subseteq Points
    BY <2>1 DEF Inv, TypesInv
  <2> QED BY <1>2, <1>4, <2>2
<1> HIDE DEF seen, points_seen
<1>7. TypesInv'
  <2>1. type_' \in [Points -> PointTypes]
    BY <1>6 DEF Inv, TypesInv, PointTypes
  <2>2. n_failed_' \in [Points -> 0 .. FailedLimit + 1]
    BY <1>6, Limits DEF Inv, TypesInv
  <2>3. candidates_' \subseteq Points \X Keyframes
    BY <1>6 DEF Inv, TypesInv
  <2> QED BY <1>1, <1>6, <2>1, <2>2, <2>3, EndFrameTypes DEF Inv
<1>8. MapInv'
  <2>1. ASSUME NEW k \in Keyframes, NEW p \in fts_'[k] PROVE type_'[p] \in Shared
    <3>1. p \in Points /\ (p \in fts_[k] \/ p \in kept \/ p \in points_seen)
      BY <1>5
    <3>2. p \in fts_[k] => type_[p] \in Shared
      BY DEF Inv, MapInv
    <3> QED BY <1>3, <1>4, <1>6, <3>1, <3>2 DEF Shared, Usable
  <2>2. CandidatePoints' = {p \in Points : type_'[p] = "candidate"}
    <3>1. CandidatePoints' = CandidatePoints \ points_seen
      BY <1>6 DEF CandidatePoints
    <3> QED BY <1>6, <3>1 DEF Inv, MapInv
  <2>3. \A p \in Points : type_'[p] = "none" => n_failed_'[p] = 0
    BY <1>6 DEF Inv, MapInv
  <2>4. CountersWithinLimits'
    <3>1. ASSUME NEW p \in Points
          PROVE  /\ type_'[p] \in {"unknown", "candidate"} => n_failed_'[p] <= MaxFailed[type_'[p]]
                 /\ type_'[p] = "good" => n_succeeded_'[p] > MaxSucceeded
      BY <1>1, <1>6, Limits DEF Inv, MapInv, CountersWithinLimits
    <3> QED BY <3>1 DEF CountersWithinLimits
  <2>5. \A c, d \in candidates_' : c[1] = d[1] => c = d
    BY <1>6 DEF Inv, MapInv
  <2> QED BY <2>1, <2>2, <2>3, <2>4, <2>5 DEF MapInv
<1> QED BY <1>1, <1>7, <1>8, EndFrameInv DEF Inv

LEMMA NewCandidatePointInv ==
  ASSUME Inv, NewCandidatePoint PROVE Inv'
<1>1. PICK p \in Points, k \in Keyframes :
        /\ type_[p] = "none"
        /\ type_' = [type_ EXCEPT ![p] = "candidate"]
        /\ candidates_' = candidates_ \cup {<<p, k>>}
  BY DEF NewCandidatePoint
<1>2. UNCHANGED <<fts_, n_failed_, n_succeeded_, projected, cells, n_matches_, features, pc, i, close,
                  px, before>>
  BY DEF NewCandidatePoint, image
<1>3. type_'[p] = "candidate" /\ \A q \in Points : q # p => type_'[q] = type_[q]
  BY <1>1 DEF Inv, TypesInv
<1>4. TypesInv'
  <2>1. type_' \in [Points -> PointTypes] /\ candidates_' \subseteq Points \X Keyframes
    BY <1>1 DEF Inv, TypesInv, PointTypes
  <2> QED BY <1>2, <2>1 DEF Inv, TypesInv
<1>5. MapInv'
  <2>1. \A l \in Keyframes : \A q \in fts_'[l] : type_'[q] \in Shared
    BY <1>1, <1>2, <1>3 DEF Inv, TypesInv, MapInv, Shared
  <2>2. CandidatePoints' = CandidatePoints \cup {p}
    <3>1. <<p, k>> \in candidates_' /\ <<p, k>>[1] = p
      BY <1>1
    <3>2. p \in CandidatePoints' /\ CandidatePoints \subseteq CandidatePoints'
      BY <1>1, <3>1, Zenon DEF CandidatePoints
    <3>3. \A c \in candidates_' : c[1] \in CandidatePoints \cup {p}
      BY <1>1 DEF CandidatePoints
    <3>4. CandidatePoints' \subseteq CandidatePoints \cup {p}
      BY <3>3, Zenon DEF CandidatePoints
    <3> QED BY <3>2, <3>4
  <2>3. CandidatePoints' = {q \in Points : type_'[q] = "candidate"}
    BY <1>3, <2>2 DEF Inv, MapInv
  <2>4. \A q \in Points : type_'[q] = "none" => n_failed_'[q] = 0
    BY <1>2, <1>3 DEF Inv, MapInv
  <2>5. CountersWithinLimits'
    BY <1>1, <1>2, <1>3, Limits DEF Inv, MapInv, CountersWithinLimits
  <2>6. \A c, d \in candidates_' : c[1] = d[1] => c = d
    <3>1. \A c \in candidates_ : c[1] # p
      <4>1. p \notin CandidatePoints
        BY <1>1 DEF Inv, MapInv
      <4> QED BY <4>1 DEF CandidatePoints
    <3> QED BY <1>1, <3>1 DEF Inv, MapInv
  <2> QED BY <2>1, <2>3, <2>4, <2>5, <2>6 DEF MapInv
<1>6. pc # "idle" => \A c \in Cells : \A e \in cells[c] :
        e.pt \in Points /\ e.pt # p /\ type_'[e.pt] = type_[e.pt]
  <2>1. pc # "idle" => \A c \in Cells : \A e \in cells[c] : e.pt \in Points /\ type_[e.pt] \in Usable
    BY DEF Inv, TypesInv, GridInv, CellsSound, Entries, Usable, Shared
  <2> QED BY <1>1, <1>3, <2>1 DEF Usable, Shared
<1>7. GridInv'
  <2>1. CellsSound'
    BY <1>2, <1>6 DEF Inv, GridInv, CellsSound
  <2> QED BY <1>2, <1>6, <2>1 DEF Inv, GridInv
<1>8. JudgedInv'
  <2>1. ASSUME pc # "idle", NEW q \in Points PROVE Judged(q)'
    <3>1. Judged(q)
      BY <2>1 DEF Inv, JudgedInv
    <3>2. CASE q = p
      BY <1>1, <1>2, <1>3, <3>1, <3>2 DEF Judged
    <3>3. CASE q # p
      BY <1>2, <1>3, <3>1, <3>3 DEF Judged, OldType
    <3> QED BY <3>2, <3>3
  <2>2. \A q \in Points : type_'[q] # "deleted" <=> type_[q] # "deleted"
    BY <1>1, <1>3
  <2>3. \A l \in Keyframes : before.fts[l] \subseteq Points
    BY DEF Inv, TypesInv
  <2> QED BY <1>2, <2>1, <2>2, <2>3 DEF Inv, JudgedInv
<1>9. FeaturesInv'
  <2>1. pc # "idle" => \A q \in features : type_'[q] = type_[q]
    BY <1>1, <1>3 DEF Inv, TypesInv, FeaturesInv, Usable, Shared
  <2> QED BY <1>2, <2>1 DEF Inv, FeaturesInv
<1>10. BestInv'
  <2>1. ASSUME pc # "idle", NEW c \in Cells, MatchedBest(c) PROVE MatchedBest(c)'
    BY <1>2, <1>6, <2>1 DEF MatchedBest, OldType
  <2> QED BY <1>2, <2>1 DEF Inv, BestInv, BestMatched
<1> QED BY <1>4, <1>5, <1>7, <1>8, <1>9, <1>10 DEF Inv

LEMMA StutterInv ==
  ASSUME Inv, UNCHANGED vars PROVE Inv'
<1>1. UNCHANGED <<fts_, candidates_, type_, n_failed_, n_succeeded_, projected, cells, n_matches_,
                  features, pc, i, close, px, before>>
  BY DEF vars, map, points, image
<1>2. TypesInv' /\ MapInv'
  BY <1>1 DEF Inv, TypesInv, MapInv, CandidatePoints, CountersWithinLimits
<1>3. GridInv' /\ JudgedInv' /\ FeaturesInv'
  BY <1>1 DEF Inv, GridInv, CellsSound, JudgedInv, Judged, OldType, FeaturesInv
<1>4. BestInv'
  BY <1>1 DEF Inv, BestInv, BestMatched, MatchedBest, OldType
<1> QED BY <1>2, <1>3, <1>4 DEF Inv

-----------------------------------------------------------------------------
(* The theorems                                                             *)

LEMMA Invariance == Spec => []Inv
<1>1. ASSUME Inv, [Next]_vars PROVE Inv'
  <2>1. CASE NewFrame
    BY <1>1, <2>1, NewFrameInv
  <2>2. CASE ProjectKeyframe
    BY <1>1, <2>2, ProjectKeyframeInv
  <2>3. CASE ProjectCandidates
    BY <1>1, <2>3, ProjectCandidatesInv
  <2>4. CASE MatchPoint
    BY <1>1, <2>4, MatchPointInv
  <2>5. CASE MissPoint
    BY <1>1, <2>5, MissPointInv
  <2>6. CASE LeaveCell
    BY <1>1, <2>6, LeaveCellInv
  <2>7. CASE ForgetFrame
    BY <1>1, <2>7, ForgetFrameInv
  <2>8. CASE MakeKeyframe
    BY <1>1, <2>8, MakeKeyframeInv
  <2>9. CASE NewCandidatePoint
    BY <1>1, <2>9, NewCandidatePointInv
  <2>10. CASE UNCHANGED vars
    BY <1>1, <2>10, StutterInv
  <2> QED BY <1>1, <2>1, <2>2, <2>3, <2>4, <2>5, <2>6, <2>7, <2>8, <2>9, <2>10 DEF Next
<1> QED BY <1>1, InitInv, PTL DEF Spec

(* The counters and lists of the reprojector keep their types, the list of  *)
(* candidates has exactly the candidates, each once, and a frame gets at    *)
(* most one match more than Config::maxFts().                              *)
THEOREM TypeCorrect == Spec => []TypeOK
<1>1. Inv => TypeOK
  BY DEF Inv, TypesInv, MapInv, BestInv, PointTypes, TypeOK
<1> QED BY <1>1, Invariance, PTL

(* No point waits in the grid twice, though keyframes share points, and no  *)
(* point that waits is deleted or matched: reprojectCell never meets a      *)
(* deleted point.                                                          *)
THEOREM CellsCorrect == Spec => []CellsSound
<1>1. Inv => CellsSound
  BY DEF Inv, GridInv
<1> QED BY <1>1, Invariance, PTL

(* A point that is kept has not failed more often, since it got its type,   *)
(* than its type allows, and a good one has succeeded more often than it    *)
(* must, whatever frames and keyframes come.                               *)
THEOREM CountersCorrect == Spec => []CountersWithinLimits
<1>1. Inv => CountersWithinLimits
  BY DEF Inv, MapInv
<1> QED BY <1>1, Invariance, PTL

(* reprojectMap gives a frame one feature per point and per cell, deletes   *)
(* only points without a match and promotes only points with one, and the   *)
(* keyframes lose exactly what is deleted.                                 *)
THEOREM OutcomeCorrect == Spec => []OutcomeAllowed
<1>1. Inv => OutcomeAllowed
  BY DEF Inv, JudgedInv, FeaturesInv, OutcomeAllowed
<1> QED BY <1>1, Invariance, PTL

(* Of each cell that is visited the best point that can be matched is       *)
(* matched, and a cell is left unvisited only when there are matches        *)
(* enough.                                                                 *)
THEOREM BestCorrect == Spec => []BestMatched
<1>1. Inv => BestMatched
  BY DEF Inv, BestInv
<1> QED BY <1>1, Invariance, PTL

-----------------------------------------------------------------------------
(* The number of tries                                                      *)

(* The points that wait in the grid.                                        *)
Waiting == {p \in Points : \E c \in Cells : \E e \in cells[c] : e.pt = p}

(* How many steps the loop over the cells takes at most: one for each point *)
(* that waits and one for each cell to come.                                *)
TriesLeft == Cardinality(Waiting) + NCells - i

(* While the cells are tried the number of steps left is limited; the       *)
(* tracker's steps take it down, the mapper's leave it.                     *)
TriesRunOut ==
  /\ [](TriesLeft \in 0 .. Cardinality(Points) + NCells - 1)
  /\ [][pc = "cells" /\ pc' = "cells" =>
          /\ TriesLeft' <= TriesLeft
          /\ MatchPoint \/ MissPoint \/ LeaveCell => TriesLeft' < TriesLeft]_vars

LEMMA WaitingType ==
  /\ IsFiniteSet(Waiting) /\ Cardinality(Waiting) \in Nat
  /\ Cardinality(Points) \in Nat /\ Cardinality(Waiting) <= Cardinality(Points)
<1>1. Waiting \subseteq Points
  BY DEF Waiting
<1> QED BY <1>1, Limits, FS_Subset, FS_CardinalityType

(* A point that is tried waits no longer: it was in one cell, once.         *)
LEMMA OneLessWaits ==
  ASSUME Inv, pc = "cells", NEW e \in cells[i],
         cells' = [cells EXCEPT ![i] = @ \ {e}]
  PROVE  Cardinality(Waiting') = Cardinality(Waiting) - 1
<1>1. /\ i \in Cells /\ cells \in [Cells -> SUBSET Entries]
      /\ \A c \in Cells : \A f \in cells[c] : f.pt = e.pt => c = i /\ f = e
  BY DEF Inv, TypesInv, GridInv, CellsSound
<1>2. e.pt \in Points
  BY <1>1 DEF Entries
<1>3. e.pt \in Waiting
  BY <1>1, <1>2 DEF Waiting
<1>4. ASSUME NEW p \in Points
      PROVE  p \in Waiting' <=> p \in Waiting /\ p # e.pt
  <2>1. ASSUME p \in Waiting' PROVE p \in Waiting /\ p # e.pt
    <3>1. PICK c \in Cells : \E f \in cells'[c] : f.pt = p
      BY <2>1 DEF Waiting
    <3>2. PICK f \in cells'[c] : f.pt = p
      BY <3>1
    <3>3. f \in cells[c] /\ (c = i => f # e)
      BY <1>1, <3>2
    <3> QED BY <1>1, <3>2, <3>3 DEF Waiting
  <2>2. ASSUME p \in Waiting, p # e.pt PROVE p \in Waiting'
    <3>1. PICK c \in Cells : \E f \in cells[c] : f.pt = p
      BY <2>2 DEF Waiting
    <3>2. PICK f \in cells[c] : f.pt = p
      BY <3>1
    <3>3. f \in cells'[c]
      BY <1>1, <2>2, <3>2
    <3> QED BY <3>2, <3>3 DEF Waiting
  <2> QED BY <2>1, <2>2
<1>5. Waiting' = Waiting \ {e.pt}
  BY <1>4 DEF Waiting
<1> QED BY <1>3, <1>5, WaitingType, FS_RemoveElement

LEMMA TriesShorten ==
  ASSUME Inv, [Next]_vars, pc = "cells", pc' = "cells"
  PROVE  /\ TriesLeft' <= TriesLeft
         /\ MatchPoint \/ MissPoint \/ LeaveCell => TriesLeft' < TriesLeft
<1>1. i \in Nat /\ NCells \in Nat /\ Cardinality(Waiting) \in Nat
  BY Limits, WaitingType DEF Inv, TypesInv, Cells
<1>2. CASE MatchPoint \/ MissPoint
  <2>1. \E e \in BestOf(cells[i]) : cells' = [cells EXCEPT ![i] = @ \ {e}]
    BY <1>2 DEF MatchPoint, MissPoint
  <2>2. PICK e \in cells[i] : cells' = [cells EXCEPT ![i] = @ \ {e}]
    BY <2>1 DEF BestOf
  <2>3. Cardinality(Waiting') = Cardinality(Waiting) - 1
    BY <2>2, OneLessWaits
  <2>4. i' = i \/ i' = i + 1
    BY <1>2 DEF MatchPoint, MissPoint, NextCell
  <2>5. TriesLeft' = Cardinality(Waiting') + NCells - i'
    BY DEF TriesLeft
  <2> QED BY <1>1, <2>3, <2>4, <2>5 DEF TriesLeft
<1>3. CASE LeaveCell
  <2>1. i' = i + 1 /\ Waiting' = Waiting
    BY <1>3 DEF LeaveCell, NextCell, Waiting
  <2>2. TriesLeft' = Cardinality(Waiting) + NCells - i'
    BY <2>1 DEF TriesLeft
  <2> QED BY <1>1, <2>1, <2>2 DEF TriesLeft
<1>4. CASE ~(MatchPoint \/ MissPoint \/ LeaveCell)
  <2>1. UNCHANGED <<cells, i>>
    BY <1>4 DEF Next, NewFrame, ProjectKeyframe, ProjectCandidates, ForgetFrame, MakeKeyframe,
                EndFrame, NewCandidatePoint, vars
  <2>2. Waiting' = Waiting
    BY <2>1 DEF Waiting
  <2>3. TriesLeft' = TriesLeft
    BY <2>1, <2>2 DEF TriesLeft
  <2> QED BY <1>1, <1>4, <2>3 DEF TriesLeft
<1> QED BY <1>2, <1>3, <1>4

(* Reprojector::reprojectMap tries every point once at most and then is     *)
(* done, whatever candidates the mapper adds meanwhile.                     *)
THEOREM MatchingEnds == Spec => TriesRunOut
<1>1. Inv => TriesLeft \in 0 .. Cardinality(Points) + NCells - 1
  <2> SUFFICES ASSUME Inv PROVE TriesLeft \in 0 .. Cardinality(Points) + NCells - 1
    OBVIOUS
  <2>1. i \in 1 .. NCells /\ NCells \in Nat
    BY Limits DEF Inv, TypesInv, Cells
  <2> QED BY <2>1, WaitingType DEF TriesLeft
<1>2. Inv /\ [Next]_vars =>
        [pc = "cells" /\ pc' = "cells" =>
           /\ TriesLeft' <= TriesLeft
           /\ MatchPoint \/ MissPoint \/ LeaveCell => TriesLeft' < TriesLeft]_vars
  BY TriesShorten
<1> QED BY <1>1, <1>2, Invariance, PTL DEF Spec, TriesRunOut
=============================================================================
