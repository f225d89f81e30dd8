-------------------------------- MODULE Tracker --------------------------------
(***************************************************************************)
(* fusion::Tracker of audio/fusion.cpp: the two cameras' detections become *)
(* at most MaxTracks objects with a stable id.  One call of update() is    *)
(* Update, then one association step per candidate, one Bury per dropped   *)
(* track, and Rank; there is one thread, so nothing comes between them.    *)
(*                                                                         *)
(* scene is what the two DetSources hold (audio/main.cpp): the audio loop  *)
(* feeds it again at every block until it changes.  Instants are kept as   *)
(* ages (now_ns minus the instant), in ticks, and an age beyond every      *)
(* threshold is Forever.  Azimuths (degrees) and closenesses (percent) are *)
(* integers: where the code rounds to a float the model rounds to the      *)
(* nearest integer.                                                        *)
(***************************************************************************)
EXTENDS Integers, SequencesExt

CONSTANTS
  MaxTracks,   (* kMaxTracks, 3 in the code                              *)
  MergeGate,   (* kMergeGateDeg, 20                                      *)
  TrackGate,   (* kTrackGateDeg, 22                                      *)
  SeamGate,    (* kSeamGateDeg, 40                                       *)
  Stale,       (* kStaleNs, 0.5 s                                        *)
  Hold,        (* kHoldNs, 1.2 s                                         *)
  GraveLife,   (* kGraveNs, 4 s                                          *)
  Scenes,      (* what the cameras may report: [cam0, cam1] of blobs     *)
  Steps,       (* the times that may pass between two updates            *)
  MaxChanges   (* bound on the changes of the scene                      *)

VARIABLES
  slots,      (* slots_                                                  *)
  graves,     (* graves_                                                 *)
  graveNext,  (* grave_next_                                             *)
  nextId,     (* next_id_                                                *)
  cands,      (* candidates of this update not yet associated            *)
  matched,    (* the tracks hit in this update                           *)
  tracks,     (* what the last update returned                           *)
  pc,         (* where update() is                                       *)
  scene, changes

memory == <<slots, graves, graveNext, nextId>>
vars == <<memory, cands, matched, tracks, pc, scene, changes>>

ASSUME MaxTracksAssumption == MaxTracks \in Nat \ {0}
ASSUME StepsAssumption     == Steps \subseteq Nat
ASSUME LivesAssumption     == Hold \in Nat /\ GraveLife \in Nat

Blob  == [closeness : Nat, azimuth : Int]
Scene == [cam0 : Seq(Blob), cam1 : Seq(Blob)]
ASSUME ScenesAssumption    == Scenes \subseteq Scene

Places  == 0 .. MaxTracks - 1
Tombs   == 0 .. 2 * MaxTracks - 1
Forever == 1 + (IF GraveLife > Hold THEN GraveLife ELSE Hold)
Nothing == [cam0 |-> <<>>, cam1 |-> <<>>]
NoTrack == [used |-> FALSE, closeness |-> 0, azimuth |-> 0, age |-> 0, id |-> 0]
NoGrave == [id |-> 0, azimuth |-> 0, age |-> 0]

Init ==
  /\ slots = [i \in Places |-> NoTrack]
  /\ graves = [g \in Tombs |-> NoGrave]
  /\ graveNext = 0 /\ nextId = 1
  /\ cands = <<>> /\ matched = {} /\ tracks = <<>> /\ pc = "idle"
  /\ scene = Nothing /\ changes = 0

-----------------------------------------------------------------------------
(* Arithmetic: round to nearest, distance, exponential smoothing by 0.6.   *)
Rounded(n, d)    == (2 * n + d) \div (2 * d)
Gap(a, b)        == IF a > b THEN a - b ELSE b - a
Smooth(old, new) == old + Rounded(3 * (new - old), 5)
Older(age, dt)   == IF age + dt > Forever THEN Forever ELSE age + dt

(* i is the first index of S; of the members of f named by S, f[i] is the  *)
(* nearest in azimuth (the scan compares with <=, so the last of several). *)
First(i, S) == \A j \in S : i <= j
Nearest(i, a, f, S) ==
  \A j \in S \ {i} :
    \/ Gap(a, f[i].azimuth) < Gap(a, f[j].azimuth)
    \/ Gap(a, f[i].azimuth) = Gap(a, f[j].azimuth) /\ j < i
Within(a, f, S, gate) == {i \in S : Gap(a, f[i].azimuth) <= gate}

-----------------------------------------------------------------------------
(* 1. Merge the cameras' overlap.  A blob of camera 0 is paired, in turn,  *)
(* with the nearest blob of camera 1 in the gate that is not taken yet; a  *)
(* pairing gives each of them its mate, 0 for none.                        *)
(* Mutant: the blobs already taken are not skipped.                        *)
UntakenOrNot(c1, mates, n) == 1 .. Len(c1)

Untaken(c1, mates, n) == (1 .. Len(c1)) \ {mates[m] : m \in 1 .. n - 1}
Paired(c0, c1, mates, n) ==
  LET near == Within(c0[n].azimuth, c1, Untaken(c1, mates, n), MergeGate) IN
  \/ near = {} /\ mates[n] = 0
  \/ mates[n] \in near /\ Nearest(mates[n], c0[n].azimuth, c1, near)
Pairings(c0, c1) ==
  {mates \in [1 .. Len(c0) -> 0 .. Len(c1)] :
     \A n \in 1 .. Len(c0) : Paired(c0, c1, mates, n)}

Fuse(a, b) ==
  LET sum == a.closeness + b.closeness IN
  [closeness |-> Max({a.closeness, b.closeness}),
   azimuth   |-> IF sum > 0
                 THEN Rounded(a.azimuth * a.closeness + b.azimuth * b.closeness, sum)
                 ELSE Rounded(a.azimuth + b.azimuth, 2)]

(* The merged blobs: those of camera 0, then those left of camera 1.       *)
Merged(c0, c1, mates) ==
  [b \in ({0} \X (1 .. Len(c0))) \cup ({1} \X Untaken(c1, mates, Len(c0) + 1)) |->
     IF b[1] = 1 THEN c1[b[2]]
     ELSE IF mates[b[2]] = 0 THEN c0[b[2]]
     ELSE Fuse(c0[b[2]], c1[mates[b[2]]])]

(* 2. and 5. The orders std::sort may leave: closest first, ties anyhow.   *)
Ranked(f) ==
  {t \in {[n \in DOMAIN p |-> f[p[n]]] : p \in SetToSeqs(DOMAIN f)} :
     \A n \in 1 .. Len(t) - 1 : t[n].closeness >= t[n + 1].closeness}

AgedTrack(s, dt) == [used |-> TRUE, closeness |-> s.closeness,
                     azimuth |-> s.azimuth, age |-> Older(s.age, dt), id |-> s.id]
AgedGrave(g, dt) == [id |-> g.id, azimuth |-> g.azimuth, age |-> Older(g.age, dt)]

Update(dt) ==
  /\ pc = "idle"
  /\ \E mates \in Pairings(scene.cam0, scene.cam1) :
       \E t \in Ranked(Merged(scene.cam0, scene.cam1, mates)) :
         cands' = IF Len(t) > MaxTracks THEN SubSeq(t, 1, MaxTracks) ELSE t
  /\ slots' = [i \in Places |-> IF slots[i].used THEN AgedTrack(slots[i], dt)
                                                 ELSE slots[i]]
  /\ graves' = [g \in Tombs |-> IF graves[g].id # 0 THEN AgedGrave(graves[g], dt)
                                                    ELSE graves[g]]
  /\ matched' = {} /\ pc' = "associate"
  /\ UNCHANGED <<graveNext, nextId, tracks, scene, changes>>

-----------------------------------------------------------------------------
(* 3. Associate the first candidate left, c, with a track.                 *)
(* Mutant: matched[] is not tested.                                        *)
UnmatchedOrNot == {i \in Places : slots[i].used}

Unmatched  == {i \in Places : slots[i].used /\ i \notin matched}
Coasting   == {i \in Unmatched : slots[i].age >= Stale}
FreePlaces == {i \in Places : ~slots[i].used}
InGate(c)  == Within(c.azimuth, slots, Unmatched, TrackGate)
InSeam(c)  == Within(c.azimuth, slots, Coasting, SeamGate)

Associating ==
  /\ pc = "associate" /\ cands # <<>>
  /\ cands' = Tail(cands)
  /\ UNCHANGED <<graveNext, tracks, pc, scene, changes>>
NewObject(c) == InGate(c) = {} /\ InSeam(c) = {}

(* Mutant: neither last_hit_ns nor matched[] records the hit.              *)
HitUnrecorded(i, c) ==
  /\ slots' = [slots EXCEPT
       ![i].closeness = Smooth(@, c.closeness), ![i].azimuth = Smooth(@, c.azimuth)]
  /\ UNCHANGED <<graves, nextId, matched>>

Hit(i, c) ==
  /\ slots' = [slots EXCEPT ![i] =
       [used |-> TRUE, closeness |-> Smooth(slots[i].closeness, c.closeness),
        azimuth |-> Smooth(slots[i].azimuth, c.azimuth),
        age |-> 0, id |-> slots[i].id]]
  /\ matched' = matched \cup {i}
  /\ UNCHANGED <<graves, nextId>>

Follow ==
  /\ Associating
  /\ LET c == Head(cands) IN
       \E i \in InGate(c) : Nearest(i, c.azimuth, slots, InGate(c)) /\ Hit(i, c)

Adopt ==
  /\ Associating
  /\ LET c == Head(cands) IN
       /\ InGate(c) = {}
       /\ \E i \in InSeam(c) : Nearest(i, c.azimuth, slots, InSeam(c)) /\ Hit(i, c)

(* birth_id: the first grave near enough in place and time gives up its id,*)
(* once; otherwise the id is fresh.                                        *)
Haunting(c) == {g \in Tombs : /\ graves[g].id # 0
                              /\ graves[g].age <= GraveLife
                              /\ Gap(c.azimuth, graves[g].azimuth) <= SeamGate}

Born(i, c, id) ==
  /\ slots' = [slots EXCEPT ![i] =
       [used |-> TRUE, closeness |-> c.closeness, azimuth |-> c.azimuth,
        age |-> 0, id |-> id]]
  /\ matched' = matched \cup {i}

(* Mutant: the grave keeps its id.                                         *)
InheritAgain(i, c) ==
  /\ \E g \in Haunting(c) : First(g, Haunting(c)) /\ Born(i, c, graves[g].id)
  /\ UNCHANGED <<graves, nextId>>

Inherit(i, c) ==
  /\ \E g \in Haunting(c) :
       /\ First(g, Haunting(c))
       /\ Born(i, c, graves[g].id)
       /\ graves' = [graves EXCEPT ![g] = NoGrave]
  /\ nextId' = nextId

(* Mutant: the lowest id not in use is issued.                             *)
FreshRecycled(i, c) ==
  /\ Haunting(c) = {}
  /\ LET id == Min({n \in 1 .. nextId : /\ \A j \in Places : slots[j].id # n
                                       /\ \A g \in Tombs : graves[g].id # n})
     IN  Born(i, c, id) /\ nextId' = Max({nextId, id + 1})
  /\ graves' = graves

Fresh(i, c) ==
  /\ Haunting(c) = {}
  /\ Born(i, c, nextId)
  /\ nextId' = nextId + 1
  /\ graves' = graves

Birth(i, c) == Inherit(i, c) \/ Fresh(i, c)

Occupy ==
  /\ Associating
  /\ LET c == Head(cands) IN
       /\ NewObject(c)
       /\ \E i \in FreePlaces : First(i, FreePlaces) /\ Birth(i, c)

(* The first weakest of the tracks not hit in this update.                 *)
Weakest(i) ==
  \A j \in Unmatched : \/ slots[i].closeness < slots[j].closeness
                       \/ slots[i].closeness = slots[j].closeness /\ i <= j

(* Mutant: an equally close object evicts too.                             *)
AsClose(c, i) == c.closeness >= slots[i].closeness
Closer(c, i)  == c.closeness > slots[i].closeness

Evict ==
  /\ Associating
  /\ LET c == Head(cands) IN
       /\ NewObject(c) /\ FreePlaces = {}
       /\ \E i \in Unmatched : Weakest(i) /\ Closer(c, i) /\ Birth(i, c)

Refuse ==
  /\ Associating
  /\ LET c == Head(cands) IN
       /\ NewObject(c) /\ FreePlaces = {}
       /\ ~ \E i \in Unmatched : Weakest(i) /\ Closer(c, i)
  /\ UNCHANGED <<slots, graves, nextId, matched>>

-----------------------------------------------------------------------------
(* 4. Tracks not hit for longer than Hold go to the graveyard, in order.   *)
(* Mutant: matched[i] where the code has !matched[i].                      *)
ExpiredMatched == {i \in matched : slots[i].age > Hold}
(* Mutant: dropped when the hold time is reached, not exceeded.            *)
ExpiredSoon == {i \in Unmatched : slots[i].age >= Hold}
Expired == {i \in Unmatched : slots[i].age > Hold}

(* Mutant: the index of the graveyard does not wrap.                       *)
BuryBeyond ==
  /\ pc = "associate" /\ cands = <<>>
  /\ \E i \in Expired : slots' = [slots EXCEPT ![i] = NoTrack]
  /\ graveNext' = graveNext + 1
  /\ UNCHANGED <<graves, nextId, cands, matched, tracks, pc, scene, changes>>

Bury ==
  /\ pc = "associate" /\ cands = <<>>
  /\ \E i \in Expired :
       /\ First(i, Expired)
       /\ graves' = [graves EXCEPT ![graveNext] =
            [id |-> slots[i].id, azimuth |-> slots[i].azimuth, age |-> 0]]
       /\ slots' = [slots EXCEPT ![i] = NoTrack]
  /\ graveNext' = (graveNext + 1) % (2 * MaxTracks)
  /\ UNCHANGED <<nextId, cands, matched, tracks, pc, scene, changes>>

(* 5. Return the live tracks, nearest first.                               *)
Live == {i \in Places : slots[i].used}
Shown(i) == [closeness |-> slots[i].closeness, azimuth |-> slots[i].azimuth,
             id |-> slots[i].id]

Rank ==
  /\ pc = "associate" /\ cands = <<>> /\ Expired = {}
  /\ tracks' \in Ranked([i \in Live |-> Shown(i)])
  /\ matched' = {} /\ pc' = "idle"
  /\ UNCHANGED <<memory, cands, scene, changes>>

(* A DetSource takes over new detections, or its old ones become stale.    *)
Look ==
  /\ pc = "idle" /\ changes < MaxChanges
  /\ scene' \in Scenes \ {scene}
  /\ changes' = changes + 1
  /\ UNCHANGED <<memory, cands, matched, tracks, pc>>

Step == (\E dt \in Steps : Update(dt)) \/ Follow \/ Adopt \/ Occupy \/ Evict
        \/ Refuse \/ Bury \/ Rank
Next == Step \/ Look

Spec == Init /\ [][Next]_vars
(* The audio loop calls update() once per block for as long as it runs,    *)
(* and each call returns.                                                  *)
Called   == pc = "idle" /\ pc' = "associate"
FairSpec == Spec /\ WF_pc(Called)
                 /\ WF_vars(Follow \/ Adopt \/ Occupy \/ Evict \/ Refuse \/ Bury \/ Rank)
-----------------------------------------------------------------------------
(* Every variable of the tracker keeps its type; grave_next_ stays inside  *)
(* the graveyard, next_id_ never returns to 0, which means "empty", and no *)
(* more than MaxTracks candidates are considered or tracks returned.       *)
ShapeOK ==
  /\ DOMAIN slots = Places /\ DOMAIN graves = Tombs
  /\ \A i \in Places : slots[i].used \in BOOLEAN
  /\ graveNext \in Tombs
  /\ nextId \in Nat \ {0}
  /\ pc \in {"idle", "associate"}
  /\ pc = "idle" => matched = {}
  /\ \A i \in matched : i \in Places /\ slots[i].used
TypeOK ==
  /\ ShapeOK
  /\ slots \in [Places -> [used : BOOLEAN, closeness : Int, azimuth : Int,
                           age : Nat, id : Nat]]
  /\ graves \in [Tombs -> [id : Nat, azimuth : Int, age : Nat]]
  /\ cands \in Seq(Blob) /\ Len(cands) <= MaxTracks
  /\ tracks \in Seq([closeness : Int, azimuth : Int, id : Nat])
  /\ Len(tracks) <= MaxTracks
  /\ scene \in Scene

LiveIds   == {slots[i].id : i \in Live}
Buried    == {g \in Tombs : graves[g].id # 0}
BuriedIds == {graves[g].id : g \in Buried}
Retired   == (1 .. nextId - 1) \ (LiveIds \cup BuriedIds)

(* fusion.h:33-34: an id names one object.  No two live tracks share one,  *)
(* none is live and buried at once or buried twice, through any sequence   *)
(* of births, evictions, drops and inheritances, and every id was issued.  *)
LiveDistinct   == \A i, j \in Live : slots[i].id = slots[j].id => i = j
BuriedDistinct == \A g, h \in Buried : graves[g].id = graves[h].id => g = h
NotBoth        == \A i \in Live, g \in Buried : slots[i].id # graves[g].id
Issued         == /\ \A i \in Live : slots[i].id \in 1 .. nextId - 1
                  /\ \A g \in Buried : graves[g].id \in 1 .. nextId - 1
IdsUnique      == LiveDistinct /\ BuriedDistinct /\ NotBoth /\ Issued

(* fusion.h:34, "never reused": an id that is neither live nor in a grave  *)
(* (its grave was overwritten or its track evicted) never comes back.      *)
NeverReused == [][Retired \subseteq Retired']_vars

(* Two candidates of one update never go to the same track, and a track    *)
(* hit in this update is neither evicted nor dropped by the rest of it.    *)
MatchedLeftAlone == [][\A i \in matched : slots'[i] = slots[i]]_vars

(* fusion.h:16-19: a track is lost only after the hold window or, from a   *)
(* full table, to a strictly closer object; its id changes no other way.   *)
Lost(i) == slots[i].used /\ (~slots'[i].used \/ slots'[i].id # slots[i].id)
HeldOrTraded ==
  [][\A i \in Places : Lost(i) =>
       \/ ~slots'[i].used /\ slots[i].age > Hold
       \/ Live = Places /\ slots'[i].closeness > slots[i].closeness]_vars

(* Merging leaves no pair of detections of different cameras within the    *)
(* gate unless one of them is already merged with another.                 *)
OverlapMerged ==
  LET c0 == scene.cam0
      c1 == scene.cam1
  IN  \E mates \in Pairings(c0, c1) :
        /\ \A m, n \in 1 .. Len(c0) : mates[m] = mates[n] => mates[m] = 0 \/ m = n
        /\ \A n \in 1 .. Len(c0), k \in 1 .. Len(c1) :
             Gap(c0[n].azimuth, c1[k].azimuth) <= MergeGate =>
               mates[n] # 0 \/ \E m \in 1 .. Len(c0) : mates[m] = k
        /\ \A n \in 1 .. Len(c0) : mates[n] # 0 =>
             Gap(c0[n].azimuth, c1[mates[n]].azimuth) <= MergeGate

(* Once the scene stops changing, the tracks keep their identities: the    *)
(* tracker cannot trade ids for ever between the objects it is shown.      *)
Identities == [i \in Places |-> IF slots[i].used THEN slots[i].id ELSE 0]
Settles == <>[][Identities' = Identities]_vars

(* Once the scene stops changing, the strictly closest blob of the scene   *)
(* has a track near it: older, closer tracks cannot keep it out for ever.  *)
Blobs   == ToSet(scene.cam0) \cup ToSet(scene.cam1)
Closest == {b \in Blobs : \A d \in Blobs \ {b} : d.closeness < b.closeness}
Heard(b) == \E i \in Live : Gap(slots[i].azimuth, b.azimuth) <= TrackGate
NearestHeard == <>[](pc = "idle" => \A b \in Closest : Heard(b))
=============================================================================
