---------------------------- MODULE AudioLoop_proof ----------------------------
(***************************************************************************)
(* The audio loop, for every size of the table and of a block, all gates,  *)
(* times and thresholds, whatever the cameras report and whichever rings   *)
(* an earlier run left.                                                    *)
(*                                                                         *)
(* Inv is a conjunction of one part per concern.  TrackerOK to SinkOK say  *)
(* what the variables hold; the others carry a promise from the step that  *)
(* makes it to the one that needs it:                                      *)
(*   ZoneOK      the ear turned well inside the zone it left;              *)
(*   SpeechOK    the clips still to be spoken fit into the audio of two    *)
(*               clips that follows an announcement;                       *)
(*   EvidenceOK  fresh detections, and tracks as old as they are, witness  *)
(*               a report: from the ring to the source, the candidates, a  *)
(*               track and at last the voice;                              *)
(*   HeardOK     detections that were taken keep a track alive;            *)
(*   OfferOK     what is offered is a candidate, and ends up as a track,   *)
(*               unless a full table of tracks expires in one update: then *)
(*               the graves of that update are counted (Ending).           *)
(***************************************************************************)
EXTENDS AudioLoop, TLAPS, FiniteSetTheorems, SequenceTheorems

USE TrackerAssumption, LoopAssumption

(* What the variables hold.                                                *)
SlotType   == [used : BOOLEAN, closeness : Int, azimuth : Int, age : Nat, id : Nat]
GraveType  == [id : Nat, azimuth : Int, age : Nat]
TrackType  == [closeness : Int, azimuth : Int, id : Nat]
Ages       == Nat \cup {Future}
RingType   == [state : {"absent", "foreign", "up"}, any : BOOLEAN, idx : Nat,
               dets : Seq(T!Blob), age : Ages]
SourceType == [open : BOOLEAN, wait : Nat, have : BOOLEAN, idx : Nat,
               dets : Seq(T!Blob), age : Ages]
Sound      == [key : Int, ear : Ears, left : Nat]

TrackerOK ==
  /\ slots \in [T!Places -> SlotType] /\ graves \in [T!Tombs -> GraveType]
  /\ graveNext \in T!Tombs /\ nextId \in Nat \ {0}
  /\ cands \in Seq(T!Blob) /\ tracks \in Seq(TrackType)
  /\ matched \subseteq T!Live /\ \A i \in matched : slots[i].age = 0
  /\ \A i \in T!Live : slots[i].id # 0
  /\ upd \in {"idle", "associate"} /\ dets \in T!Scene
IdleOK ==
  /\ upd = "associate" => at = "update"
  /\ upd = "idle" => matched = {} /\ cands = <<>> /\ \A i \in T!Live : slots[i].age <= Hold
  /\ at = "choose" => (tracks # <<>> <=> T!Live # {})

LoopOK ==
  /\ at \in {"start", "load", "tone", "sample", "poll0", "poll1", "update", "choose",
             "mix", "writing", "stop", "return", "exited"}
  /\ rings \in [Cameras -> RingType] /\ source \in [Cameras -> SourceType]
  /\ step \in {0, 1} /\ evidence \in Nat /\ heard \in Nat
  /\ \A c \in Cameras : source[c].have => source[c].open
VoiceOK ==
  /\ haveVoice \in BOOLEAN /\ holder \in Int /\ zone \in Ears
  /\ target \in [level : Int, ear : Ears] /\ sinceCall \in Nat
  /\ turnedAt \in Int /\ leftZone \in Ears \cup {"none"}

(* The sink: what a block and the file hold.  Total is what write() has    *)
(* accepted: the last block before main() has counted it.                  *)
Given == [k \in 1 .. Block - left |-> k]
Total == rendered + (IF at = "writing" /\ left = 0 THEN Block ELSE 0)
SinkOK ==
  /\ kind \in {"wav", "qsa"} /\ dev \in {"closed", "open", "gone"}
  /\ at = "writing" => left \in 0 .. Block /\ got = Given
  /\ kind = "wav" => left \in {0, Block}
  /\ file \in Nat /\ held \in Nat /\ rendered \in Nat /\ faults \in Nat
  /\ at \notin {"start", "return", "exited"} => dev = "open"
  /\ at \in {"start", "return"} => file = 0 /\ held = 0 /\ rendered = 0
  /\ at # "exited" => header = Blank
  /\ kind = "wav" => bytes = Total % Wrap
  /\ kind = "wav" /\ faults = 0 /\ at # "exited" => file + held = Total
  /\ at = "exited" /\ kind = "wav" => HeaderHonest

(* The ear turned at turnedAt, from the inside of the zone it left.        *)
ZoneOK ==
  leftZone # "none" =>
    /\ leftZone # zone /\ zone = Side(turnedAt)
    /\ leftZone = "left"  => turnedAt > -(Edge - Hyst)
    /\ leftZone = "right" => turnedAt < Edge - Hyst

(* Since an announcement, every frame mixed is one less of the clips to be *)
(* spoken, and no more than two were left at that moment.                  *)
SpeechOK ==
  /\ playing \in Sound /\ pending \in Sound /\ mixed \in 0 .. TwoClips
  /\ playing.left <= ClipLen /\ (playing.left = 0 => playing = Silence)
  /\ pending.left = ClipLen \/ pending = Silence
  /\ playing.left + pending.left + mixed <= TwoClips
  /\ mixed = 0 => /\ at = "mix" /\ Loaded /\ target.level > 0
                  /\ pending.key = NotifyKey(holder) /\ pending.ear = target.ear

(* Fresh detections are evidence, and so is a live track.                  *)
Since(age) == IF age = Future THEN 0 ELSE age
Lag        == IF at \in {"poll0", "poll1"} \/ (at = "update" /\ upd = "idle") THEN step ELSE 0
Shows(r)   == r.any /\ r.dets # <<>> /\ r.age <= FreshFor
Holding(s) == s.have /\ s.dets # <<>> /\ s.age <= FreshFor
Scenery    == dets.cam0 # <<>> \/ dets.cam1 # <<>>
EvidenceOK ==
  /\ \A c \in Cameras : Shows(rings[c]) => evidence <= Since(rings[c].age)
  /\ \A c \in Cameras : Holding(source[c]) => evidence <= Since(source[c].age)
  /\ at \in {"poll0", "poll1", "update"} /\ Scenery => evidence <= FreshFor
  /\ cands # <<>> => evidence <= FreshFor
  /\ \A i \in T!Live : slots[i].age <= Hold => evidence <= FreshFor + slots[i].age + Lag
  /\ at = "mix" /\ target.level > 0 => evidence <= FreshFor + Hold

(* Detections taken within the hold time are on a live track.              *)
HeardOK ==
  heard <= Hold => \/ upd = "associate" /\ matched # {}
                   \/ \E i \in T!Live : slots[i].age + Lag <= heard

(* What an offer does to an update: something young is live at its end, or *)
(* the table was full and all of it ends.                                  *)
Offered == \E c \in Cameras : Offers(source[c])
Young   == \E i \in T!Live : slots[i].age <= Hold
Around(x) == IF x < 2 * MaxTracks THEN x ELSE x - 2 * MaxTracks
Recent  == {g \in T!Buried : graves[g].age = 0}
Ending(n) ==
  /\ T!Live = n .. MaxTracks - 1
  /\ \E s \in T!Tombs : /\ graveNext = Around(s + n)
                        /\ Recent = {Around(s + k) : k \in 0 .. n - 1}
OfferOK ==
  /\ at \in {"poll1", "update"} /\ Offers(source[0]) => dets.cam0 # <<>>
  /\ at = "update" /\ Offers(source[1]) => dets.cam1 # <<>>
  /\ upd = "associate" /\ Offered =>
       \/ Young
       \/ cands # <<>> /\ (Recent = {} \/ T!Live = {})
       \/ cands = <<>> /\ \E n \in 0 .. MaxTracks : Ending(n)
  /\ at = "choose" /\ Offered /\ T!Live = {} => Ending(MaxTracks)

-----------------------------------------------------------------------------
(* Division and remainders.                                                *)
LEMMA Remainder ==
  ASSUME NEW a \in Nat, NEW b \in Nat, b > 0
  PROVE  a % b \in 0 .. b - 1
OBVIOUS

(* The graveyard: its next index stays inside.                               *)
LEMMA Wraps == 0 \in T!Tombs /\ \A g \in T!Tombs : (g + 1) % (2 * MaxTracks) \in T!Tombs
<1>1. 2 * MaxTracks \in Nat /\ 2 * MaxTracks > 0  OBVIOUS
<1>2. \A g \in T!Tombs : g + 1 \in Nat  BY <1>1 DEF T!Tombs
<1> QED  BY <1>1, <1>2, Remainder DEF T!Tombs

(* Division with remainder.                                                *)
LEMMA Divided ==
  ASSUME NEW a \in Nat, NEW b \in Nat, b > 0
  PROVE  a \div b \in Nat /\ a % b \in 0 .. b - 1 /\ a = b * (a \div b) + (a % b)
<1>1. a \div b \in Int /\ a % b \in 0 .. b - 1 /\ a = b * (a \div b) + (a % b)
  OBVIOUS
<1>2. a \div b >= 0
  <2> DEFINE q == a \div b
             r == a % b
  <2>1. q \in Int /\ r \in 0 .. b - 1 /\ a = b * q + r  BY <1>1
  <2> HIDE DEF q, r
  <2>2. ~(q <= -1)
    <3>1. q <= -1 => b * q <= b * (-1)  BY <2>1
    <3> QED  BY <2>1, <3>1
  <2>3. q >= 0  BY <2>1, <2>2
  <2> QED  BY <2>3 DEF q
<1> QED  BY <1>1, <1>2

(* A number has one quotient and one remainder.                              *)
LEMMA OneWay ==
  ASSUME NEW b \in Nat, NEW p \in Int, NEW q \in Int, NEW m \in 0 .. b - 1, NEW n \in 0 .. b - 1,
         b * p + m = b * q + n
  PROVE  p = q /\ m = n
<1>1. \A x, y \in Int : x > y => b * x >= b * y + b
  <2> SUFFICES ASSUME NEW x \in Int, NEW y \in Int, x > y PROVE b * x >= b * y + b
    OBVIOUS
  <2>1. x - y - 1 \in Nat  OBVIOUS
  <2>2. b * (x - y - 1) >= 0  BY <2>1
  <2>3. b * (x - y - 1) = b * x - b * y - b  OBVIOUS
  <2>4. b * x \in Int /\ b * y \in Int  OBVIOUS
  <2> QED  BY <2>2, <2>3, <2>4
<1>2. b * p \in Int /\ b * q \in Int  OBVIOUS
<1>3. ~(p > q)  BY <1>1, <1>2
<1>4. ~(q > p)  BY <1>1, <1>2
<1> QED  BY <1>2, <1>3, <1>4

LEMMA Unique ==
  ASSUME NEW a \in Nat, NEW b \in Nat, b > 0, NEW q \in Int, NEW r \in 0 .. b - 1,
         a = b * q + r
  PROVE  a \div b = q /\ a % b = r
<1> DEFINE p == a \div b
           m == a % b
<1>1. p \in Nat /\ m \in 0 .. b - 1 /\ a = b * p + m  BY Divided
<1> HIDE DEF p, m
<1>2. p = q /\ m = r  BY <1>1, OneWay
<1> QED  BY <1>2 DEF p, m

(* A sum may be reduced at any time.                                         *)
LEMMA ModSum ==
  ASSUME NEW x \in Nat, NEW y \in Nat, NEW w \in Nat, w > 0
  PROVE  ((x % w) + y) % w = (x + y) % w
<1> DEFINE p == x \div w
           m == x % w
           q == (m + y) \div w
           r == (m + y) % w
<1>1. p \in Nat /\ m \in 0 .. w - 1 /\ x = w * p + m  BY Divided
<1>2. m + y \in Nat  BY <1>1
<1>3. q \in Nat /\ r \in 0 .. w - 1 /\ m + y = w * q + r  BY <1>2, Divided
<1> HIDE DEF p, m, q, r
<1>4. x + y = w * (p + q) + r
  <2>1. w * (p + q) = w * p + w * q  BY <1>1, <1>3
  <2>2. w * p \in Int /\ w * q \in Int  BY <1>1, <1>3
  <2> QED  BY <1>1, <1>3, <2>1, <2>2
<1>5. (x + y) % w = r
  <2>1. x + y \in Nat /\ p + q \in Int  BY <1>1, <1>3
  <2> QED  BY <1>3, <1>4, <2>1, Unique
<1> QED  BY <1>5 DEF r, m

(* A set of natural numbers has a least one.                               *)
Less == {p \in Nat \X Nat : p[1] < p[2]}

LEMMA LessWellFounded == IsWellFoundedOn(Less, Nat)
BY NatLessThanWellFounded, Zenon DEF OpToRel, Less

LEMMA Least ==
  ASSUME NEW S, S \subseteq Nat, S # {}
  PROVE  \E x \in S : \A y \in S : x <= y
<1>1. PICK x \in S : \A y \in S : <<y, x>> \notin Less
  BY LessWellFounded, WFMin
<1>2. \A y \in S : ~ (y < x)  BY <1>1 DEF Less
<1> QED  BY <1>2

(* The numbers of the tracker stay numbers: blobs, rounding, smoothing, ages. *)
LEMMA BlobAt ==
  ASSUME NEW c \in Seq(T!Blob), NEW i \in 1 .. Len(c)
  PROVE  c[i] \in T!Blob /\ c[i].closeness \in Nat /\ c[i].azimuth \in Int
<1>1. c[i] \in T!Blob  OBVIOUS
<1> QED  BY <1>1 DEF T!Blob

LEMMA RoundedType == \A n \in Int, d \in Nat \ {0} : T!Rounded(n, d) \in Int
<1> SUFFICES ASSUME NEW n \in Int, NEW d \in Nat \ {0} PROVE T!Rounded(n, d) \in Int
  OBVIOUS
<1>1. 2 * n + d \in Int /\ 2 * d \in Nat /\ 2 * d > 0  OBVIOUS
<1>2. \A a \in Int, b \in Nat : b > 0 => a \div b \in Int  OBVIOUS
<1> QED  BY <1>1, <1>2 DEF T!Rounded

LEMMA SmoothType == \A old, new \in Int : T!Smooth(old, new) \in Int
<1> SUFFICES ASSUME NEW old \in Int, NEW new \in Int PROVE T!Smooth(old, new) \in Int
  OBVIOUS
<1>1. 3 * (new - old) \in Int /\ 5 \in Nat \ {0}  OBVIOUS
<1>2. T!Rounded(3 * (new - old), 5) \in Int  BY <1>1, RoundedType
<1> QED  BY <1>2 DEF T!Smooth

LEMMA OlderType == \A age, dt \in Nat : T!Older(age, dt) \in Nat
BY DEF T!Older, T!Forever

(* Two blobs fused are a blob.                                               *)
LEMMA FuseType ==
  ASSUME NEW a \in T!Blob, NEW b \in T!Blob
  PROVE  T!Fuse(a, b) \in T!Blob
<1> DEFINE sum == a.closeness + b.closeness
           far == a.azimuth * a.closeness + b.azimuth * b.closeness
           top == T!Max({a.closeness, b.closeness})
           mid == IF sum > 0 THEN T!Rounded(far, sum)
                  ELSE T!Rounded(a.azimuth + b.azimuth, 2)
<1>1. /\ a.closeness \in Nat /\ b.closeness \in Nat
      /\ a.azimuth \in Int /\ b.azimuth \in Int
  BY DEF T!Blob
<1>2. top \in Nat
  <2>1. \E x \in {a.closeness, b.closeness} :
          \A y \in {a.closeness, b.closeness} : x >= y
    BY <1>1
  <2>2. top \in {a.closeness, b.closeness}  BY <2>1 DEF T!Max
  <2> QED  BY <2>2, <1>1
<1>3. mid \in Int
  <2>1. sum \in Nat /\ far \in Int /\ a.azimuth + b.azimuth \in Int  BY <1>1
  <2> HIDE DEF sum, far
  <2> QED  BY <2>1, RoundedType
<1>4. T!Fuse(a, b) = [closeness |-> top, azimuth |-> mid]  BY DEF T!Fuse
<1> HIDE DEF top, mid
<1> QED  BY <1>2, <1>3, <1>4 DEF T!Blob

(* Sorting returns as many elements as there were, and the same ones.      *)
LEMMA RankedType ==
  ASSUME NEW D, IsFiniteSet(D), NEW B, NEW f \in [D -> B], NEW t \in T!Ranked(f)
  PROVE  t \in Seq(B) /\ Len(t) = Cardinality(D)
<1>1. DOMAIN f = D  OBVIOUS
<1>2. PICK p \in T!SetToSeqs(D) : t = [n \in DOMAIN p |-> f[p[n]]]
  BY <1>1 DEF T!Ranked
<1>3. Cardinality(D) \in Nat  BY FS_CardinalityType
<1>4. p \in [1 .. Cardinality(D) -> D]
  BY <1>2 DEF T!SetToSeqs, T!Cardinality, Cardinality
<1>5. t \in [1 .. Cardinality(D) -> B]  BY <1>2, <1>4
<1> QED  BY <1>3, <1>5

LEMMA EmptyInterval == \A n \in Nat : 1 .. n = {} <=> n = 0
<1>1. ASSUME NEW n \in Nat, n # 0 PROVE 1 \in 1 .. n  BY <1>1
<1>2. ASSUME NEW n \in Nat, n = 0 PROVE \A x : x \notin 1 .. n  BY <1>2
<1> QED  BY <1>1, <1>2

LEMMA EmptyProduct == \A a, S : {a} \X S = {} <=> S = {}
<1>1. ASSUME NEW a, NEW S, NEW x \in S PROVE <<a, x>> \in {a} \X S  OBVIOUS
<1>2. ASSUME NEW a, NEW S, NEW x \in {a} \X S PROVE x[2] \in S  OBVIOUS
<1> QED  BY <1>1, <1>2

(* Merging two reports gives blobs, none exactly if both were empty.         *)
LEMMA MergedType ==
  ASSUME NEW c0 \in Seq(T!Blob), NEW c1 \in Seq(T!Blob), NEW mates \in T!Pairings(c0, c1)
  PROVE  \E D : /\ IsFiniteSet(D) /\ T!Merged(c0, c1, mates) \in [D -> T!Blob]
               /\ (D = {} <=> (c0 = <<>> /\ c1 = <<>>))
<1> DEFINE A == {0} \X (1 .. Len(c0))
           U == T!Untaken(c1, mates, Len(c0) + 1)
           C == {1} \X U
<1>0. Len(c0) \in Nat /\ Len(c1) \in Nat /\ U \subseteq 1 .. Len(c1)
  BY DEF T!Untaken
<1>1. IsFiniteSet(A \cup C)
  <2>1. IsFiniteSet(1 .. Len(c0)) /\ IsFiniteSet(1 .. Len(c1))
    BY <1>0, FS_Interval
  <2>2. IsFiniteSet(U)  BY <1>0, <2>1, FS_Subset
  <2>3. IsFiniteSet({0}) /\ IsFiniteSet({1})  BY FS_Singleton
  <2>4. IsFiniteSet(A) /\ IsFiniteSet(C)  BY <2>1, <2>2, <2>3, FS_Product
  <2> QED  BY <2>4, FS_Union
<1>2. mates \in [1 .. Len(c0) -> 0 .. Len(c1)]  BY DEF T!Pairings
<1> DEFINE M(b) == IF b[1] = 1 THEN c1[b[2]]
                   ELSE IF mates[b[2]] = 0 THEN c0[b[2]]
                   ELSE T!Fuse(c0[b[2]], c1[mates[b[2]]])
<1>3. ASSUME NEW b \in A \cup C  PROVE M(b) \in T!Blob
  <2>1. CASE b \in C
    <3>1. b[1] = 1 /\ b[2] \in 1 .. Len(c1)  BY <2>1, <1>0
    <3> QED  BY <3>1, BlobAt
  <2>2. CASE b \in A
    <3>1. b[1] = 0 /\ b[2] \in 1 .. Len(c0)  BY <2>2
    <3>2. c0[b[2]] \in T!Blob  BY <3>1, BlobAt
    <3>3. mates[b[2]] # 0 => mates[b[2]] \in 1 .. Len(c1)  BY <3>1, <1>2, <1>0
    <3>4. mates[b[2]] # 0 => T!Fuse(c0[b[2]], c1[mates[b[2]]]) \in T!Blob
      BY <3>2, <3>3, BlobAt, FuseType
    <3> QED  BY <3>1, <3>2, <3>4
  <2> QED  BY <2>1, <2>2, <1>3
<1>4. T!Merged(c0, c1, mates) = [b \in A \cup C |-> M(b)]  BY DEF T!Merged
<1>6. A \cup C = {} <=> c0 = <<>> /\ c1 = <<>>
  <2>1. A = {} <=> Len(c0) = 0  BY <1>0, EmptyInterval, EmptyProduct
  <2>2. Len(c0) = 0 => U = 1 .. Len(c1)  BY DEF T!Untaken
  <2>3. C = {} <=> U = {}  BY EmptyProduct
  <2>4. 1 .. Len(c1) = {} <=> Len(c1) = 0  BY <1>0, EmptyInterval
  <2>5. (Len(c0) = 0 <=> c0 = <<>>) /\ (Len(c1) = 0 <=> c1 = <<>>)  OBVIOUS
  <2> HIDE DEF A, C, U
  <2> QED  BY <2>1, <2>2, <2>3, <2>4, <2>5
<1> HIDE DEF M, A, C
<1>5. T!Merged(c0, c1, mates) \in [A \cup C -> T!Blob]  BY <1>3, <1>4
<1> QED  BY <1>1, <1>5, <1>6

-----------------------------------------------------------------------------
(* One update of the tracker, a step at a time: the types of what it holds,*)
(* and what the step does to ages, candidates and graves.                  *)
Aged ==
  /\ T!Live' = T!Live /\ \A i \in T!Live : slots'[i].age = T!Older(slots[i].age, step)
  /\ T!Buried' = T!Buried
  /\ \A g \in T!Buried : graves'[g].age = T!Older(graves[g].age, step)
  /\ cands' # <<>> <=> Scenery
  /\ upd = "idle" /\ upd' = "associate" /\ matched' = {}
  /\ graveNext' = graveNext /\ tracks' = tracks /\ dets' = dets

(* The first step of update(): tracks age, graves age, candidates are ranked. *)
LEMMA UpdateSlots ==
  ASSUME TrackerOK, step \in Nat, T!Update(step)
  PROVE  /\ slots' \in [T!Places -> SlotType]
         /\ \A i \in T!Places : slots'[i].used = slots[i].used /\ slots'[i].id = slots[i].id
         /\ \A i \in T!Live : slots'[i].age = T!Older(slots[i].age, step)
<1> DEFINE new(i) == IF slots[i].used THEN T!AgedTrack(slots[i], step) ELSE slots[i]
           yes == TRUE
<1>1. slots' = [i \in T!Places |-> new(i)]  BY DEF T!Update
<1>2. ASSUME NEW i \in T!Places
      PROVE  /\ new(i) \in SlotType /\ new(i).used = slots[i].used
             /\ new(i).id = slots[i].id
             /\ slots[i].used => new(i).age = T!Older(slots[i].age, step)
  <2>1. slots[i] \in SlotType /\ slots[i].age \in Nat /\ slots[i].used \in BOOLEAN
    BY DEF TrackerOK, SlotType
  <2>2. CASE slots[i].used
    <3> DEFINE old == T!Older(slots[i].age, step)
    <3>1. old \in Nat /\ yes \in BOOLEAN  BY <2>1, OlderType
    <3>2. slots[i].used = yes  BY <2>1, <2>2
    <3>3. new(i) = [used |-> yes, closeness |-> slots[i].closeness,
                    azimuth |-> slots[i].azimuth, age |-> old, id |-> slots[i].id]
      BY <2>2 DEF T!AgedTrack
    <3> HIDE DEF old, yes, new
    <3>4. new(i) \in SlotType  BY <2>1, <3>1, <3>3 DEF SlotType
    <3> QED  BY <3>2, <3>3, <3>4 DEF old
  <2>3. CASE ~slots[i].used  BY <2>1, <2>3
  <2> QED  BY <2>2, <2>3
<1> HIDE DEF new
<1> QED  BY <1>1, <1>2 DEF T!Live

LEMMA UpdateGraves ==
  ASSUME TrackerOK, step \in Nat, T!Update(step)
  PROVE  /\ graves' \in [T!Tombs -> GraveType]
         /\ \A g \in T!Tombs : graves'[g].id = graves[g].id
         /\ \A g \in T!Buried : graves'[g].age = T!Older(graves[g].age, step)
<1> DEFINE new(g) == IF graves[g].id # 0 THEN T!AgedGrave(graves[g], step) ELSE graves[g]
<1>1. graves' = [g \in T!Tombs |-> new(g)]  BY DEF T!Update
<1>2. ASSUME NEW g \in T!Tombs
      PROVE  /\ new(g) \in GraveType /\ new(g).id = graves[g].id
             /\ graves[g].id # 0 => new(g).age = T!Older(graves[g].age, step)
  <2>1. graves[g] \in GraveType /\ graves[g].age \in Nat
    BY DEF TrackerOK, GraveType
  <2>2. T!Older(graves[g].age, step) \in Nat  BY <2>1, OlderType
  <2> QED  BY <2>1, <2>2 DEF T!AgedGrave, GraveType
<1> HIDE DEF new
<1> QED  BY <1>1, <1>2 DEF T!Buried

LEMMA UpdateCands ==
  ASSUME TrackerOK, T!Update(step)
  PROVE  cands' \in Seq(T!Blob) /\ (cands' # <<>> <=> Scenery)
<1> DEFINE c0 == dets.cam0
           c1 == dets.cam1
<1>1. c0 \in Seq(T!Blob) /\ c1 \in Seq(T!Blob)  BY DEF TrackerOK, T!Scene
<1>2. PICK mates \in T!Pairings(c0, c1) :
        \E t \in T!Ranked(T!Merged(c0, c1, mates)) :
          cands' = IF Len(t) > MaxTracks THEN SubSeq(t, 1, MaxTracks) ELSE t
  BY DEF T!Update
<1>3. PICK t \in T!Ranked(T!Merged(c0, c1, mates)) :
        cands' = IF Len(t) > MaxTracks THEN SubSeq(t, 1, MaxTracks) ELSE t
  BY <1>2
<1>s. Scenery <=> ~(c0 = <<>> /\ c1 = <<>>)  BY DEF Scenery
<1> HIDE DEF c0, c1
<1>4. PICK D : /\ IsFiniteSet(D)
               /\ T!Merged(c0, c1, mates) \in [D -> T!Blob]
               /\ (D = {} <=> (c0 = <<>> /\ c1 = <<>>))
  BY <1>1, MergedType
<1>5. t \in Seq(T!Blob) /\ Len(t) = Cardinality(D)  BY <1>3, <1>4, RankedType
<1>6. Len(t) = 0 <=> ~Scenery  BY <1>4, <1>5, <1>s, FS_EmptySet
<1>7. CASE Len(t) > MaxTracks
  <2>1. /\ SubSeq(t, 1, MaxTracks) \in Seq(T!Blob)
        /\ Len(SubSeq(t, 1, MaxTracks)) = MaxTracks
    BY <1>5, <1>7
  <2>2. cands' \in Seq(T!Blob) /\ Len(cands') = MaxTracks  BY <1>3, <1>7, <2>1
  <2>3. cands' # <<>>  BY <2>2
  <2> QED  BY <1>6, <1>7, <2>2, <2>3
<1>8. CASE ~(Len(t) > MaxTracks)
  <2>1. cands' = t  BY <1>3, <1>8
  <2>2. t = <<>> <=> Len(t) = 0  BY <1>5
  <2> QED  BY <1>5, <1>6, <2>1, <2>2
<1> QED  BY <1>7, <1>8

LEMMA UpdateTakes ==
  ASSUME TrackerOK, step \in Nat, T!Update(step)
  PROVE  TrackerOK' /\ Aged
<1>1. /\ slots' \in [T!Places -> SlotType]
      /\ \A i \in T!Places : slots'[i].used = slots[i].used /\ slots'[i].id = slots[i].id
      /\ \A i \in T!Live : slots'[i].age = T!Older(slots[i].age, step)
  BY UpdateSlots
<1>2. /\ graves' \in [T!Tombs -> GraveType]
      /\ \A g \in T!Tombs : graves'[g].id = graves[g].id
      /\ \A g \in T!Buried : graves'[g].age = T!Older(graves[g].age, step)
  BY UpdateGraves
<1>3. cands' \in Seq(T!Blob) /\ (cands' # <<>> <=> Scenery)  BY UpdateCands
<1>4. /\ graveNext' = graveNext /\ nextId' = nextId /\ tracks' = tracks
      /\ dets' = dets /\ matched' = {} /\ upd = "idle" /\ upd' = "associate"
  BY DEF T!Update
<1>5. T!Live' = T!Live /\ T!Live \subseteq T!Places  BY <1>1 DEF T!Live
<1>6. T!Buried' = T!Buried  BY <1>2 DEF T!Buried
<1>7. TrackerOK'  BY <1>1, <1>2, <1>3, <1>4, <1>5 DEF TrackerOK
<1> QED  BY <1>1, <1>2, <1>3, <1>4, <1>5, <1>6, <1>7 DEF Aged

(* A candidate goes to place i, as a hit or as a birth.                    *)
Seated(i) ==
  /\ i \in T!Places /\ T!Live' = T!Live \cup {i} /\ matched' = matched \cup {i}
  /\ \A j \in T!Live \ {i} : slots'[j] = slots[j]
  /\ slots'[i].age = 0
Advanced ==
  /\ cands # <<>> /\ cands' = Tail(cands) /\ upd = "associate" /\ upd' = "associate"
  /\ tracks' = tracks /\ dets' = dets /\ graveNext' = graveNext

(* A candidate is taken off the list, and seated.                            *)
LEMMA Advances ==
  ASSUME TrackerOK, T!Associating
  PROVE  Advanced /\ Head(cands) \in T!Blob /\ cands' \in Seq(T!Blob)
<1>1. cands \in Seq(T!Blob) /\ cands # <<>> /\ cands' = Tail(cands)
  BY DEF TrackerOK, T!Associating
<1>2. Head(cands) \in T!Blob /\ Tail(cands) \in Seq(T!Blob)  BY <1>1
<1> QED  BY <1>1, <1>2 DEF T!Associating, Advanced

LEMMA SeatKeeps ==
  ASSUME TrackerOK, T!Associating, NEW i \in T!Places, NEW new \in SlotType,
         new.used, new.age = 0, new.id # 0, slots' = [slots EXCEPT ![i] = new],
         matched' = matched \cup {i}, graves' \in [T!Tombs -> GraveType],
         nextId' \in Nat \ {0}
  PROVE  TrackerOK' /\ Seated(i) /\ Advanced
<1>1. Advanced /\ cands' \in Seq(T!Blob)  BY Advances
<1>2. slots' \in [T!Places -> SlotType]  BY DEF TrackerOK
<1>3. slots'[i] = new /\ \A j \in T!Places \ {i} : slots'[j] = slots[j]
  BY DEF TrackerOK
<1>4. T!Live' = T!Live \cup {i}  BY <1>3 DEF T!Live
<1>5. \A j \in matched' : slots'[j].age = 0
  BY <1>3 DEF TrackerOK, T!Live
<1>6. \A j \in T!Live' : slots'[j].id # 0
  BY <1>3, <1>4 DEF TrackerOK, T!Live
<1>7. matched' \subseteq T!Live'  BY <1>4 DEF TrackerOK
<1>8. TrackerOK'  BY <1>1, <1>2, <1>5, <1>6, <1>7 DEF TrackerOK, Advanced
<1>9. Seated(i)  BY <1>3, <1>4 DEF Seated, T!Live
<1> QED  BY <1>1, <1>8, <1>9

(* It is a hit on a track, or the birth of one.                              *)
LEMMA HitTakes ==
  ASSUME TrackerOK, NEW i \in T!Unmatched, T!Associating, T!Hit(i, Head(cands))
  PROVE  TrackerOK' /\ Seated(i) /\ Advanced
<1> DEFINE c == Head(cands)
           cl == T!Smooth(slots[i].closeness, c.closeness)
           az == T!Smooth(slots[i].azimuth, c.azimuth)
           id == slots[i].id
           yes == TRUE
           new == [used |-> yes, closeness |-> cl, azimuth |-> az, age |-> 0, id |-> id]
<1>0. i \in T!Places /\ i \in T!Live  BY DEF T!Unmatched, T!Live
<1>1. c \in T!Blob  BY Advances
<1>2. /\ slots[i].closeness \in Int /\ slots[i].azimuth \in Int /\ id \in Nat /\ id # 0
      /\ c.closeness \in Int /\ c.azimuth \in Int
  BY <1>0, <1>1 DEF TrackerOK, SlotType, T!Blob
<1>3. cl \in Int /\ az \in Int /\ yes \in BOOLEAN /\ yes  BY <1>2, SmoothType
<1>4. /\ slots' = [slots EXCEPT ![i] = new] /\ graves' = graves /\ nextId' = nextId
      /\ matched' = matched \cup {i}
  BY DEF T!Hit
<1> HIDE DEF cl, az, id, yes, c
<1>5. new \in SlotType /\ new.used /\ new.age = 0 /\ new.id # 0
  BY <1>2, <1>3 DEF SlotType
<1> HIDE DEF new
<1>6. graves' \in [T!Tombs -> GraveType] /\ nextId' \in Nat \ {0}
  BY <1>4 DEF TrackerOK
<1> QED  BY <1>0, <1>4, <1>5, <1>6, SeatKeeps

LEMMA BirthTakes ==
  ASSUME TrackerOK, NEW i \in T!Places, T!Associating, T!Birth(i, Head(cands))
  PROVE  TrackerOK' /\ Seated(i) /\ Advanced
<1> DEFINE c == Head(cands)
<1>0. c \in T!Blob  BY Advances
<1>1. \E id \in Nat \ {0} : T!Born(i, c, id) /\ graves' \in [T!Tombs -> GraveType]
                            /\ nextId' \in Nat \ {0}
  <2>1. CASE T!Inherit(i, c)
    <3>1. PICK g \in T!Haunting(c) :
            /\ T!Born(i, c, graves[g].id)
            /\ graves' = [graves EXCEPT ![g] = T!NoGrave]
      BY <2>1 DEF T!Inherit
    <3>2. g \in T!Tombs /\ graves[g].id # 0  BY DEF T!Haunting
    <3>3. graves[g].id \in Nat \ {0}  BY <3>2 DEF TrackerOK, GraveType
    <3>4. T!NoGrave \in GraveType  BY DEF T!NoGrave, GraveType
    <3>5. nextId' = nextId  BY <2>1 DEF T!Inherit
    <3> QED  BY <3>1, <3>3, <3>4, <3>5 DEF TrackerOK
  <2>2. CASE T!Fresh(i, c)
    BY <2>2 DEF T!Fresh, TrackerOK
  <2> QED  BY <2>1, <2>2 DEF T!Birth
<1>2. PICK id \in Nat \ {0} : T!Born(i, c, id) /\ graves' \in [T!Tombs -> GraveType]
                              /\ nextId' \in Nat \ {0}
  BY <1>1
<1> DEFINE yes == TRUE
           new == [used |-> yes, closeness |-> c.closeness, azimuth |-> c.azimuth,
                   age |-> 0, id |-> id]
<1>3. slots' = [slots EXCEPT ![i] = new] /\ matched' = matched \cup {i}
  BY <1>2 DEF T!Born
<1>4. c.closeness \in Int /\ c.azimuth \in Int /\ yes \in BOOLEAN /\ yes
  BY <1>0 DEF T!Blob
<1> HIDE DEF yes, c
<1>5. new \in SlotType /\ new.used /\ new.age = 0 /\ new.id # 0
  BY <1>4 DEF SlotType
<1> HIDE DEF new
<1> QED  BY <1>2, <1>3, <1>5, SeatKeeps

(* A candidate is refused: the table is full.                              *)
Refused == T!Live = T!Places /\ UNCHANGED <<slots, graves, matched>> /\ Advanced

LEMMA RefuseTakes ==
  ASSUME TrackerOK, T!Refuse
  PROVE  TrackerOK' /\ Refused
<1>1. T!Associating  BY DEF T!Refuse
<1>2. Advanced /\ cands' \in Seq(T!Blob)  BY <1>1, Advances
<1>3. T!Live = T!Places  BY DEF T!Refuse, T!FreePlaces, T!Live
<1>4. T!Live' = T!Live /\ UNCHANGED <<slots, graves, nextId, matched>>
  BY DEF T!Refuse, T!Live
<1> QED  BY <1>2, <1>3, <1>4 DEF Refused, Advanced, TrackerOK

(* The first expired track goes to the next grave.                         *)
Interred(i) ==
  /\ i \in T!Expired /\ \A j \in T!Expired : i <= j
  /\ T!Live' = T!Live \ {i} /\ \A j \in T!Live \ {i} : slots'[j] = slots[j]
  /\ graveNext \in T!Buried' /\ graves'[graveNext].age = 0
  /\ \A g \in T!Tombs \ {graveNext} : graves'[g] = graves[g]
  /\ graveNext' = (graveNext + 1) % (2 * MaxTracks)
  /\ cands = <<>> /\ upd = "associate"
  /\ UNCHANGED <<cands, matched, tracks, upd, dets>>

LEMMA BuryTakes ==
  ASSUME TrackerOK, T!Bury
  PROVE  TrackerOK' /\ \E i \in T!Expired : Interred(i)
<1> DEFINE dead(i) == [id |-> slots[i].id, azimuth |-> slots[i].azimuth, age |-> 0]
<1>1. PICK i \in T!Expired : /\ T!First(i, T!Expired)
                             /\ graves' = [graves EXCEPT ![graveNext] = dead(i)]
                             /\ slots' = [slots EXCEPT ![i] = T!NoTrack]
  BY DEF T!Bury
<1>2. i \in T!Places /\ i \in T!Live /\ i \notin matched
  BY DEF T!Expired, T!Unmatched, T!Live
<1>3. dead(i) \in GraveType /\ dead(i).id # 0 /\ dead(i).age = 0
  BY <1>2 DEF TrackerOK, SlotType, GraveType
<1>4. T!NoTrack \in SlotType /\ ~T!NoTrack.used  BY DEF T!NoTrack, SlotType
<1> HIDE DEF dead
<1>5. slots' \in [T!Places -> SlotType] /\ graves' \in [T!Tombs -> GraveType]
  BY <1>1, <1>3, <1>4 DEF TrackerOK
<1>6. ~slots'[i].used /\ \A j \in T!Places \ {i} : slots'[j] = slots[j]
  BY <1>1, <1>2, <1>4 DEF TrackerOK
<1>7. T!Live' = T!Live \ {i}  BY <1>6 DEF T!Live
<1>8. /\ graves'[graveNext] = dead(i)
      /\ \A g \in T!Tombs \ {graveNext} : graves'[g] = graves[g]
  BY <1>1 DEF TrackerOK
<1>9. graveNext \in T!Buried'  BY <1>3, <1>8 DEF T!Buried, TrackerOK
<1>10. /\ graveNext' = (graveNext + 1) % (2 * MaxTracks)
       /\ nextId' = nextId /\ cands = <<>> /\ upd = "associate"
       /\ UNCHANGED <<cands, matched, tracks, upd, dets>>
  BY DEF T!Bury
<1>11. graveNext' \in T!Tombs  BY <1>10, Wraps DEF TrackerOK
<1>12. Interred(i)
  BY <1>1, <1>2, <1>3, <1>6, <1>7, <1>8, <1>9, <1>10 DEF Interred, T!First, T!Live
<1>13. matched' \subseteq T!Live'  BY <1>2, <1>7, <1>10 DEF TrackerOK
<1>14. \A j \in matched' : slots'[j].age = 0
  BY <1>2, <1>6, <1>10 DEF TrackerOK, T!Live
<1>15. \A j \in T!Live' : slots'[j].id # 0  BY <1>6, <1>7 DEF TrackerOK, T!Live
<1>16. TrackerOK'
  BY <1>5, <1>10, <1>11, <1>13, <1>14, <1>15 DEF TrackerOK
<1> QED  BY <1>12, <1>16

(* The live tracks are returned.                                           *)
Returned ==
  /\ T!Expired = {} /\ UNCHANGED <<slots, graves, graveNext, nextId, dets>>
  /\ cands = <<>> /\ cands' = <<>> /\ matched' = {} /\ upd = "associate" /\ upd' = "idle"
  /\ tracks' # <<>> <=> T!Live # {}

LEMMA RankTakes ==
  ASSUME TrackerOK, T!Rank
  PROVE  TrackerOK' /\ Returned
<1>1. T!Live \subseteq T!Places  BY DEF T!Live
<1>2. IsFiniteSet(T!Live)
  <2>1. 0 \in Int /\ MaxTracks - 1 \in Int  OBVIOUS
  <2>2. IsFiniteSet(T!Places)  BY <2>1, FS_Interval DEF T!Places
  <2> QED  BY <1>1, <2>2, FS_Subset
<1>3. [i \in T!Live |-> T!Shown(i)] \in [T!Live -> TrackType]
  BY <1>1 DEF T!Shown, TrackType, TrackerOK, SlotType
<1>4. tracks' \in T!Ranked([i \in T!Live |-> T!Shown(i)])  BY DEF T!Rank
<1>5. tracks' \in Seq(TrackType) /\ Len(tracks') = Cardinality(T!Live)
  BY <1>2, <1>3, <1>4, RankedType
<1>6. tracks' = <<>> <=> Len(tracks') = 0  BY <1>5
<1>7. tracks' # <<>> <=> T!Live # {}  BY <1>2, <1>5, <1>6, FS_EmptySet
<1>8. /\ T!Expired = {} /\ UNCHANGED <<slots, graves, graveNext, nextId, dets>>
      /\ cands = <<>> /\ cands' = <<>> /\ matched' = {} /\ upd = "associate" /\ upd' = "idle"
  BY DEF T!Rank, T!memory
<1>9. T!Live' = T!Live  BY <1>8 DEF T!Live
<1>10. TrackerOK'  BY <1>5, <1>8, <1>9 DEF TrackerOK
<1> QED  BY <1>7, <1>8, <1>10 DEF Returned

(* One step of update().                                                   *)
Ended == /\ Returned /\ at' = "choose"
         /\ heard' = IF matched = {} THEN heard ELSE 0
Going == at' = "update" /\ heard' = heard
TrackEffect ==
  \/ Aged /\ Going
  \/ Advanced /\ Going /\ \E i \in T!Places : Seated(i)
  \/ Refused /\ Going
  \/ Going /\ \E i \in T!Expired : Interred(i)
  \/ Ended

LEMMA TrackTakes ==
  ASSUME TrackerOK, step \in Nat, Track
  PROVE  TrackerOK' /\ TrackEffect
<1>1. CASE T!Update(step) /\ Going
  BY <1>1, UpdateTakes DEF TrackEffect
<1>2. CASE T!Follow /\ Going
  <2>1. PICK i \in T!InGate(Head(cands)) : T!Hit(i, Head(cands))
    BY <1>2 DEF T!Follow
  <2>2. i \in T!Unmatched /\ i \in T!Places  BY DEF T!InGate, T!Within, T!Unmatched
  <2>3. T!Associating  BY <1>2 DEF T!Follow
  <2>4. TrackerOK' /\ Seated(i) /\ Advanced  BY <2>1, <2>2, <2>3, HitTakes
  <2> QED  BY <1>2, <2>2, <2>4 DEF TrackEffect
<1>3. CASE T!Adopt /\ Going
  <2>1. PICK i \in T!InSeam(Head(cands)) : T!Hit(i, Head(cands))
    BY <1>3 DEF T!Adopt
  <2>2. i \in T!Unmatched /\ i \in T!Places
    BY DEF T!InSeam, T!Within, T!Coasting, T!Unmatched
  <2>3. T!Associating  BY <1>3 DEF T!Adopt
  <2>4. TrackerOK' /\ Seated(i) /\ Advanced  BY <2>1, <2>2, <2>3, HitTakes
  <2> QED  BY <1>3, <2>2, <2>4 DEF TrackEffect
<1>4. CASE T!Occupy /\ Going
  <2>1. PICK i \in T!FreePlaces : T!Birth(i, Head(cands))  BY <1>4 DEF T!Occupy
  <2>2. i \in T!Places  BY DEF T!FreePlaces
  <2>3. T!Associating  BY <1>4 DEF T!Occupy
  <2>4. TrackerOK' /\ Seated(i) /\ Advanced  BY <2>1, <2>2, <2>3, BirthTakes
  <2> QED  BY <1>4, <2>2, <2>4 DEF TrackEffect
<1>5. CASE T!Evict /\ Going
  <2>1. PICK i \in T!Unmatched : T!Birth(i, Head(cands))  BY <1>5 DEF T!Evict
  <2>2. i \in T!Places  BY DEF T!Unmatched
  <2>3. T!Associating  BY <1>5 DEF T!Evict
  <2>4. TrackerOK' /\ Seated(i) /\ Advanced  BY <2>1, <2>2, <2>3, BirthTakes
  <2> QED  BY <1>5, <2>2, <2>4 DEF TrackEffect
<1>6. CASE T!Refuse /\ Going  BY <1>6, RefuseTakes DEF TrackEffect
<1>7. CASE T!Bury /\ Going  BY <1>7, BuryTakes DEF TrackEffect
<1>8. CASE T!Rank /\ at' = "choose" /\ heard' = IF matched = {} THEN heard ELSE 0
  BY <1>8, RankTakes DEF TrackEffect, Ended
<1> QED
  BY <1>1, <1>2, <1>3, <1>4, <1>5, <1>6, <1>7, <1>8 DEF Track, Going
-----------------------------------------------------------------------------
(* Who changes what.  The steps of the sink and of the start leave alone   *)
(* all that follows the detections; they come while nothing is polled.     *)
Outer == \/ Begin \/ NoOutput \/ LoadClips \/ ToneBlock \/ Render
         \/ Write \/ WriteFails \/ Written \/ Interrupted
         \/ StopSink \/ Exited
Inside == {"poll0", "poll1", "update", "choose"}
Labels == {"start", "load", "tone", "sample", "poll0", "poll1", "update", "choose",
           "mix", "writing", "stop", "return", "exited"}

LEMMA OuterFrame ==
  ASSUME Outer
  PROVE  /\ UNCHANGED <<worker, source, dets, step, tracker, voice, history>>
         /\ at \notin Inside /\ at' \in Labels \ (Inside \cup {"mix"})
<1>1. CASE Begin  BY <1>1 DEF Begin, Inside, Labels
<1>2. CASE NoOutput  BY <1>2 DEF NoOutput, Inside, Labels
<1>3. CASE LoadClips  BY <1>3 DEF LoadClips, Inside, Labels
<1>4. CASE ToneBlock  BY <1>4 DEF ToneBlock, Inside, Labels
<1>5. CASE Render  BY <1>5 DEF Render, Inside, Labels
<1>6. CASE Write  BY <1>6 DEF Write, Outside, Inside, Labels
<1>7. CASE WriteFails  BY <1>7 DEF WriteFails, Outside, Inside, Labels
<1>8. CASE Written  BY <1>8 DEF Written, Outside, Inside, Labels
<1>10. CASE Interrupted  BY <1>10 DEF Interrupted, Outside, Inside, Labels
<1>11. CASE StopSink  BY <1>11 DEF StopSink, Outside, Inside, Labels
<1>12. CASE Exited  BY <1>12 DEF Exited, vars, Inside, Labels
<1> QED  BY <1>1, <1>2, <1>3, <1>4, <1>5, <1>6, <1>7, <1>8, <1>10, <1>11, <1>12
         DEF Outer

(* Every step is of one of these kinds.                                    *)
LEMMA Kinds ==
  ASSUME [Next]_vars
  PROVE  \/ UNCHANGED vars \/ Outer \/ Track \/ Choose \/ NoVoice
         \/ \E c \in Cameras : Create(c) \/ Publish(c) \/ Poll(c)
         \/ \E dt \in {0, 1} : Sample(dt)
BY DEF Next, Outer

(* What has been tried and taken is still a source.                        *)
LEMMA TriedType ==
  ASSUME LoopOK, NEW c \in Cameras
  PROVE  /\ Tried(c) \in SourceType
         /\ Tried(c).have = source[c].have /\ Tried(c).idx = source[c].idx
         /\ Tried(c).dets = source[c].dets /\ Tried(c).age = source[c].age
         /\ source[c].open => Tried(c).open
<1> DEFINE s == source[c]
           up == rings[c].state = "up"
           s1 == [s EXCEPT !.wait = OpenRetry]
           s2 == [s1 EXCEPT !.open = up]
<1>1. s \in SourceType  BY DEF LoopOK
<1>2. CASE s.open \/ s.wait > 0  BY <1>1, <1>2 DEF Tried
<1>3. CASE ~(s.open \/ s.wait > 0)
  <2>1. Tried(c) = s2  BY <1>3 DEF Tried
  <2>2. up \in BOOLEAN  OBVIOUS
  <2>3. ~s.open  BY <1>3
  <2> HIDE DEF s, up
  <2>4. s1 \in SourceType /\ s1.have = s.have /\ s1.idx = s.idx /\ s1.dets = s.dets
        /\ s1.age = s.age
    BY <1>1 DEF SourceType
  <2> HIDE DEF s1
  <2>5. s2 \in SourceType /\ s2.have = s.have /\ s2.idx = s.idx /\ s2.dets = s.dets
        /\ s2.age = s.age
    BY <2>2, <2>4 DEF SourceType
  <2> QED  BY <2>1, <2>3, <2>5 DEF s
<1> QED  BY <1>2, <1>3

LEMMA TakenType ==
  ASSUME LoopOK, NEW c \in Cameras, NEW s \in SourceType, s.have => s.open
  PROVE  /\ Taken(c, s) \in SourceType
         /\ Taken(c, s).have => Taken(c, s).open
         /\ \/ Taken(c, s) = s
            \/ /\ rings[c].any /\ Taken(c, s).dets = rings[c].dets
               /\ Taken(c, s).age = rings[c].age
<1> DEFINE r == rings[c]
           yes == TRUE
           s1 == [s EXCEPT !.have = yes]
           s2 == [s1 EXCEPT !.idx = r.idx]
           s3 == [s2 EXCEPT !.dets = r.dets]
           s4 == [s3 EXCEPT !.age = r.age]
<1>1. r \in RingType  BY DEF LoopOK
<1>2. CASE s.open /\ r.any /\ (~s.have \/ r.idx # s.idx)
  <2>1. Taken(c, s) = s4  BY <1>2 DEF Taken
  <2>2. yes \in BOOLEAN /\ s.open /\ r.any  BY <1>2
  <2>3. r.idx \in Nat /\ r.dets \in Seq(T!Blob) /\ r.age \in Ages  BY <1>1 DEF RingType
  <2> HIDE DEF r, yes
  <2>4. s1 \in SourceType /\ s1.open  BY <2>2 DEF SourceType
  <2> HIDE DEF s1
  <2>5. s2 \in SourceType /\ s2.open  BY <2>3, <2>4 DEF SourceType
  <2> HIDE DEF s2
  <2>6. s3 \in SourceType /\ s3.open /\ s3.dets = r.dets  BY <2>3, <2>5 DEF SourceType
  <2> HIDE DEF s3
  <2>7. s4 \in SourceType /\ s4.open /\ s4.dets = r.dets /\ s4.age = r.age
    BY <2>3, <2>6 DEF SourceType
  <2> QED  BY <2>1, <2>2, <2>7 DEF r
<1>3. CASE ~(s.open /\ r.any /\ (~s.have \/ r.idx # s.idx))
  BY <1>3 DEF Taken
<1> QED  BY <1>2, <1>3
(* Polling camera c: the source afterwards, and what the tracker will see. *)
Polled(c) == Taken(c, Tried(c))

(* A poll keeps what was held, or takes what the ring shows.                 *)
LEMMA PolledType ==
  ASSUME LoopOK, NEW c \in Cameras
  PROVE  /\ Polled(c) \in SourceType
         /\ Polled(c).have => Polled(c).open
         /\ \/ /\ Polled(c).have = source[c].have /\ Polled(c).dets = source[c].dets
               /\ Polled(c).age = source[c].age
            \/ /\ rings[c].any /\ Polled(c).dets = rings[c].dets
               /\ Polled(c).age = rings[c].age
<1>1. /\ Tried(c) \in SourceType
      /\ Tried(c).have = source[c].have /\ Tried(c).dets = source[c].dets
      /\ Tried(c).age = source[c].age /\ (source[c].open => Tried(c).open)
  BY TriedType
<1>2. Tried(c).have => Tried(c).open  BY <1>1 DEF LoopOK
<1> QED  BY <1>1, <1>2, TakenType DEF Polled

LEMMA PollFrame ==
  ASSUME NEW c \in Cameras, Poll(c)
  PROVE  /\ source' = [source EXCEPT ![c] = Polled(c)]
         /\ dets' = IF ~Usable(Polled(c)) THEN dets
                    ELSE IF c = 0 THEN [dets EXCEPT !.cam0 = Polled(c).dets]
                    ELSE [dets EXCEPT !.cam1 = Polled(c).dets]
         /\ at = (IF c = 0 THEN "poll0" ELSE "poll1")
         /\ at' = IF c = 0 THEN "poll1" ELSE "update"
         /\ UNCHANGED <<sinkVars, speechVars, Run, worker, step, tracker, voice, history>>
BY DEF Poll, Polled

-----------------------------------------------------------------------------
(* The types: the loop and its sources, the tracker, the voice.            *)
LEMMA CapType == \A n, top \in Nat : Capped(n, top) \in Nat /\ Capped(n, top) <= n
BY DEF Capped

LEMMA AfterType ==
  \A age \in Ages, dt \in {0, 1}, top \in Nat :
    /\ After(age, dt, top) \in Nat
    /\ After(age, dt, top) < top => After(age, dt, top) = Since(age) + dt
BY DEF After, Ages, Future, Capped, Since

(* The loop and its sources.                                                 *)
LEMMA LoopInit == ASSUME Init PROVE LoopOK
<1>1. rings \in [Cameras -> RingType]
  BY FoundAssumption DEF Init, Ring, RingType, Ages
<1>2. Unopened \in SourceType /\ ~Unopened.have
  BY DEF Unopened, SourceType, Ages
<1>3. source \in [Cameras -> SourceType] /\ \A c \in Cameras : ~source[c].have
  BY <1>2 DEF Init
<1>4. evidence \in Nat
  <2>1. Reported \subseteq Nat
    BY <1>1, FoundAssumption DEF Reported, Init, Ring
  <2>2. {LongAgo} \cup Reported \subseteq Nat  BY <2>1 DEF LongAgo
  <2>3. PICK a \in {LongAgo} \cup Reported : \A b \in {LongAgo} \cup Reported : a <= b
    BY <2>2, Least
  <2>4. NewestReported \in {LongAgo} \cup Reported  BY <2>3 DEF NewestReported
  <2> QED  BY <2>2, <2>4 DEF Init
<1> QED  BY <1>1, <1>3, <1>4 DEF Init, LoopOK

LEMMA LoopStep ==
  ASSUME LoopOK, TrackerOK, [Next]_vars
  PROVE  LoopOK'
<1>1. CASE UNCHANGED vars  BY <1>1 DEF vars, LoopOK, worker, history
<1>2. CASE Outer
  <2>1. at' \in Labels /\ UNCHANGED <<rings, evidence, source, step, heard>>
    BY <1>2, OuterFrame DEF worker, history
  <2> QED  BY <2>1 DEF LoopOK, Labels
<1>3. CASE Track
  <2>1. TrackEffect  BY <1>3, TrackTakes DEF LoopOK
  <2>2. at' \in {"update", "choose"} /\ heard' \in Nat
    BY <2>1 DEF TrackEffect, Ended, Going, LoopOK
  <2>3. UNCHANGED <<rings, evidence, source, step>>  BY <1>3 DEF Track, worker
  <2> QED  BY <2>2, <2>3 DEF LoopOK
<1>4. CASE Choose \/ NoVoice
  <2>1. at' = "mix" /\ UNCHANGED <<rings, evidence, source, step, heard>>
    BY <1>4 DEF Choose, NoVoice, worker
  <2> QED  BY <2>1 DEF LoopOK
<1>5. ASSUME NEW c \in Cameras, Create(c) PROVE LoopOK'
  <2> DEFINE up == [NoRing EXCEPT !.state = "up"]
  <2>1. up \in RingType
    <3> DEFINE no == FALSE
               none == <<>>
               blank == [state |-> "absent", any |-> no, idx |-> 0, dets |-> none, age |-> 0]
    <3>1. up = [blank EXCEPT !.state = "up"]  BY DEF NoRing
    <3>2. no \in BOOLEAN /\ none \in Seq(T!Blob) /\ 0 \in Ages  BY DEF Ages
    <3> HIDE DEF no, none
    <3> QED  BY <3>1, <3>2 DEF RingType
  <2>2. rings' = [rings EXCEPT ![c] = up] /\ UNCHANGED <<at, evidence, source, step, heard>>
    BY <1>5 DEF Create, history
  <2> HIDE DEF up
  <2> QED  BY <2>1, <2>2 DEF LoopOK
<1>6. ASSUME NEW c \in Cameras, Publish(c) PROVE LoopOK'
  <2>1. PICK d \in Reports[c] :
          /\ rings' = [rings EXCEPT ![c] =
               [state |-> "up", any |-> TRUE, dets |-> d,
                idx |-> IF rings[c].any THEN rings[c].idx + 1 ELSE 0,
                age |-> IF Racing THEN Future ELSE 0]]
          /\ evidence' = IF d = <<>> THEN evidence ELSE 0
    BY <1>6 DEF Publish
  <2> DEFINE yes == TRUE
             age == IF Racing THEN Future ELSE 0
             idx == IF rings[c].any THEN rings[c].idx + 1 ELSE 0
             new == [state |-> "up", any |-> yes, dets |-> d, idx |-> idx, age |-> age]
  <2>2. rings' = [rings EXCEPT ![c] = new]  BY <2>1
  <2>3. /\ d \in Seq(T!Blob) /\ yes \in BOOLEAN /\ age \in Ages /\ idx \in Nat
    BY ReportsAssumption DEF Ages, LoopOK, RingType
  <2> HIDE DEF yes, age, idx
  <2>4. new \in RingType  BY <2>3 DEF RingType
  <2> HIDE DEF new
  <2>5. rings' \in [Cameras -> RingType]  BY <2>2, <2>4 DEF LoopOK
  <2>6. evidence' \in Nat  BY <2>1 DEF LoopOK
  <2>7. UNCHANGED <<at, source, step, heard>>  BY <1>6 DEF Publish, history
  <2> QED  BY <2>5, <2>6, <2>7 DEF LoopOK
<1>7. ASSUME NEW c \in Cameras, Poll(c) PROVE LoopOK'
  <2>1. Polled(c) \in SourceType /\ (Polled(c).have => Polled(c).open)  BY PolledType
  <2>2. /\ source' = [source EXCEPT ![c] = Polled(c)] /\ at' \in {"poll1", "update"}
        /\ UNCHANGED <<rings, evidence, step, heard>>
    BY <1>7, PollFrame DEF worker, history
  <2> QED  BY <2>1, <2>2 DEF LoopOK
<1>8. ASSUME NEW dt \in {0, 1}, Sample(dt) PROVE LoopOK'
  <2> DEFINE newRing(c) == [rings[c] EXCEPT !.age = After(@, dt, FreshFor + 1)]
             aged(c) == [source[c] EXCEPT !.age = After(@, dt, FreshFor + 1)]
             left1(c) == IF source[c].wait > dt THEN source[c].wait - dt ELSE 0
             newSource(c) == [aged(c) EXCEPT !.wait = left1(c)]
  <2>1. /\ rings' = [c \in Cameras |-> newRing(c)]
        /\ source' = [c \in Cameras |-> newSource(c)]
    BY <1>8 DEF Sample
  <2>2. ASSUME NEW c \in Cameras
        PROVE  newRing(c) \in RingType /\ newSource(c) \in SourceType
               /\ (newSource(c).have => newSource(c).open)
    <3>1. rings[c] \in RingType /\ source[c] \in SourceType  BY DEF LoopOK
    <3> DEFINE ra == After(rings[c].age, dt, FreshFor + 1)
               sa == After(source[c].age, dt, FreshFor + 1)
    <3>2. rings[c].age \in Ages /\ source[c].age \in Ages /\ source[c].wait \in Nat
      BY <3>1 DEF RingType, SourceType
    <3>3. ra \in Ages /\ sa \in Ages /\ left1(c) \in Nat
      <4>1. FreshFor + 1 \in Nat  OBVIOUS
      <4>2. ra \in Nat /\ sa \in Nat  BY <3>2, <4>1, AfterType
      <4>3. left1(c) \in Nat  BY <3>2
      <4> QED  BY <4>2, <4>3 DEF Ages
    <3>4. newRing(c) = [rings[c] EXCEPT !.age = ra] /\ aged(c) = [source[c] EXCEPT !.age = sa]
      OBVIOUS
    <3> HIDE DEF ra, sa, newRing, aged, left1
    <3>5. newRing(c) \in RingType  BY <3>1, <3>3, <3>4 DEF RingType
    <3>6. aged(c) \in SourceType /\ aged(c).have = source[c].have
          /\ aged(c).open = source[c].open
      BY <3>1, <3>3, <3>4 DEF SourceType
    <3>7. newSource(c) \in SourceType /\ newSource(c).have = source[c].have
          /\ newSource(c).open = source[c].open
      BY <3>3, <3>6 DEF SourceType
    <3> QED  BY <3>5, <3>7 DEF LoopOK
  <2> HIDE DEF newRing, newSource
  <2>3. evidence' \in Nat /\ heard' \in Nat
    <3>1. evidence + dt \in Nat /\ heard + dt \in Nat /\ LongAgo \in Nat /\ Hold + 1 \in Nat
      BY DEF LoopOK, LongAgo
    <3>2. Capped(evidence + dt, LongAgo) \in Nat /\ Capped(heard + dt, Hold + 1) \in Nat
      BY <3>1, CapType
    <3> QED  BY <1>8, <3>2 DEF Sample
  <2>4. step' = dt /\ at' = "poll0"  BY <1>8 DEF Sample
  <2> QED  BY <2>1, <2>2, <2>3, <2>4 DEF LoopOK
<1> QED  BY <1>1, <1>2, <1>3, <1>4, <1>5, <1>6, <1>7, <1>8, Kinds

LEMMA TrackerInit == ASSUME Init PROVE TrackerOK /\ IdleOK
<1>1. /\ slots = [i \in T!Places |-> T!NoTrack] /\ graves = [g \in T!Tombs |-> T!NoGrave]
      /\ graveNext = 0 /\ nextId = 1 /\ cands = <<>> /\ matched = {} /\ tracks = <<>>
      /\ upd = "idle" /\ dets = T!Nothing /\ at = "start"
  BY DEF Init, T!Init
<1>2. /\ T!NoTrack \in SlotType /\ ~T!NoTrack.used /\ T!NoGrave \in GraveType
      /\ T!Nothing \in T!Scene
  BY DEF T!NoTrack, T!NoGrave, T!Nothing, T!Scene, SlotType, GraveType
<1>3. T!Live = {}  BY <1>1, <1>2 DEF T!Live
<1>4. 0 \in T!Tombs  BY Wraps
<1> QED  BY <1>1, <1>2, <1>3, <1>4 DEF TrackerOK, IdleOK

(* Only the tracker changes what it holds, and only a poll what it is      *)
(* shown.                                                                  *)
LEMMA TrackerRests ==
  ASSUME TrackerOK, UNCHANGED tracker, dets' \in T!Scene
  PROVE  TrackerOK' /\ T!Live' = T!Live /\ T!Buried' = T!Buried
BY DEF TrackerOK, tracker, T!Live, T!Buried

LEMMA OthersFrame ==
  ASSUME [Next]_vars, LoopOK, TrackerOK, ~Track
  PROVE  UNCHANGED tracker /\ dets' \in T!Scene
<1>0. dets \in T!Scene /\ dets.cam0 \in Seq(T!Blob) /\ dets.cam1 \in Seq(T!Blob)
  BY DEF TrackerOK, T!Scene
<1>1. CASE UNCHANGED vars  BY <1>0, <1>1 DEF vars
<1>2. CASE Outer  BY <1>0, <1>2, OuterFrame
<1>3. CASE Choose \/ NoVoice  BY <1>0, <1>3 DEF Choose, NoVoice
<1>4. ASSUME NEW c \in Cameras, Create(c) \/ Publish(c)
      PROVE  UNCHANGED tracker /\ dets' \in T!Scene
  BY <1>0, <1>4 DEF Create, Publish
<1>5. ASSUME NEW c \in Cameras, Poll(c) PROVE UNCHANGED tracker /\ dets' \in T!Scene
  <2>1. Polled(c).dets \in Seq(T!Blob)  BY PolledType DEF SourceType
  <2> DEFINE d == Polled(c).dets
  <2>2. /\ [dets EXCEPT !.cam0 = d] \in T!Scene
        /\ [dets EXCEPT !.cam1 = d] \in T!Scene
    <3> HIDE DEF d
    <3> QED  BY <1>0, <2>1 DEF T!Scene, d
  <2> QED  BY <1>0, <1>5, <2>2, PollFrame
<1>6. ASSUME NEW dt \in {0, 1}, Sample(dt) PROVE UNCHANGED tracker /\ dets' \in T!Scene
  <2>1. T!Nothing \in T!Scene  BY DEF T!Nothing, T!Scene
  <2> QED  BY <1>6, <2>1 DEF Sample
<1> QED  BY <1>1, <1>2, <1>3, <1>4, <1>5, <1>6, Kinds

LEMMA TrackerStep ==
  ASSUME TrackerOK, LoopOK, [Next]_vars
  PROVE  TrackerOK'
<1>1. CASE Track  BY <1>1, TrackTakes DEF LoopOK
<1>2. CASE ~Track  BY <1>2, OthersFrame, TrackerRests
<1> QED  BY <1>1, <1>2

(* Between two updates no track is older than the hold time, and a pass of *)
(* the loop sees tracks exactly if some are live.                          *)
LEMMA IdleStep ==
  ASSUME IdleOK, TrackerOK, LoopOK, [Next]_vars
  PROVE  IdleOK'
<1>1. CASE Track
  <2>0. at = "update"  BY <1>1 DEF Track
  <2>1. TrackEffect  BY <1>1, TrackTakes DEF LoopOK
  <2>2. CASE Going
    <3>1. upd' = "associate" /\ at' = "update"
      BY <2>1, <2>2 DEF TrackEffect, Going, Aged, Advanced, Refused, Interred, Ended
    <3> QED  BY <3>1 DEF IdleOK
  <2>3. CASE Ended
    <3>1. \A i \in T!Live : slots[i].age <= Hold
      <4>1. ASSUME NEW i \in T!Live PROVE slots[i].age <= Hold
        <5>1. CASE i \in matched  BY <5>1 DEF TrackerOK
        <5>2. CASE i \notin matched
          <6>1. i \in T!Places /\ slots[i].used /\ i \in T!Unmatched
            BY <5>2 DEF T!Live, T!Unmatched
          <6>2. ~(slots[i].age > Hold)  BY <2>3, <6>1 DEF Ended, Returned, T!Expired
          <6>3. slots[i].age \in Nat  BY <6>1 DEF TrackerOK, SlotType
          <6> QED  BY <6>2, <6>3
        <5> QED  BY <5>1, <5>2
      <4> QED  BY <4>1
    <3>2. T!Live' = T!Live  BY <2>3 DEF Ended, Returned, T!Live
    <3> QED  BY <2>3, <3>1, <3>2 DEF IdleOK, Ended, Returned
  <2> QED  BY <2>1, <2>2, <2>3 DEF TrackEffect
<1>2. CASE ~Track
  <2>1. UNCHANGED tracker /\ T!Live' = T!Live  BY <1>2, OthersFrame, TrackerRests
  <2>2. upd = "associate" => at' = at
    <3>1. CASE UNCHANGED vars  BY <3>1 DEF vars
    <3>2. CASE Outer  BY <3>2, OuterFrame DEF Inside, IdleOK
    <3>3. CASE Choose \/ NoVoice  BY <3>3 DEF Choose, NoVoice, IdleOK
    <3>4. ASSUME NEW c \in Cameras, Create(c) \/ Publish(c) PROVE at' = at
      BY <3>4 DEF Create, Publish
    <3>5. ASSUME NEW c \in Cameras, Poll(c) PROVE upd # "associate"
      BY <3>5 DEF Poll, IdleOK
    <3>6. ASSUME NEW dt \in {0, 1}, Sample(dt) PROVE upd # "associate"
      BY <3>6 DEF Sample, IdleOK
    <3> QED  BY <1>2, <3>1, <3>2, <3>3, <3>4, <3>5, <3>6, Kinds
  <2>3. at' = "choose" => at = "choose"
    <3>1. CASE UNCHANGED vars  BY <3>1 DEF vars
    <3>2. CASE Outer  BY <3>2, OuterFrame DEF Inside
    <3>3. CASE Choose \/ NoVoice  BY <3>3 DEF Choose, NoVoice
    <3>4. ASSUME NEW c \in Cameras, Create(c) \/ Publish(c) PROVE at' = at
      BY <3>4 DEF Create, Publish
    <3>5. ASSUME NEW c \in Cameras, Poll(c) PROVE at' # "choose"
      BY <3>5 DEF Poll
    <3>6. ASSUME NEW dt \in {0, 1}, Sample(dt) PROVE at' # "choose"
      BY <3>6 DEF Sample
    <3> QED  BY <1>2, <3>1, <3>2, <3>3, <3>4, <3>5, <3>6, Kinds
  <2> QED  BY <2>1, <2>2, <2>3 DEF IdleOK, tracker
<1> QED  BY <1>1, <1>2

-----------------------------------------------------------------------------
(* The voice and the ear.                                                  *)
LEMMA PickedIn ==
  ASSUME TrackerOK, tracks # <<>>
  PROVE  /\ Picked \in TrackType
         /\ \E n \in 1 .. Len(tracks) : Picked = tracks[n]
         /\ haveVoice /\ Sticky # {} => \E n \in Sticky : Picked = tracks[n]
         /\ ~(haveVoice /\ Sticky # {}) => Picked = tracks[1]
<1>1. tracks \in Seq(TrackType) /\ 1 \in 1 .. Len(tracks)  BY DEF TrackerOK
<1>2. CASE haveVoice /\ Sticky # {}
  <2> DEFINE first == CHOOSE n \in Sticky : \A k \in Sticky : n <= k
  <2>1. Sticky \subseteq Nat  BY DEF Sticky
  <2>2. \E n \in Sticky : \A k \in Sticky : n <= k  BY <1>2, <2>1, Least
  <2>3. first \in Sticky  BY <2>2
  <2>4. Picked = tracks[first]  BY <1>2 DEF Picked
  <2> HIDE DEF first
  <2>5. first \in 1 .. Len(tracks)  BY <2>3 DEF Sticky
  <2> QED  BY <1>1, <1>2, <2>3, <2>4, <2>5
<1>3. CASE ~(haveVoice /\ Sticky # {})
  <2>1. Picked = tracks[1]  BY <1>3 DEF Picked
  <2> QED  BY <1>1, <1>3, <2>1
<1> QED  BY <1>2, <1>3

(* Where the voice is heard.                                                 *)
LEMMA SideType == \A a \in Int : Side(a) \in Ears
BY DEF Side, Ears

LEMMA VoiceInit == ASSUME Init PROVE VoiceOK /\ ZoneOK
<1>1. Quiet \in [level : Int, ear : Ears] /\ "both" \in Ears  BY DEF Quiet, Ears
<1>2. haveVoice \in BOOLEAN
  <2>1. haveVoice = FALSE  BY DEF Init
  <2> QED  BY <2>1
<1>3. /\ holder = 0 /\ zone = "both" /\ target = Quiet /\ sinceCall = Cooldown
      /\ turnedAt = 999 /\ leftZone = "none"
  BY DEF Init, Nowhere
<1> QED  BY <1>1, <1>2, <1>3 DEF VoiceOK, ZoneOK

(* What a choice does to the ear: it stays, or it turns to the side of the *)
(* picked track, and it left its zone from well inside.                    *)
LEMMA Turns ==
  ASSUME VoiceOK, NEW a \in Int
  PROVE  /\ Quantize(a) \in Ears
         /\ Quantize(a) # zone => /\ Quantize(a) = Side(a)
                                  /\ zone = "left"  => a > -(Edge - Hyst)
                                  /\ zone = "right" => a < Edge - Hyst
BY SideType DEF Quantize, VoiceOK

(* Choose, by what it reads of the picked track.                             *)
LEMMA ChooseFrame ==
  ASSUME Choose, TrackerOK, VoiceOK
  PROVE  /\ Picked.azimuth \in Int /\ Picked.closeness \in Int /\ tracks # <<>>
         /\ haveVoice' /\ holder' = Picked.azimuth
         /\ zone' = Quantize(Picked.azimuth) /\ zone' \in Ears
         /\ zone' = zone => turnedAt' = turnedAt /\ leftZone' = leftZone
         /\ zone' # zone => turnedAt' = Picked.azimuth /\ leftZone' = zone
         /\ target' = [level |-> Picked.closeness, ear |-> zone']
         /\ sinceCall' = IF Calling(Picked) THEN 0 ELSE sinceCall
         /\ pending' = IF Calling(Picked) THEN Announced(NotifyKey(Picked.azimuth), zone')
                                          ELSE pending
         /\ at = "choose" /\ at' = "mix"
<1>1. tracks # <<>>  BY DEF Choose
<1>2. Picked.azimuth \in Int /\ Picked.closeness \in Int  BY <1>1, PickedIn DEF TrackType
<1>3. Quantize(Picked.azimuth) \in Ears  BY <1>2, Turns
<1> QED  BY <1>1, <1>2, <1>3 DEF Choose

LEMMA VoiceStep ==
  ASSUME VoiceOK, TrackerOK, [Next]_vars
  PROVE  VoiceOK'
<1>1. CASE UNCHANGED <<voice, turnedAt, leftZone>>  BY <1>1 DEF VoiceOK, voice
<1>2. CASE Choose
  <2>1. target' \in [level : Int, ear : Ears]  BY <1>2, ChooseFrame
  <2>2. haveVoice' \in BOOLEAN  BY <1>2 DEF Choose
  <2>3. sinceCall' \in Nat  BY <1>2, ChooseFrame DEF VoiceOK
  <2>4. turnedAt' \in Int /\ leftZone' \in Ears \cup {"none"}
    BY <1>2, ChooseFrame DEF VoiceOK
  <2> QED  BY <1>2, <2>1, <2>2, <2>3, <2>4, ChooseFrame DEF VoiceOK
<1>3. CASE NoVoice
  <2>1. target' \in [level : Int, ear : Ears]  BY <1>3 DEF NoVoice, VoiceOK
  <2> QED  BY <1>3, <2>1 DEF NoVoice, VoiceOK
<1>4. ASSUME NEW dt \in {0, 1}, Sample(dt) PROVE VoiceOK'
  <2>1. sinceCall + dt \in Nat  BY DEF VoiceOK
  <2>2. sinceCall' \in Nat  BY <1>4, <2>1, CapType DEF Sample
  <2> QED  BY <1>4, <2>2 DEF Sample, VoiceOK
<1>5. ~Choose /\ ~NoVoice /\ (\A dt \in {0, 1} : ~Sample(dt))
        => UNCHANGED <<voice, turnedAt, leftZone>>
  <2>1. CASE UNCHANGED vars  BY <2>1 DEF vars, history
  <2>2. CASE Outer  BY <2>2, OuterFrame DEF history
  <2>3. CASE Track  BY <2>3 DEF Track
  <2>4. ASSUME NEW c \in Cameras, Create(c) \/ Publish(c) \/ Poll(c)
        PROVE  UNCHANGED <<voice, turnedAt, leftZone>>
    BY <2>4 DEF Create, Publish, Poll, history
  <2> QED  BY <2>1, <2>2, <2>3, <2>4, Kinds
<1> QED  BY <1>1, <1>2, <1>3, <1>4, <1>5

LEMMA ZoneStep ==
  ASSUME ZoneOK, VoiceOK, TrackerOK, [Next]_vars
  PROVE  ZoneOK'
<1>1. CASE Choose
  <2>1. CASE zone' = zone
    BY <1>1, <2>1, ChooseFrame DEF ZoneOK, Side
  <2>2. CASE zone' # zone
    <3>1. Picked.azimuth \in Int /\ zone' = Quantize(Picked.azimuth)
      BY <1>1, ChooseFrame
    <3>2. turnedAt' = Picked.azimuth /\ leftZone' = zone  BY <1>1, <2>2, ChooseFrame
    <3> QED  BY <2>2, <3>1, <3>2, Turns DEF ZoneOK, Side
  <2> QED  BY <2>1, <2>2
<1>2. CASE ~Choose
  <2>1. UNCHANGED <<zone, turnedAt, leftZone>>
    <3>1. CASE UNCHANGED vars  BY <3>1 DEF vars, history, voice
    <3>2. CASE Outer  BY <3>2, OuterFrame DEF history, voice
    <3>3. CASE Track  BY <3>3 DEF Track, voice
    <3>4. CASE NoVoice  BY <3>4 DEF NoVoice
    <3>5. ASSUME NEW c \in Cameras, Create(c) \/ Publish(c) \/ Poll(c)
          PROVE  UNCHANGED <<zone, turnedAt, leftZone>>
      BY <3>5 DEF Create, Publish, Poll, history, voice
    <3>6. ASSUME NEW dt \in {0, 1}, Sample(dt)
          PROVE  UNCHANGED <<zone, turnedAt, leftZone>>
      BY <3>6 DEF Sample
    <3> QED  BY <1>2, <3>1, <3>2, <3>3, <3>4, <3>5, <3>6, Kinds
  <2> QED  BY <2>1 DEF ZoneOK, Side
<1> QED  BY <1>1, <1>2

-----------------------------------------------------------------------------
(* The sink.                                                               *)
LEMMA GivenNothing == ASSUME left = Block PROVE Given = <<>>
<1>1. Block \in Nat  BY BlockAssumption
<1>2. 1 .. Block - left = {}  BY <1>1
<1>3. Given = [k \in {} |-> k]  BY <1>2 DEF Given
<1>4. <<>> = [k \in {} |-> k]  OBVIOUS
<1> QED  BY <1>3, <1>4

(* The device takes n frames more.                                         *)
LEMMA GivenMore ==
  ASSUME NEW n \in Nat, left \in 0 .. Block, n <= left, left' = left - n
  PROVE  Given \o Pieces(n) = Given'
<1> DEFINE m == Block - left
<1>1. Block \in Nat  BY BlockAssumption
<1>2. m \in Nat /\ Block - left' = m + n  BY <1>1
<1>3. Given = [k \in 1 .. m |-> k] /\ Given' = [k \in 1 .. m + n |-> k]
      /\ Pieces(n) = [k \in 1 .. n |-> m + k]
  BY <1>2 DEF Given, Pieces
<1> HIDE DEF m
<1>4. [k \in 1 .. m |-> k] \o [k \in 1 .. n |-> m + k] = [k \in 1 .. m + n |-> k]
  <2> DEFINE s == [k \in 1 .. m |-> k]
             t == [k \in 1 .. n |-> m + k]
             u == [k \in 1 .. m + n |-> k]
  <2>1. s \in Seq(Int) /\ t \in Seq(Int) /\ u \in Seq(Int)  BY <1>2
  <2>2. Len(s) = m /\ Len(t) = n /\ Len(u) = m + n  BY <1>2
  <2>3. /\ \A k \in 1 .. m : s[k] = k
        /\ \A k \in 1 .. n : t[k] = m + k
        /\ \A k \in 1 .. m + n : u[k] = k
    OBVIOUS
  <2> HIDE DEF s, t, u
  <2>4. /\ s \o t \in Seq(Int) /\ Len(s \o t) = m + n
        /\ \A k \in 1 .. m + n : (s \o t)[k] = IF k <= m THEN s[k] ELSE t[k - m]
    BY <2>1, <2>2, ConcatProperties
  <2>5. ASSUME NEW k \in 1 .. m + n PROVE (s \o t)[k] = u[k]
    <3>1. CASE k <= m
      <4>1. k \in 1 .. m  BY <1>2, <3>1
      <4>2. (s \o t)[k] = s[k]  BY <2>4, <3>1
      <4> QED  BY <2>3, <4>1, <4>2
    <3>2. CASE k > m
      <4>1. k \in m + 1 .. m + n /\ k - m \in 1 .. n /\ m + (k - m) = k  BY <1>2, <3>2
      <4>2. (s \o t)[k] = t[k - m]  BY <1>2, <2>4, <3>2
      <4> QED  BY <2>3, <4>1, <4>2
    <3>3. k <= m \/ k > m  BY <1>2
    <3> QED  BY <3>1, <3>2, <3>3, Zenon
  <2>6. s \o t = u  BY <2>1, <2>2, <2>4, <2>5, SeqEqual
  <2> QED  BY <2>6 DEF s, t, u
<1> QED  BY <1>3, <1>4

(* The count of bytes wraps with the count of frames.                      *)
LEMMA BlockAdded ==
  ASSUME NEW n \in Nat PROVE ((n % Wrap) + Block) % Wrap = (n + Block) % Wrap
<1>1. Block \in Nat /\ Wrap \in Nat /\ Wrap > 0  BY BlockAssumption
<1> QED  BY <1>1, ModSum

LEMMA ZeroWraps == 0 % Wrap = 0
<1>1. Wrap \in Nat /\ Wrap > 0  BY BlockAssumption
<1>2. 0 \in Nat /\ 0 \in Int /\ 0 \in 0 .. Wrap - 1 /\ 0 = Wrap * 0 + 0  BY <1>1
<1> QED  BY <1>1, <1>2, Unique

LEMMA SinkInvInit == ASSUME Init PROVE SinkOK
<1>1. PICK s \in Setups : SinkInit(s[2])  BY DEF Init
<1>2. s[2] \in {"wav", "qsa"}  BY SetupsAssumption
<1>3. at = "start" /\ kind \in {"wav", "qsa"} /\ dev = "closed" /\ left = 0
      /\ file = 0 /\ held = 0 /\ bytes = 0 /\ header = Blank /\ faults = 0 /\ rendered = 0
  BY <1>1, <1>2 DEF SinkInit, Init
<1>4. Total = 0  BY <1>3 DEF Total
<1> QED  BY <1>3, <1>4, ZeroWraps DEF SinkOK

(* A step that leaves the sink alone, and is neither a stop nor an exit.   *)
LEMMA SinkRests ==
  ASSUME SinkOK, UNCHANGED <<sinkVars, rendered>>,
         at' = "writing" <=> at = "writing",
         at' = "exited" <=> at = "exited",
         at' \in {"start", "return"} <=> at \in {"start", "return"}
  PROVE  SinkOK'
<1>1. UNCHANGED <<kind, dev, left, got, file, held, bytes, header, faults, rendered>>
  BY DEF sinkVars
<1>2. Total' = Total  BY <1>1 DEF Total
<1>3. Given' = Given  BY <1>1 DEF Given
<1>4. HeaderHonest' <=> HeaderHonest  BY <1>1 DEF HeaderHonest
<1> QED  BY <1>1, <1>2, <1>3, <1>4 DEF SinkOK

(* The steps of write(), its failures, and stop().                           *)
LEMMA WriteKeeps == ASSUME SinkOK, Write PROVE SinkOK'
<1>1. at = "writing" /\ at' = "writing" /\ left \in 0 .. Block /\ got = Given
      /\ Block \in Nat \ {0} /\ rendered' = rendered /\ dev = "open"
  BY BlockAssumption DEF Write, SinkOK, Outside, Run
<1>2. ASSUME NEW n \in 0 .. left, Writei(n) PROVE SinkOK'
  <2>1. n \in Nat /\ n <= left  BY <1>1
  <2>2. left' = left - n /\ got' = got \o Pieces(n) /\ kind = "qsa"
        /\ UNCHANGED <<kind, dev, fileVars, faults>>
    BY <1>2 DEF Writei
  <2>3. got' = Given'  BY <1>1, <2>1, <2>2, GivenMore
  <2>4. left' \in 0 .. Block  BY <1>1, <2>1, <2>2
  <2> QED  BY <1>1, <2>2, <2>3, <2>4 DEF SinkOK, fileVars
<1>3. CASE Recover
  <2>1. UNCHANGED <<kind, dev, left, got, fileVars>> /\ kind = "qsa" /\ faults' = faults + 1
    BY <1>3 DEF Recover
  <2>2. Given' = Given  BY <2>1 DEF Given
  <2> QED  BY <1>1, <2>1, <2>2 DEF SinkOK, fileVars
<1>4. CASE Fwrite
  <2>1. kind = "wav" /\ left' = 0 /\ got' = Pieces(left) /\ left > 0
        /\ bytes' = (bytes + Block) % Wrap /\ UNCHANGED <<kind, dev, header, faults>>
    BY <1>4 DEF Fwrite
  <2>2. left = Block  BY <2>1 DEF SinkOK
  <2>3. got' = Given'
    <3>1. Block - left' = Block  BY <1>1, <2>1
    <3>2. Given' = [k \in 1 .. Block |-> k]  BY <3>1 DEF Given
    <3>3. Pieces(left) = [k \in 1 .. Block |-> Block - Block + k]  BY <2>2 DEF Pieces
    <3>4. \A k \in 1 .. Block : Block - Block + k = k  BY <1>1
    <3> QED  BY <2>1, <3>2, <3>3, <3>4
  <2>4. Total = rendered /\ Total' = rendered + Block /\ rendered \in Nat
    BY <1>1, <2>1, <2>2 DEF Total, SinkOK
  <2>5. bytes' = Total' % Wrap
    <3>1. bytes = rendered % Wrap  BY <2>1, <2>4 DEF SinkOK
    <3> QED  BY <2>1, <2>4, <3>1, BlockAdded, Zenon
  <2>6. file' \in Nat /\ held' \in Nat /\ file' + held' = file + held + Block
    <3>1. PICK n \in 0 .. held + Block : file' = file + n /\ held' = held + Block - n
      BY <1>4 DEF Fwrite
    <3>2. file \in Nat /\ held \in Nat  BY DEF SinkOK
    <3> QED  BY <1>1, <3>1, <3>2
  <2>7. faults = 0 => file' + held' = Total'
    BY <1>1, <2>1, <2>4, <2>6 DEF SinkOK
  <2>8. left' \in 0 .. Block /\ left' \in {0, Block}  BY <1>1, <2>1
  <2> QED  BY <1>1, <2>1, <2>3, <2>5, <2>6, <2>7, <2>8 DEF SinkOK
<1> QED  BY <1>2, <1>3, <1>4 DEF Write

LEMMA FailKeeps == ASSUME SinkOK, WriteFails PROVE SinkOK'
<1>1. at = "writing" /\ at' = "stop" /\ rendered' = rendered /\ dev = "open"
  BY DEF WriteFails, SinkOK, Outside, Run
<1>2. left > 0 /\ UNCHANGED <<kind, dev, left, bytes, header>> /\ faults' = faults + 1
  BY DEF WriteFails, Unrecoverable, FwriteShort, fileVars
<1>3. faults' \in Nat /\ faults' # 0  BY <1>2 DEF SinkOK
<1>4. Total' = Total
  <2>1. left # 0  BY <1>2
  <2> QED  BY <1>1, <2>1 DEF Total
<1>5. file' \in Nat /\ held' \in Nat
  <2>1. CASE Unrecoverable  BY <2>1 DEF Unrecoverable, fileVars, SinkOK
  <2>2. CASE FwriteShort
    <3>1. PICK n \in 0 .. held + Block - 1, h \in 0 .. Buffer : file' = file + n /\ held' = h
      BY <2>2 DEF FwriteShort
    <3>2. file \in Nat /\ held \in Nat /\ Block \in Nat /\ Buffer \in Nat
      BY BlockAssumption, StdioAssumption DEF SinkOK
    <3> QED  BY <3>1, <3>2
  <2> QED  BY <2>1, <2>2 DEF WriteFails
<1> QED  BY <1>1, <1>2, <1>3, <1>4, <1>5 DEF SinkOK

(* What stop() leaves in the file.                                         *)
LEMMA StopKeeps == ASSUME SinkOK, StopSink PROVE SinkOK'
<1>1. at \in {"stop", "return"} /\ at' = "exited" /\ dev' = "gone"
      /\ UNCHANGED <<kind, left, bytes, rendered>>
  BY DEF StopSink, Stop, StopOk, StopFails, Outside, Run
<1>2. Total = rendered /\ Total' = rendered /\ rendered \in Nat /\ header = Blank
  BY <1>1 DEF Total, SinkOK
<1> DEFINE size == rendered % Wrap
<1>3. kind = "wav" => bytes = size  BY <1>2 DEF SinkOK
<1>4. Blank.data = 0  BY DEF Blank, Patched
<1>5. faults \in Nat /\ file \in Nat /\ held \in Nat  BY DEF SinkOK
<1> DEFINE Honest == /\ header'.data \in {0, size}
                     /\ header'.riff \in {Blank.riff, Patched(size).riff}
                     /\ faults' = 0 => header' = Patched(size) /\ file' = rendered
<1>6. HeaderHonest' <=> Honest  BY <1>1 DEF HeaderHonest
<1>7. ASSUME StopOk
      PROVE  file' \in Nat /\ held' \in Nat /\ faults' \in Nat /\ (kind = "wav" => Honest)
  <2>1. faults' = faults  BY <1>7 DEF StopOk
  <2>2. CASE kind = "wav" /\ dev = "open"
    <3>1. file' = file + held /\ held' = 0 /\ header' = Patched(size)
      BY <1>3, <1>7, <2>2 DEF StopOk
    <3>2. header'.data = size /\ header'.riff = Patched(size).riff
      BY <3>1 DEF Patched
    <3>3. faults = 0 => file + held = rendered  BY <1>1, <1>2, <2>2 DEF SinkOK
    <3>4. Honest  BY <2>1, <3>1, <3>2, <3>3, Zenon
    <3> QED  BY <1>5, <2>1, <3>1, <3>4
  <2>3. CASE ~(kind = "wav" /\ dev = "open")
    <3>1. UNCHANGED <<file, held, header>>
      <4>1. StopOk  BY <1>7
      <4> QED  BY <4>1, <2>3 DEF StopOk
    <3>2. ASSUME kind = "wav" PROVE Honest
      <4>1. at = "return" /\ file = 0 /\ rendered = 0  BY <1>1, <2>3, <3>2 DEF SinkOK
      <4>2. size = 0  BY <4>1, ZeroWraps
      <4>3. header' = Patched(size)  BY <1>2, <3>1, <4>2 DEF Blank
      <4>4. header'.data = size /\ header'.riff = Patched(size).riff
        BY <4>3 DEF Patched
      <4> QED  BY <3>1, <4>1, <4>3, <4>4, Zenon
    <3> QED  BY <1>5, <2>1, <3>1, <3>2
  <2> QED  BY <2>2, <2>3
<1>8. ASSUME StopFails
      PROVE  file' \in Nat /\ held' \in Nat /\ faults' \in Nat /\ (kind = "wav" => Honest)
  <2>1. kind = "wav" /\ faults' = faults + 1 /\ held' = 0  BY <1>8 DEF StopFails
  <2>2. PICK n \in 0 .. held + Spoilt : file' = file + n  BY <1>8 DEF StopFails
  <2>3. PICK r \in {header.riff, Patched(bytes).riff}, d \in {header.data, bytes} :
           header' = [riff |-> r, data |-> d]
    BY <1>8 DEF StopFails
  <2>4. header'.riff = r /\ header'.data = d  BY <2>3
  <2>5. r \in {Blank.riff, Patched(size).riff} /\ d \in {0, size}
    BY <1>2, <1>3, <1>4, <2>1, <2>3
  <2>6. faults' \in Nat /\ faults' # 0  BY <1>5, <2>1
  <2>7. file' \in Nat  BY <1>5, <2>2, StdioAssumption
  <2>8. Honest  BY <2>4, <2>5, <2>6, Zenon
  <2> QED  BY <2>1, <2>6, <2>7, <2>8
<1>9. /\ file' \in Nat /\ held' \in Nat /\ faults' \in Nat
      /\ kind = "wav" => HeaderHonest'
  <2>1. StopOk \/ StopFails  BY DEF StopSink, Stop
  <2> QED  BY <1>6, <1>7, <1>8, <2>1, Zenon
<1>10. kind = "wav" => bytes' = Total' % Wrap  BY <1>1, <1>2, <1>3
<1> QED  BY <1>1, <1>2, <1>9, <1>10 DEF SinkOK

(* main() counts the block that write() accepted.                          *)
LEMMA WrittenKeeps == ASSUME SinkOK, Written PROVE SinkOK'
<1>1. at = "writing" /\ left = 0 /\ at' \in {"stop", "tone", "sample"} /\ UNCHANGED sinkVars
      /\ dev = "open" /\ rendered' = (IF Counted THEN rendered + Block ELSE rendered)
  BY DEF Written, SinkOK
<1>2. rendered \in Nat /\ Block \in Nat  BY BlockAssumption DEF SinkOK
<1>3. rendered' \in Nat  BY <1>1, <1>2
<1>4. kind = "wav" => Total' = Total  BY <1>1, <1>2 DEF Total, Counted
<1> QED  BY <1>1, <1>3, <1>4 DEF SinkOK, sinkVars

LEMMA SinkStep == ASSUME SinkOK, [Next]_vars PROVE SinkOK'
<1>1. CASE UNCHANGED vars  BY <1>1, SinkRests DEF vars, Run
<1>2. CASE Begin
  <2>1. dev' = "open" /\ UNCHANGED <<kind, left, got, fileVars, faults, rendered>>
        /\ at = "start"
    BY <1>2 DEF Begin, StartOk, Run
  <2>2. at' \in {"tone", "load"}  BY <1>2 DEF Begin
  <2>3. Total' = Total  BY <2>1, <2>2 DEF Total
  <2> QED  BY <2>1, <2>2, <2>3 DEF SinkOK, fileVars
<1>3. CASE NoOutput
  <2>1. dev = "closed" /\ dev' \in {"closed", "open"}
        /\ UNCHANGED <<kind, left, got, fileVars, rendered>> /\ faults' = faults + 1
        /\ at = "start" /\ at' = "return"
    BY <1>3 DEF NoOutput, StartFails, Run
  <2>2. Total' = Total  BY <2>1 DEF Total
  <2>3. faults' \in Nat /\ faults' # 0  BY <2>1 DEF SinkOK
  <2> QED  BY <2>1, <2>2, <2>3 DEF SinkOK, fileVars
<1>4. CASE ToneBlock \/ Render
  <2>1. left' = Block /\ got' = <<>> /\ UNCHANGED <<kind, dev, fileVars, faults, rendered>>
        /\ at \in {"tone", "mix"} /\ at' = "writing"
    BY <1>4 DEF ToneBlock, Render, WriteBlock, Run
  <2>2. Given' = <<>>
    <3>1. Block \in Nat  BY BlockAssumption
    <3>2. 1 .. Block - left' = {}  BY <2>1, <3>1
    <3>3. Given' = [k \in {} |-> k]  BY <3>2 DEF Given
    <3>4. <<>> = [k \in {} |-> k]  OBVIOUS
    <3> QED  BY <3>3, <3>4
  <2>3. left' \in 0 .. Block /\ left' # 0  BY <2>1, BlockAssumption
  <2>4. Total' = Total  BY <2>1, <2>3 DEF Total
  <2> QED  BY <2>1, <2>2, <2>3, <2>4 DEF SinkOK, fileVars
<1>5. CASE Write  BY <1>5, WriteKeeps
<1>6. CASE WriteFails  BY <1>6, FailKeeps
<1>7. CASE StopSink  BY <1>7, StopKeeps
<1>8. CASE LoadClips \/ Interrupted \/ Exited
  BY <1>8, SinkRests DEF LoadClips, Interrupted, Exited, Outside, Run, vars
<1>12. CASE Written  BY <1>12, WrittenKeeps
<1>9. CASE Track \/ Choose \/ NoVoice
  <2>1. UNCHANGED <<sinkVars, rendered>> /\ at \in Inside /\ at' \in Inside \cup {"mix"}
    BY <1>9 DEF Track, Choose, NoVoice, Inside, Run
  <2> QED  BY <2>1, SinkRests DEF Inside
<1>10. ASSUME NEW c \in Cameras, Create(c) \/ Publish(c) \/ Poll(c) PROVE SinkOK'
  BY <1>10, SinkRests DEF Create, Publish, Poll, Run
<1>11. ASSUME NEW dt \in {0, 1}, Sample(dt) PROVE SinkOK'
  BY <1>11, SinkRests DEF Sample, Run
<1> QED  BY <1>1, <1>2, <1>3, <1>4, <1>5, <1>6, <1>7, <1>8, <1>9, <1>10, <1>11, <1>12, Kinds
         DEF Outer

-----------------------------------------------------------------------------
(* Announcements.                                                          *)
LEMMA SilenceType == Silence \in Sound /\ Silence.left = 0
BY DEF Silence, Sound, NoKey, Ears

LEMMA ClipType == ClipLen \in Nat \ {0} /\ TwoClips = 2 * ClipLen /\ TwoClips \in Nat \ {0}
BY ClipAssumption DEF TwoClips

LEMMA SpeechInvInit == ASSUME Init PROVE SpeechOK
BY SilenceType, ClipType DEF Init, SpeechInit, SpeechOK

(* A step between two mixes, without an announcement.                      *)
LEMMA SpeechRests ==
  ASSUME SpeechOK, UNCHANGED <<playing, pending, mixed>>, at # "mix"
  PROVE  SpeechOK'
BY DEF SpeechOK

(* What is left of a clip.                                                 *)
LEMMA RestType ==
  ASSUME NEW clip \in Sound, NEW n \in Nat
  PROVE  /\ Rest(clip, n) \in Sound
         /\ Rest(clip, n).left = IF clip.left > n THEN clip.left - n ELSE 0
         /\ Rest(clip, n).left = 0 => Rest(clip, n) = Silence
<1>1. clip.left \in Nat  BY DEF Sound
<1>2. CASE clip.left > n
  <2> DEFINE m == clip.left - n
  <2>1. m \in Nat /\ m # 0  BY <1>1, <1>2
  <2> HIDE DEF m
  <2>2. Rest(clip, n) = [clip EXCEPT !.left = m]  BY <1>2 DEF Rest, m
  <2>3. Rest(clip, n) \in Sound /\ Rest(clip, n).left = m  BY <2>1, <2>2 DEF Sound
  <2> QED  BY <1>2, <2>1, <2>3 DEF m
<1>3. CASE ~(clip.left > n)
  <2>1. Rest(clip, n) = Silence  BY <1>3 DEF Rest
  <2> QED  BY <1>3, <2>1, SilenceType
<1> QED  BY <1>2, <1>3

(* A block of audio takes as much from the clips as it adds to what was    *)
(* mixed since the announcement.                                           *)
LEMMA MixKeeps ==
  ASSUME SpeechOK, Mix(Block)
  PROVE  /\ playing' \in Sound /\ pending' \in Sound /\ mixed' \in 0 .. TwoClips
         /\ playing'.left <= ClipLen /\ (playing'.left = 0 => playing' = Silence)
         /\ pending'.left = ClipLen \/ pending' = Silence
         /\ playing'.left + pending'.left + mixed' <= TwoClips
         /\ mixed' # 0
<1>1. Block \in Nat /\ Block > 0  BY BlockAssumption
<1>2. /\ playing \in Sound /\ pending \in Sound /\ mixed \in Nat /\ mixed <= TwoClips
      /\ playing.left \in Nat /\ playing.left <= ClipLen
      /\ pending.left \in Nat /\ pending.left <= ClipLen
      /\ playing.left + pending.left + mixed <= TwoClips
  BY ClipType, SilenceType DEF SpeechOK, Sound
<1>3. mixed' \in Nat /\ mixed' <= mixed + Block /\ mixed' <= TwoClips /\ mixed' # 0
  <2>1. mixed' = IF mixed + Block > TwoClips THEN TwoClips ELSE mixed + Block  BY DEF Mix
  <2> QED  BY <1>1, <1>2, <2>1, ClipType
<1>4. CASE playing.left >= Block
  <2>1. playing' = Rest(playing, Block) /\ pending' = pending  BY <1>4 DEF Mix
  <2>2. playing' \in Sound /\ (playing'.left = 0 => playing' = Silence)
        /\ playing'.left = playing.left - Block
    <3>1. playing' \in Sound /\ (playing'.left = 0 => playing' = Silence)
          /\ playing'.left = IF playing.left > Block THEN playing.left - Block ELSE 0
      BY <1>1, <1>2, <2>1, RestType, Zenon
    <3> QED  BY <1>1, <1>2, <1>4, <3>1
  <2>3. playing'.left + pending'.left + mixed' <= TwoClips /\ playing'.left <= ClipLen
    BY <1>1, <1>2, <1>3, <1>4, <2>1, <2>2, ClipType
  <2> QED  BY <1>2, <1>3, <2>1, <2>2, <2>3, ClipType DEF SpeechOK
<1>5. CASE ~(playing.left >= Block)
  <2> DEFINE n == Block - playing.left
  <2>1. n \in Nat  BY <1>1, <1>2, <1>5
  <2>2. playing' = Rest(pending, n) /\ pending' = Silence  BY <1>5 DEF Mix
  <2>3. playing' \in Sound /\ (playing'.left = 0 => playing' = Silence)
        /\ playing'.left = IF pending.left > n THEN pending.left - n ELSE 0
    BY <1>2, <2>1, <2>2, RestType
  <2>4. playing'.left \in Nat  BY <2>3 DEF Sound
  <2>5. playing'.left + mixed' <= TwoClips /\ playing'.left <= ClipLen
    BY <1>1, <1>2, <1>3, <1>5, <2>3, <2>4, ClipType
  <2>6. pending'.left = 0 /\ pending' \in Sound  BY <2>2, SilenceType
  <2>7. playing'.left + pending'.left + mixed' <= TwoClips  BY <1>3, <2>4, <2>5, <2>6
  <2> QED  BY <1>3, <2>2, <2>3, <2>5, <2>6, <2>7, ClipType
<1> QED  BY <1>4, <1>5

(* An announcement is a whole clip.                                        *)
LEMMA WaitingType ==
  ASSUME NEW key \in Int, NEW ear \in Ears
  PROVE  /\ Waiting(key, ear) \in Sound /\ Waiting(key, ear).left = ClipLen
         /\ Waiting(key, ear).key = key /\ Waiting(key, ear).ear = ear
BY ClipType DEF Waiting, Sound

LEMMA NotifyKeyType == \A a \in Int : NotifyKey(a) \in Int
<1> SUFFICES ASSUME NEW a \in Int PROVE NotifyKey(a) \in Int  OBVIOUS
<1> DEFINE r == T!Rounded(a, 15)
<1>1. r \in Int  BY RoundedType
<1> HIDE DEF r
<1>2. NotifyKey(a) = IF r * 15 > 90 THEN 90 ELSE IF r * 15 < -90 THEN -90 ELSE r * 15
  BY DEF NotifyKey, r
<1> QED  BY <1>1, <1>2

(* An announcement replaces what waits, and finds no more than one clip    *)
(* before it.                                                              *)
LEMMA SpeechStep ==
  ASSUME SpeechOK, VoiceOK, TrackerOK, [Next]_vars
  PROVE  SpeechOK'
<1>1. CASE UNCHANGED vars
  <2>1. UNCHANGED <<playing, pending, mixed, at, clips, target, holder>>
    BY <1>1 DEF vars, speechVars, voice
  <2> QED  BY <2>1 DEF SpeechOK, Loaded
<1>2. CASE Render
  <2>1. at = "mix" /\ at' = "writing"  BY <1>2 DEF Render
  <2>2. CASE Loaded
    <3>1. Mix(Block)  BY <1>2, <2>2 DEF Render
    <3> QED  BY <3>1, MixKeeps DEF SpeechOK
  <2>3. CASE ~Loaded
    <3>1. UNCHANGED <<playing, pending, mixed>> /\ mixed # 0
      BY <1>2, <2>3 DEF Render, speechVars, SpeechOK
    <3> QED  BY <3>1 DEF SpeechOK
  <2> QED  BY <2>2, <2>3
<1>3. CASE LoadClips
  <2>1. at = "load" /\ UNCHANGED <<playing, pending, mixed>>  BY <1>3 DEF LoadClips
  <2> QED  BY <2>1, SpeechRests
<1>4. CASE Outer /\ ~Render /\ ~LoadClips
  <2>1. UNCHANGED <<playing, pending, mixed>>
    <3>1. UNCHANGED speechVars
      BY <1>4 DEF Outer, Begin, NoOutput, ToneBlock, Write, WriteFails, Written,
                  Interrupted, StopSink, Exited, Outside, vars
    <3> QED  BY <3>1 DEF speechVars
  <2>2. at # "mix"
    BY <1>4 DEF Outer, Begin, NoOutput, ToneBlock, Write, WriteFails, Written,
                Interrupted, StopSink, Exited
  <2> QED  BY <2>1, <2>2, SpeechRests
<1>5. CASE Track
  BY <1>5, SpeechRests DEF Track, speechVars
<1>6. CASE NoVoice
  BY <1>6, SpeechRests DEF NoVoice, speechVars
<1>7. CASE Choose
  <2> DEFINE v == Picked
             key == NotifyKey(v.azimuth)
  <2>1. /\ v.azimuth \in Int /\ v.closeness \in Int /\ zone' \in Ears
        /\ target' = [level |-> v.closeness, ear |-> zone'] /\ holder' = v.azimuth
        /\ pending' = IF Calling(v) THEN Announced(key, zone') ELSE pending
        /\ at = "choose" /\ at' = "mix"
    BY <1>7, ChooseFrame
  <2>2. key \in Int  BY <2>1, NotifyKeyType
  <2>3. playing' = playing /\ clips' = clips /\ mixed' = IF Spoken(v) THEN 0 ELSE mixed
    BY <1>7 DEF Choose
  <2>4. NotifyKey(holder') = key  BY <2>1
  <2>5. mixed # 0  BY <2>1 DEF SpeechOK
  <2>6. Spoken(v) <=> Calling(v) /\ key \in clips  BY DEF Spoken
  <2>7. target'.level = v.closeness /\ target'.ear = zone'  BY <2>1
  <2> HIDE DEF key, v
  <2>8. CASE Spoken(v)
    <3>1. Loaded' /\ target'.level > 0
      BY <2>1, <2>3, <2>6, <2>7, <2>8, VoiceAssumption DEF Calling, Loaded
    <3>2. pending' = Waiting(key, zone') /\ mixed' = 0
      BY <2>1, <2>3, <2>6, <2>8 DEF Announced
    <3>3. pending' \in Sound /\ pending'.left = ClipLen /\ pending'.key = key
          /\ pending'.ear = zone'
      BY <2>1, <2>2, <3>2, WaitingType
    <3>4. playing' \in Sound /\ playing'.left <= ClipLen /\ playing'.left \in Nat
          /\ (playing'.left = 0 => playing' = Silence)
      BY <2>3 DEF SpeechOK, Sound
    <3>5. playing'.left + pending'.left + mixed' <= TwoClips /\ mixed' \in 0 .. TwoClips
      BY <3>2, <3>3, <3>4, ClipType
    <3> QED  BY <2>1, <2>4, <2>7, <3>1, <3>3, <3>4, <3>5 DEF SpeechOK
  <2>9. CASE ~Spoken(v)
    <3>1. pending' = pending  BY <2>1, <2>6, <2>9 DEF Announced
    <3>2. mixed' = mixed  BY <2>3, <2>9
    <3> QED  BY <2>3, <2>5, <3>1, <3>2 DEF SpeechOK
  <2> QED  BY <2>8, <2>9
<1>8. ASSUME NEW c \in Cameras, Create(c) \/ Publish(c) \/ Poll(c) PROVE SpeechOK'
  BY <1>8, SpeechRests DEF Create, Publish, Poll, Between, Racing, speechVars
<1>9. ASSUME NEW dt \in {0, 1}, Sample(dt) PROVE SpeechOK'
  BY <1>9, SpeechRests DEF Sample, speechVars
<1> QED  BY <1>1, <1>2, <1>3, <1>4, <1>5, <1>6, <1>7, <1>8, <1>9, Kinds

-----------------------------------------------------------------------------
(* What a step may do to the voice, the ear and the announcement.          *)
LEMMA Holds ==
  ASSUME [Next]_vars, ~Choose
  PROVE  UNCHANGED <<holder, zone>>
<1>1. CASE UNCHANGED vars  BY <1>1 DEF vars, voice
<1>2. CASE Outer  BY <1>2, OuterFrame DEF voice
<1>3. CASE Track  BY <1>3 DEF Track, voice
<1>4. CASE NoVoice  BY <1>4 DEF NoVoice
<1>5. ASSUME NEW c \in Cameras, Create(c) \/ Publish(c) \/ Poll(c)
      PROVE  UNCHANGED <<holder, zone>>
  BY <1>5 DEF Create, Publish, Poll, voice
<1>6. ASSUME NEW dt \in {0, 1}, Sample(dt) PROVE UNCHANGED <<holder, zone>>
  BY <1>6 DEF Sample
<1> QED  BY <1>1, <1>2, <1>3, <1>4, <1>5, <1>6, Kinds

(* The voice jumps only to what is clearly closer than all near it.          *)
LEMMA JumpStep ==
  ASSUME VoiceOK, TrackerOK, [Next]_vars,
         haveVoice, haveVoice', T!Gap(holder, holder') > StickyGate,
         NEW n \in 1 .. Len(tracks), T!Gap(tracks[n].azimuth, holder) <= StickyGate
  PROVE  target'.level > tracks[n].closeness + StickyMargin
<1>0. StickyGate \in Nat /\ StickyMargin \in Nat /\ holder \in Int
      /\ tracks \in Seq(TrackType)
  BY VoiceAssumption DEF VoiceOK, TrackerOK
<1>1. Choose
  <2>1. holder' # holder  BY <1>0 DEF T!Gap
  <2> QED  BY <2>1, Holds
<1>2. /\ tracks # <<>> /\ holder' = Picked.azimuth
      /\ target'.level = Picked.closeness /\ Picked \in TrackType
  BY <1>1, ChooseFrame, PickedIn
<1>3. ~ \E m \in Sticky : Picked = tracks[m]
  <2> SUFFICES ASSUME NEW m \in Sticky, Picked = tracks[m] PROVE FALSE  OBVIOUS
  <2>1. T!Gap(Picked.azimuth, holder) <= StickyGate  BY DEF Sticky
  <2>2. Picked.azimuth \in Int  BY <1>2 DEF TrackType
  <2> QED  BY <1>0, <1>2, <2>1, <2>2 DEF T!Gap
<1>4. Sticky = {} /\ Picked = tracks[1]  BY <1>2, <1>3, PickedIn
<1>5. ~(tracks[1].closeness - tracks[n].closeness <= StickyMargin)
  BY <1>4 DEF Sticky
<1>6. tracks[n] \in TrackType  BY <1>0
<1>7. tracks[n].closeness \in Int /\ tracks[1].closeness \in Int
  BY <1>2, <1>4, <1>6 DEF TrackType
<1> QED  BY <1>0, <1>2, <1>4, <1>5, <1>7

(* A turn back starts and ends inside the hysteresis of its two zones.       *)
LEMMA FlutterStep ==
  ASSUME ZoneOK, VoiceOK, TrackerOK, [Next]_vars, zone' # zone, zone' = leftZone
  PROVE  T!Gap(holder', turnedAt) > Hyst
<1>1. Choose  BY Holds
<1> DEFINE a == Picked.azimuth
<1>2. a \in Int /\ holder' = a /\ zone' = Quantize(a) /\ zone' \in Ears
  BY <1>1, ChooseFrame
<1> HIDE DEF a
<1>3. /\ zone' = Side(a)
      /\ zone = "left"  => a > -(Edge - Hyst)
      /\ zone = "right" => a < Edge - Hyst
  BY <1>2, Turns
<1>4. /\ zone = Side(turnedAt)
      /\ leftZone = "left"  => turnedAt > -(Edge - Hyst)
      /\ leftZone = "right" => turnedAt < Edge - Hyst
  BY <1>2 DEF ZoneOK, Ears
<1>5. turnedAt \in Int /\ Edge \in Int /\ Hyst \in Int  BY ZoneAssumption DEF VoiceOK
<1>6. CASE zone' = "left"
  <2>1. a < -Edge  BY <1>3, <1>6 DEF Side
  <2>2. turnedAt > -(Edge - Hyst)  BY <1>4, <1>6
  <2> QED  BY <1>2, <1>5, <2>1, <2>2, ZoneAssumption DEF T!Gap
<1>7. CASE zone' = "right"
  <2>1. a > Edge  BY <1>3, <1>7 DEF Side
  <2>2. turnedAt < Edge - Hyst  BY <1>4, <1>7
  <2> QED  BY <1>2, <1>5, <2>1, <2>2, ZoneAssumption DEF T!Gap
<1>8. CASE zone' = "both" /\ zone = "left"
  <2>1. turnedAt < -Edge  BY <1>4, <1>8 DEF Side
  <2>2. a > -(Edge - Hyst)  BY <1>3, <1>8
  <2> QED  BY <1>2, <1>5, <2>1, <2>2, ZoneAssumption DEF T!Gap
<1>9. CASE zone' = "both" /\ zone = "right"
  <2>1. turnedAt > Edge  BY <1>4, <1>9 DEF Side
  <2>2. a < Edge - Hyst  BY <1>3, <1>9
  <2> QED  BY <1>2, <1>5, <2>1, <2>2, ZoneAssumption DEF T!Gap
<1> QED  BY <1>2, <1>6, <1>7, <1>8, <1>9 DEF Ears, VoiceOK

(* How long an announcement waits: the audio of what is before it.         *)
LEMMA ClipStep ==
  ASSUME SpeechOK
  PROVE  /\ at = "mix" /\ mixed = 0 =>
              /\ pending.key = NotifyKey(holder) /\ pending.ear = target.ear
              /\ target.level > 0
         /\ pending # Silence => mixed + playing.left <= ClipLen
         /\ mixed = TwoClips => playing = Silence /\ pending = Silence
<1>1. /\ mixed \in Nat /\ playing.left \in Nat /\ pending.left \in Nat
      /\ playing.left + pending.left + mixed <= TwoClips
      /\ pending.left = ClipLen \/ pending = Silence
  BY ClipType DEF SpeechOK, Sound
<1>2. pending # Silence => mixed + playing.left <= ClipLen  BY <1>1, ClipType
<1>3. mixed = TwoClips => playing.left = 0 /\ pending.left = 0  BY <1>1, ClipType
<1>4. mixed = TwoClips => playing = Silence /\ pending = Silence
  BY <1>1, <1>3, ClipType DEF SpeechOK
<1> QED  BY <1>2, <1>4 DEF SpeechOK

-----------------------------------------------------------------------------
(* Whatever is held or hummed was reported not long ago.                   *)
LEMMA SinceType == \A age \in Ages : Since(age) \in Nat
BY DEF Since, Ages, Future

(* Ages are exact as long as they matter.                                    *)
LEMMA OlderOnTime ==
  \A age, dt \in Nat : /\ T!Older(age, dt) <= age + dt
                       /\ T!Older(age, dt) <= Hold => T!Older(age, dt) = age + dt
BY DEF T!Older, T!Forever

LEMMA LagType == ASSUME LoopOK PROVE Lag \in {0, 1}
BY DEF Lag, LoopOK

LEMMA AgeType == ASSUME TrackerOK PROVE \A i \in T!Live : slots[i].age \in Nat
BY DEF TrackerOK, SlotType, T!Live

LEMMA Resting == ASSUME IdleOK, TrackerOK, at # "update"
                 PROVE  upd = "idle" /\ cands = <<>> /\ matched = {}
BY DEF IdleOK, TrackerOK

(* At the start only the rings found can show anything.                      *)
LEMMA EvidenceInit == ASSUME Init PROVE EvidenceOK
<1>0. /\ TrackerOK /\ IdleOK /\ LoopOK /\ at = "start" /\ evidence = NewestReported
      /\ rings \in [Cameras -> Ring]
  BY TrackerInit, LoopInit, FoundAssumption DEF Init
<1>1. \A c \in Cameras : ~source[c].have  BY DEF Init, Unopened
<1>2. upd = "idle" /\ cands = <<>>  BY <1>0, Resting
<1>3. T!Live = {}
  <2>1. slots = [i \in T!Places |-> T!NoTrack]  BY DEF Init, T!Init
  <2> QED  BY <2>1 DEF T!Live, T!NoTrack
<1>4. Reported \subseteq Nat  BY <1>0 DEF Reported, Ring
<1>5. \A b \in Reported : evidence <= b
  <2>1. {LongAgo} \cup Reported \subseteq Nat  BY <1>4 DEF LongAgo
  <2>2. PICK a \in {LongAgo} \cup Reported : \A b \in {LongAgo} \cup Reported : a <= b
    BY <2>1, Least
  <2>3. \A b \in {LongAgo} \cup Reported : NewestReported <= b
    BY <2>2 DEF NewestReported
  <2> QED  BY <1>0, <2>3
<1>6. ASSUME NEW c \in Cameras, Shows(rings[c]) PROVE evidence <= Since(rings[c].age)
  <2>1. rings[c].age \in Reported  BY <1>6 DEF Shows, Reported
  <2>2. rings[c].age \in Nat  BY <1>4, <2>1
  <2>3. Since(rings[c].age) = rings[c].age  BY <2>2 DEF Since, Future
  <2> QED  BY <1>5, <2>1, <2>3
<1> QED  BY <1>0, <1>1, <1>2, <1>3, <1>6 DEF EvidenceOK, Holding

(* A report of an object makes the evidence new.                           *)
LEMMA EvidenceNew ==
  ASSUME LoopOK', TrackerOK', evidence' = 0
  PROVE  EvidenceOK'
<1>1. \A c \in Cameras : rings'[c].age \in Ages /\ source'[c].age \in Ages
  BY DEF LoopOK, RingType, SourceType
<1>2. \A age \in Ages : 0 <= Since(age)'  BY SinceType DEF Since
<1>3. \A i \in T!Live' : slots'[i].age \in Nat  BY DEF TrackerOK, SlotType, T!Live
<1>4. Lag' \in {0, 1}  BY DEF Lag, LoopOK
<1>5. \A c \in Cameras : 0 <= Since(rings'[c].age) /\ 0 <= Since(source'[c].age)
  BY <1>1, SinceType
<1>6. \A i \in T!Live' : 0 <= FreshFor + slots'[i].age + Lag'  BY <1>3, <1>4
<1> QED  BY <1>5, <1>6 DEF EvidenceOK

(* A step after which nothing more is held, shown or hummed.               *)
LEMMA EvidenceRests ==
  ASSUME EvidenceOK, LoopOK, TrackerOK, IdleOK,
         UNCHANGED <<rings, evidence, source, step, dets, tracker, target>>,
         Lag' = Lag,
         at' \in {"poll0", "poll1", "update"} => at \in {"poll0", "poll1", "update"},
         at' = "mix" => at = "mix"
  PROVE  EvidenceOK'
<1>1. T!Live' = T!Live  BY DEF T!Live, tracker
<1> QED  BY <1>1 DEF EvidenceOK, tracker, Scenery

(* A track is as old as the report that fed it last.                         *)
LEMMA EvidenceTrack ==
  ASSUME EvidenceOK, LoopOK, TrackerOK, IdleOK, Track
  PROVE  EvidenceOK'
<1>1. TrackEffect /\ TrackerOK' /\ at = "update"
  BY TrackTakes DEF LoopOK, Track
<1>2. UNCHANGED <<rings, evidence, source, step>>  BY DEF Track, worker
<1>3. step \in Nat /\ step' \in Nat  BY <1>2 DEF LoopOK
<1>4. /\ \A i \in T!Live : slots[i].age \in Nat
      /\ \A i \in T!Live' : slots'[i].age \in Nat
  BY <1>1, AgeType DEF TrackerOK, SlotType, T!Live
<1>5. evidence \in Nat  BY DEF LoopOK
<1>6. /\ \A c \in Cameras : Shows(rings'[c]) => evidence' <= Since(rings'[c].age)
      /\ \A c \in Cameras : Holding(source'[c]) => evidence' <= Since(source'[c].age)
  BY <1>2 DEF EvidenceOK
<1>7. dets' = dets /\ at' # "mix"
  BY <1>1 DEF TrackEffect, Aged, Going, Ended, Advanced, Refused, Interred, Returned
<1>8. at' \in {"poll0", "poll1", "update"} /\ Scenery' => evidence' <= FreshFor
  BY <1>1, <1>2, <1>7 DEF EvidenceOK, Scenery
<1>9. cands' # <<>> => evidence' <= FreshFor
  <2>1. CASE Aged  BY <1>1, <1>2, <2>1 DEF Aged, EvidenceOK
  <2>2. CASE ~Aged
    <3>1. cands' # <<>> => cands # <<>>
      BY <1>1, <2>2 DEF TrackEffect, Refused, Advanced, Interred, Ended, Returned
    <3> QED  BY <1>2, <3>1 DEF EvidenceOK
  <2> QED  BY <2>1, <2>2
<1>10. ASSUME NEW i \in T!Live', slots'[i].age <= Hold
       PROVE  evidence' <= FreshFor + slots'[i].age + Lag'
  <2>1. CASE Aged /\ Going
    <3>1. i \in T!Live /\ slots'[i].age = T!Older(slots[i].age, step)
      BY <2>1 DEF Aged
    <3>2. slots[i].age \in Nat  BY <1>4, <3>1
    <3>3. slots'[i].age = slots[i].age + step  BY <1>3, <1>10, <3>1, <3>2, OlderOnTime
    <3>4. slots[i].age <= Hold  BY <1>3, <1>10, <3>2, <3>3
    <3>5. Lag = step /\ Lag' = 0  BY <1>1, <2>1 DEF Lag, Aged, Going
    <3>6. evidence <= FreshFor + slots[i].age + Lag  BY <3>1, <3>4 DEF EvidenceOK
    <3> QED  BY <1>2, <1>3, <1>5, <3>2, <3>3, <3>5, <3>6
  <2>2. CASE Advanced /\ Going /\ \E k \in T!Places : Seated(k)
    <3>1. PICK k \in T!Places : Seated(k)  BY <2>2
    <3>2. Lag = 0 /\ Lag' = 0 /\ evidence <= FreshFor
      BY <1>1, <2>2 DEF Lag, Advanced, Going, EvidenceOK
    <3>3. CASE i = k  BY <1>2, <3>1, <3>2, <3>3 DEF Seated
    <3>4. CASE i # k
      <4>1. i \in T!Live /\ slots'[i] = slots[i]  BY <3>1, <3>4 DEF Seated
      <4> QED  BY <1>2, <1>10, <3>2, <4>1 DEF EvidenceOK
    <3> QED  BY <3>3, <3>4
  <2>3. CASE Refused /\ Going
    <3>1. Lag = 0 /\ Lag' = 0  BY <1>1, <2>3 DEF Lag, Refused, Advanced, Going
    <3>2. i \in T!Live /\ slots'[i] = slots[i]  BY <2>3 DEF Refused, T!Live
    <3> QED  BY <1>2, <1>10, <3>1, <3>2 DEF EvidenceOK
  <2>4. CASE Going /\ \E k \in T!Expired : Interred(k)
    <3>1. PICK k \in T!Expired : Interred(k)  BY <2>4
    <3>2. Lag = 0 /\ Lag' = 0  BY <1>1, <2>4, <3>1 DEF Lag, Interred, Going
    <3>3. i \in T!Live /\ slots'[i] = slots[i]  BY <3>1 DEF Interred
    <3> QED  BY <1>2, <1>10, <3>2, <3>3 DEF EvidenceOK
  <2>5. CASE Ended
    <3>1. Lag = 0 /\ Lag' = 0  BY <1>1, <2>5 DEF Lag, Ended, Returned
    <3>2. i \in T!Live /\ slots'[i] = slots[i]  BY <2>5 DEF Ended, Returned, T!Live
    <3> QED  BY <1>2, <1>10, <3>1, <3>2 DEF EvidenceOK
  <2> QED  BY <1>1, <2>1, <2>2, <2>3, <2>4, <2>5 DEF TrackEffect
<1> QED  BY <1>6, <1>7, <1>8, <1>9, <1>10 DEF EvidenceOK

(* What is shown after the clock was sampled was shown before.             *)
LEMMA AgeSampled ==
  ASSUME NEW age \in Ages, NEW dt \in {0, 1},
         After(age, dt, FreshFor + 1) <= FreshFor
  PROVE  /\ age <= FreshFor
         /\ Since(After(age, dt, FreshFor + 1)) = Since(age) + dt
<1>1. FreshFor + 1 \in Nat  OBVIOUS
<1>2. After(age, dt, FreshFor + 1) \in Nat
      /\ (After(age, dt, FreshFor + 1) < FreshFor + 1
            => After(age, dt, FreshFor + 1) = Since(age) + dt)
  BY <1>1, AfterType
<1>3. After(age, dt, FreshFor + 1) = Since(age) + dt  BY <1>2
<1>4. Since(After(age, dt, FreshFor + 1)) = After(age, dt, FreshFor + 1)
  BY <1>2 DEF Since, Future
<1> QED  BY <1>3, <1>4 DEF Since, Ages, Future

LEMMA EvidenceSample ==
  ASSUME EvidenceOK, LoopOK, TrackerOK, IdleOK, NEW dt \in {0, 1}, Sample(dt)
  PROVE  EvidenceOK'
<1> DEFINE ringAge(c) == After(rings[c].age, dt, FreshFor + 1)
           sourceAge(c) == After(source[c].age, dt, FreshFor + 1)
           newRing(c) == [rings[c] EXCEPT !.age = ringAge(c)]
           aged(c) == [source[c] EXCEPT !.age = sourceAge(c)]
           wait(c) == IF source[c].wait > dt THEN source[c].wait - dt ELSE 0
           newSource(c) == [aged(c) EXCEPT !.wait = wait(c)]
<1>1. /\ at = "sample" /\ at' = "poll0" /\ step' = dt /\ dets' = T!Nothing
      /\ rings' = [c \in Cameras |-> newRing(c)]
      /\ source' = [c \in Cameras |-> newSource(c)]
      /\ evidence' = Capped(evidence + dt, LongAgo) /\ UNCHANGED tracker
  BY DEF Sample
<1>2. evidence \in Nat /\ evidence' \in Nat /\ evidence' <= evidence + dt
  <2>1. evidence \in Nat /\ evidence + dt \in Nat /\ LongAgo \in Nat  BY DEF LoopOK, LongAgo
  <2> QED  BY <1>1, <2>1, CapType
<1>3. ASSUME NEW c \in Cameras
      PROVE  /\ rings[c].age \in Ages /\ source[c].age \in Ages
             /\ newRing(c).any = rings[c].any /\ newRing(c).dets = rings[c].dets
             /\ newRing(c).age = ringAge(c)
             /\ newSource(c).have = source[c].have /\ newSource(c).dets = source[c].dets
             /\ newSource(c).age = sourceAge(c)
  <2>1. rings[c] \in RingType /\ source[c] \in SourceType  BY DEF LoopOK
  <2> HIDE DEF ringAge, sourceAge, wait
  <2>2. /\ newRing(c).any = rings[c].any /\ newRing(c).dets = rings[c].dets
        /\ newRing(c).age = ringAge(c)
    BY <2>1 DEF RingType
  <2>3. /\ aged(c).have = source[c].have /\ aged(c).dets = source[c].dets
        /\ aged(c).age = sourceAge(c)
        /\ aged(c) = [open |-> source[c].open, wait |-> source[c].wait, have |-> source[c].have,
                      idx |-> source[c].idx, dets |-> source[c].dets, age |-> sourceAge(c)]
    BY <2>1 DEF SourceType
  <2> HIDE DEF aged
  <2>4. /\ newSource(c).have = aged(c).have /\ newSource(c).dets = aged(c).dets
        /\ newSource(c).age = aged(c).age
    BY <2>3
  <2> QED  BY <2>1, <2>2, <2>3, <2>4 DEF RingType, SourceType
<1> HIDE DEF newRing, newSource, aged, wait
<1>4. ASSUME NEW c \in Cameras, Shows(newRing(c))
      PROVE  evidence' <= Since(newRing(c).age)
  <2>1. rings[c].any /\ rings[c].dets # <<>> /\ ringAge(c) <= FreshFor
    BY <1>3, <1>4 DEF Shows
  <2>2. rings[c].age \in Ages  BY <1>3
  <2>3. rings[c].age <= FreshFor /\ Since(ringAge(c)) = Since(rings[c].age) + dt
    BY <2>1, <2>2, AgeSampled
  <2>4. evidence <= Since(rings[c].age)  BY <2>1, <2>3 DEF EvidenceOK, Shows
  <2>5. Since(rings[c].age) \in Nat  BY <2>2, SinceType
  <2>6. newRing(c).age = ringAge(c)  BY <1>3
  <2> HIDE DEF ringAge
  <2> QED  BY <1>2, <2>3, <2>4, <2>5, <2>6
<1>5. ASSUME NEW c \in Cameras, Holding(newSource(c))
      PROVE  evidence' <= Since(newSource(c).age)
  <2>1. source[c].have /\ source[c].dets # <<>> /\ sourceAge(c) <= FreshFor
    BY <1>3, <1>5 DEF Holding
  <2>2. source[c].age \in Ages  BY <1>3
  <2>3. source[c].age <= FreshFor /\ Since(sourceAge(c)) = Since(source[c].age) + dt
    BY <2>1, <2>2, AgeSampled
  <2>4. evidence <= Since(source[c].age)  BY <2>1, <2>3 DEF EvidenceOK, Holding
  <2>5. Since(source[c].age) \in Nat  BY <2>2, SinceType
  <2>6. newSource(c).age = sourceAge(c)  BY <1>3
  <2> HIDE DEF sourceAge
  <2> QED  BY <1>2, <2>3, <2>4, <2>5, <2>6
<1>6. /\ \A c \in Cameras : Shows(rings'[c]) => evidence' <= Since(rings'[c].age)
      /\ \A c \in Cameras : Holding(source'[c]) => evidence' <= Since(source'[c].age)
  <2>1. \A c \in Cameras : rings'[c] = newRing(c) /\ source'[c] = newSource(c)  BY <1>1
  <2> QED  BY <1>4, <1>5, <2>1
<1>7. ~Scenery'  BY <1>1 DEF Scenery, T!Nothing
<1>8. cands' = <<>> /\ upd = "idle"  BY <1>1, Resting DEF tracker
<1>9. ASSUME NEW i \in T!Live', slots'[i].age <= Hold
      PROVE  evidence' <= FreshFor + slots'[i].age + Lag'
  <2>1. i \in T!Live /\ slots'[i] = slots[i]  BY <1>1 DEF T!Live, tracker
  <2>2. Lag = 0 /\ Lag' = dt  BY <1>1 DEF Lag
  <2>3. slots[i].age \in Nat  BY <2>1, AgeType
  <2>4. evidence <= FreshFor + slots[i].age  BY <1>9, <2>1, <2>2, <2>3 DEF EvidenceOK
  <2> QED  BY <1>2, <2>1, <2>2, <2>3, <2>4
<1> QED  BY <1>1, <1>6, <1>7, <1>8, <1>9 DEF EvidenceOK

(* A poll moves evidence from the ring to the source and the scene.          *)
LEMMA EvidencePoll ==
  ASSUME EvidenceOK, LoopOK, TrackerOK, IdleOK, NEW c \in Cameras, Poll(c)
  PROVE  EvidenceOK'
<1> DEFINE s == Polled(c)
<1>1. /\ source' = [source EXCEPT ![c] = s]
      /\ dets' = IF ~Usable(s) THEN dets
                 ELSE IF c = 0 THEN [dets EXCEPT !.cam0 = s.dets]
                 ELSE [dets EXCEPT !.cam1 = s.dets]
      /\ at \in {"poll0", "poll1"} /\ at' \in {"poll1", "update"}
      /\ UNCHANGED <<rings, evidence, step, tracker>>
  BY PollFrame DEF worker
<1>2. /\ s \in SourceType
      /\ \/ s.have = source[c].have /\ s.dets = source[c].dets /\ s.age = source[c].age
         \/ rings[c].any /\ s.dets = rings[c].dets /\ s.age = rings[c].age
  BY PolledType
<1> HIDE DEF s
<1>3. Holding(s) => evidence <= Since(s.age)
  BY <1>2 DEF EvidenceOK, Holding, Shows
<1>4. \A k \in Cameras : Holding(source'[k]) => evidence' <= Since(source'[k].age)
  <2>1. \A k \in Cameras : source'[k] = IF k = c THEN s ELSE source[k]
    BY <1>1 DEF LoopOK
  <2> QED  BY <1>1, <1>3, <2>1 DEF EvidenceOK
<1>5. ASSUME Scenery' PROVE evidence' <= FreshFor
  <2>1. CASE Scenery  BY <1>1, <2>1 DEF EvidenceOK
  <2>2. CASE ~Scenery
    <3>1. Usable(s) /\ s.dets # <<>>
      <4>1. dets \in T!Scene  BY DEF TrackerOK
      <4>2. dets.cam0 = <<>> /\ dets.cam1 = <<>>  BY <2>2 DEF Scenery
      <4>3. Usable(s)  BY <1>1, <1>5, <2>2 DEF Scenery
      <4>4. \/ dets' = [dets EXCEPT !.cam0 = s.dets]
            \/ dets' = [dets EXCEPT !.cam1 = s.dets]
        BY <1>1, <4>3
      <4>5. dets'.cam0 \in {s.dets, <<>>} /\ dets'.cam1 \in {s.dets, <<>>}
        BY <4>1, <4>2, <4>4 DEF T!Scene
      <4> QED  BY <1>5, <4>3, <4>5 DEF Scenery
    <3>2. Holding(s) /\ s.age # Future /\ s.age <= FreshFor
      BY <3>1 DEF Usable, Holding
    <3>3. evidence <= s.age  BY <1>3, <3>2 DEF Since
    <3>4. s.age \in Nat  BY <1>2, <3>2 DEF SourceType, Ages
    <3> QED  BY <1>1, <3>2, <3>3, <3>4 DEF LoopOK
  <2> QED  BY <2>1, <2>2
<1>6. Lag' = Lag
  <2>1. upd = "idle"  BY <1>1, Resting
  <2> QED  BY <1>1, <2>1 DEF Lag, tracker
<1>7. T!Live' = T!Live /\ slots' = slots /\ cands' = cands  BY <1>1 DEF T!Live, tracker
<1>8. at' # "mix"  BY <1>1
<1> QED  BY <1>1, <1>4, <1>5, <1>6, <1>7, <1>8 DEF EvidenceOK

LEMMA EvidenceStep ==
  ASSUME EvidenceOK, LoopOK, TrackerOK, IdleOK, VoiceOK, [Next]_vars
  PROVE  EvidenceOK'
<1>0. LoopOK' /\ TrackerOK'  BY LoopStep, TrackerStep
<1>1. CASE UNCHANGED vars
  <2>1. UNCHANGED <<rings, evidence, source, step, dets, tracker, target, at, upd>>
    BY <1>1 DEF vars, worker, voice, tracker
  <2> QED  BY <2>1, EvidenceRests DEF Lag
<1>2. CASE Outer
  <2>1. /\ UNCHANGED <<rings, evidence, source, step, dets, tracker, target>>
        /\ at \notin Inside /\ at' \notin Inside \cup {"mix"}
    BY <1>2, OuterFrame DEF worker, voice
  <2>2. Lag' = Lag  BY <2>1 DEF Lag, Inside
  <2> QED  BY <2>1, <2>2, EvidenceRests DEF Inside
<1>3. CASE Track  BY <1>3, EvidenceTrack
<1>4. CASE Choose
  <2>1. at = "choose" /\ at' = "mix" /\ tracks # <<>> /\ UNCHANGED <<worker, source, dets, step, tracker>>
    BY <1>4 DEF Choose
  <2>2. upd = "idle" /\ T!Live # {} /\ \A i \in T!Live : slots[i].age <= Hold
    BY <2>1, Resting DEF IdleOK
  <2>3. PICK i \in T!Live : slots[i].age <= Hold  BY <2>2
  <2>4. Lag = 0 /\ Lag' = 0  BY <2>1 DEF Lag
  <2>5. slots[i].age \in Nat  BY <2>3, AgeType
  <2>6. evidence <= FreshFor + Hold
    BY <2>3, <2>4, <2>5 DEF EvidenceOK, LoopOK
  <2>7. T!Live' = T!Live /\ UNCHANGED <<rings, evidence, source, dets, slots, cands>>
    BY <2>1 DEF T!Live, tracker, worker
  <2> QED  BY <2>1, <2>4, <2>6, <2>7 DEF EvidenceOK
<1>5. CASE NoVoice
  <2>1. at = "choose" /\ at' = "mix" /\ UNCHANGED <<worker, source, dets, step, tracker>>
    BY <1>5 DEF NoVoice
  <2>2. target'.level = 0  BY <1>5 DEF NoVoice, VoiceOK
  <2>3. Lag = 0 /\ Lag' = 0  BY <2>1 DEF Lag
  <2>4. T!Live' = T!Live /\ UNCHANGED <<rings, evidence, source, dets, slots, cands>>
    BY <2>1 DEF T!Live, tracker, worker
  <2> QED  BY <2>1, <2>2, <2>3, <2>4 DEF EvidenceOK
<1>6. ASSUME NEW c \in Cameras, Create(c) PROVE EvidenceOK'
  <2>1. /\ rings' = [rings EXCEPT ![c] = [NoRing EXCEPT !.state = "up"]]
        /\ UNCHANGED <<at, evidence, source, step, dets, tracker, target>>
    BY <1>6 DEF Create, voice
  <2>2. ~rings'[c].any /\ \A k \in Cameras \ {c} : rings'[k] = rings[k]
    BY <2>1 DEF NoRing, LoopOK
  <2>3. \A k \in Cameras : Shows(rings'[k]) => evidence' <= Since(rings'[k].age)
    BY <2>1, <2>2 DEF EvidenceOK, Shows
  <2>4. Lag' = Lag /\ T!Live' = T!Live /\ slots' = slots /\ cands' = cands
    BY <2>1 DEF Lag, T!Live, tracker
  <2> QED  BY <2>1, <2>3, <2>4 DEF EvidenceOK, Scenery
<1>7. ASSUME NEW c \in Cameras, Publish(c) PROVE EvidenceOK'
  <2>1. PICK d \in Reports[c] :
          /\ rings' = [rings EXCEPT ![c] =
               [state |-> "up", any |-> TRUE, dets |-> d,
                idx |-> IF rings[c].any THEN rings[c].idx + 1 ELSE 0,
                age |-> IF Racing THEN Future ELSE 0]]
          /\ evidence' = IF d = <<>> THEN evidence ELSE 0
    BY <1>7 DEF Publish
  <2>2. CASE d # <<>>  BY <1>0, <2>1, <2>2, EvidenceNew
  <2>3. CASE d = <<>>
    <3>1. UNCHANGED <<at, evidence, source, step, dets, tracker, target>>
      BY <1>7, <2>1, <2>3 DEF Publish, voice
    <3>2. rings'[c].dets = <<>> /\ \A k \in Cameras \ {c} : rings'[k] = rings[k]
      BY <2>1, <2>3 DEF LoopOK
    <3>3. \A k \in Cameras : Shows(rings'[k]) => evidence' <= Since(rings'[k].age)
      BY <3>1, <3>2 DEF EvidenceOK, Shows
    <3>4. Lag' = Lag /\ T!Live' = T!Live /\ slots' = slots /\ cands' = cands
      BY <3>1 DEF Lag, T!Live, tracker
    <3> QED  BY <3>1, <3>3, <3>4 DEF EvidenceOK, Scenery
  <2> QED  BY <2>2, <2>3
<1>8. ASSUME NEW c \in Cameras, Poll(c) PROVE EvidenceOK'  BY <1>8, EvidencePoll
<1>9. ASSUME NEW dt \in {0, 1}, Sample(dt) PROVE EvidenceOK'  BY <1>9, EvidenceSample
<1> QED  BY <1>1, <1>2, <1>3, <1>4, <1>5, <1>6, <1>7, <1>8, <1>9, Kinds

-----------------------------------------------------------------------------
(* Detections that are taken keep a track alive for the hold time.         *)
LEMMA HeardInit == ASSUME Init PROVE HeardOK
BY DEF Init, HeardOK

LEMMA HeardRests ==
  ASSUME HeardOK, UNCHANGED <<heard, tracker>>, Lag' = Lag
  PROVE  HeardOK'
<1>1. T!Live' = T!Live  BY DEF T!Live, tracker
<1> QED  BY <1>1 DEF HeardOK, tracker

(* A hit makes a track young; no step but an expiry takes one away.          *)
LEMMA HeardTrack ==
  ASSUME HeardOK, LoopOK, TrackerOK, IdleOK, Track
  PROVE  HeardOK'
<1>1. TrackEffect /\ TrackerOK' /\ at = "update" /\ step \in Nat /\ heard \in Nat
  BY TrackTakes DEF LoopOK, Track
<1>2. /\ \A i \in T!Live : slots[i].age \in Nat
      /\ \A i \in T!Live' : slots'[i].age \in Nat
  BY <1>1, AgeType DEF TrackerOK, SlotType, T!Live
<1>3. CASE Aged /\ Going
  <2>1. Lag = step /\ Lag' = 0 /\ heard' = heard /\ T!Live' = T!Live
    BY <1>1, <1>3 DEF Lag, Aged, Going
  <2>2. ASSUME heard <= Hold PROVE \E i \in T!Live' : slots'[i].age + Lag' <= heard'
    <3>1. PICK i \in T!Live : slots[i].age + Lag <= heard
      BY <1>3, <2>2 DEF HeardOK, Aged
    <3>2. slots'[i].age = T!Older(slots[i].age, step)  BY <1>3 DEF Aged
    <3>3. slots'[i].age <= slots[i].age + step  BY <1>1, <1>2, <3>2, OlderOnTime
    <3>4. slots'[i].age + Lag' <= heard'  BY <1>1, <1>2, <2>1, <3>1, <3>3
    <3> QED  BY <2>1, <3>4
  <2> QED  BY <2>1, <2>2 DEF HeardOK
<1>4. CASE Advanced /\ Going /\ \E k \in T!Places : Seated(k)
  BY <1>4 DEF HeardOK, Advanced, Seated
<1>5. CASE Refused /\ Going
  <2>1. Lag = 0 /\ Lag' = 0 /\ heard' = heard  BY <1>1, <1>5 DEF Lag, Refused, Advanced, Going
  <2>2. upd = "associate" /\ upd' = "associate" /\ UNCHANGED <<slots, matched>>
        /\ T!Live' = T!Live
    BY <1>5 DEF Refused, Advanced, T!Live
  <2> QED  BY <2>1, <2>2 DEF HeardOK
<1>6. CASE Going /\ \E k \in T!Expired : Interred(k)
  <2>1. PICK k \in T!Expired : Interred(k)  BY <1>6
  <2>2. /\ Lag = 0 /\ Lag' = 0 /\ heard' = heard /\ matched' = matched
        /\ upd = "associate" /\ upd' = "associate" /\ T!Live' = T!Live \ {k}
        /\ \A j \in T!Live \ {k} : slots'[j] = slots[j]
    BY <1>1, <1>6, <2>1 DEF Lag, Interred, Going
  <2>3. slots[k].age > Hold /\ k \in T!Live
    BY DEF T!Expired, T!Unmatched, T!Live
  <2>4. ASSUME heard <= Hold, matched = {}
        PROVE  \E i \in T!Live' : slots'[i].age + Lag' <= heard'
    <3>1. PICK i \in T!Live : slots[i].age + Lag <= heard  BY <2>4 DEF HeardOK
    <3>2. i # k  BY <1>1, <1>2, <2>2, <2>3, <2>4, <3>1
    <3> QED  BY <2>2, <3>1, <3>2
  <2> QED  BY <2>2, <2>4 DEF HeardOK
<1>7. CASE Ended
  <2>1. /\ Lag = 0 /\ Lag' = 0 /\ slots' = slots /\ T!Live' = T!Live
        /\ heard' = IF matched = {} THEN heard ELSE 0
    BY <1>1, <1>7 DEF Lag, Ended, Returned, T!Live
  <2>2. CASE matched = {}  BY <2>1, <2>2 DEF HeardOK
  <2>3. CASE matched # {}
    <3>1. PICK i \in matched : i \in T!Live /\ slots[i].age = 0
      BY <2>3 DEF TrackerOK
    <3>2. slots'[i].age + Lag' <= heard'  BY <2>1, <2>3, <3>1
    <3> QED  BY <2>1, <3>1, <3>2 DEF HeardOK
  <2> QED  BY <2>2, <2>3
<1> QED  BY <1>1, <1>3, <1>4, <1>5, <1>6, <1>7 DEF TrackEffect

LEMMA HeardStep ==
  ASSUME HeardOK, LoopOK, TrackerOK, IdleOK, [Next]_vars
  PROVE  HeardOK'
<1>1. CASE UNCHANGED vars
  BY <1>1, HeardRests DEF vars, history, tracker, Lag
<1>2. CASE Outer
  <2>1. /\ UNCHANGED <<heard, tracker>>
        /\ at \notin Inside /\ at' \notin Inside \cup {"mix"}
    BY <1>2, OuterFrame DEF history
  <2>2. Lag' = Lag  BY <2>1 DEF Lag, Inside
  <2> QED  BY <2>1, <2>2, HeardRests
<1>3. CASE Track  BY <1>3, HeardTrack
<1>4. CASE Choose \/ NoVoice
  <2>1. at = "choose" /\ at' = "mix" /\ UNCHANGED <<heard, tracker>>
    BY <1>4 DEF Choose, NoVoice
  <2>2. Lag' = Lag  BY <2>1 DEF Lag
  <2> QED  BY <2>1, <2>2, HeardRests
<1>5. ASSUME NEW c \in Cameras, Create(c) \/ Publish(c) PROVE HeardOK'
  <2>1. UNCHANGED <<heard, tracker, at, step>>  BY <1>5 DEF Create, Publish, history
  <2>2. Lag' = Lag  BY <2>1 DEF Lag, tracker
  <2> QED  BY <2>1, <2>2, HeardRests
<1>6. ASSUME NEW c \in Cameras, Poll(c) PROVE HeardOK'
  <2>1. /\ at \in {"poll0", "poll1"} /\ at' \in {"poll1", "update"}
        /\ UNCHANGED <<heard, step, tracker>>
    BY <1>6, PollFrame DEF history
  <2>2. upd = "idle"  BY <2>1, Resting
  <2>3. Lag' = Lag  BY <2>1, <2>2 DEF Lag, tracker
  <2> QED  BY <2>1, <2>3, HeardRests
<1>7. ASSUME NEW dt \in {0, 1}, Sample(dt) PROVE HeardOK'
  <2>1. at = "sample" /\ at' = "poll0" /\ step' = dt
        /\ heard' = Capped(heard + dt, Hold + 1) /\ UNCHANGED tracker
    BY <1>7 DEF Sample
  <2>2. upd = "idle" /\ matched = {}  BY <2>1, Resting
  <2>3. Lag = 0 /\ Lag' = dt  BY <2>1 DEF Lag
  <2>4. heard \in Nat  BY DEF LoopOK
  <2>5. ASSUME heard' <= Hold PROVE \E i \in T!Live' : slots'[i].age + Lag' <= heard'
    <3>1. heard' = heard + dt /\ heard <= Hold  BY <2>1, <2>4, <2>5 DEF Capped
    <3>2. PICK i \in T!Live : slots[i].age + Lag <= heard  BY <2>2, <3>1 DEF HeardOK
    <3>3. slots[i].age \in Nat  BY <3>2, AgeType
    <3>4. T!Live' = T!Live /\ slots' = slots  BY <2>1 DEF T!Live, tracker
    <3> QED  BY <2>3, <2>4, <3>1, <3>2, <3>3, <3>4
  <2> QED  BY <2>5 DEF HeardOK
<1> QED  BY <1>1, <1>2, <1>3, <1>4, <1>5, <1>6, <1>7, Kinds

-----------------------------------------------------------------------------
(* The graveyard is written round and round.                               *)
LEMMA Round ==
  /\ \A x \in T!Tombs : Around(x) = x
  /\ \A x \in 0 .. 3 * MaxTracks - 1 :
       Around(x) \in T!Tombs /\ (Around(x) + 1) % (2 * MaxTracks) = Around(x + 1)
<1> DEFINE w == 2 * MaxTracks
<1>1. w \in Nat /\ w > 0 /\ MaxTracks \in Nat /\ MaxTracks > 0  OBVIOUS
<1>2. \A x \in T!Tombs : Around(x) = x  BY DEF Around, T!Tombs
<1>3. ASSUME NEW x \in 0 .. 3 * MaxTracks - 1
      PROVE  Around(x) \in T!Tombs /\ (Around(x) + 1) % w = Around(x + 1)
  <2> DEFINE y == Around(x)
  <2>1. y = IF x < w THEN x ELSE x - w  BY DEF Around
  <2>2. y \in 0 .. w - 1  BY <2>1
  <2>3. Around(x + 1) = IF y + 1 = w THEN 0 ELSE y + 1  BY <2>1 DEF Around
  <2> HIDE DEF y
  <2>4. CASE y + 1 = w
    <3>1. y + 1 = w * 1 + 0 /\ y + 1 \in Nat /\ 1 \in Int /\ 0 \in 0 .. w - 1
      BY <1>1, <2>2, <2>4
    <3>2. (y + 1) % w = 0
      <4> HIDE DEF w
      <4> QED  BY <1>1, <3>1, Unique
    <3> QED  BY <2>2, <2>3, <2>4, <3>2 DEF y, T!Tombs
  <2>5. CASE y + 1 # w
    <3>1. y + 1 = w * 0 + (y + 1) /\ y + 1 \in Nat /\ 0 \in Int /\ y + 1 \in 0 .. w - 1
      BY <1>1, <2>2, <2>5
    <3>2. (y + 1) % w = y + 1
      <4> HIDE DEF w
      <4> QED  BY <1>1, <3>1, Unique
    <3> QED  BY <2>2, <2>3, <2>5, <3>2 DEF y, T!Tombs
  <2> QED  BY <2>4, <2>5
<1> QED  BY <1>2, <1>3

(* One more track of a full table ends.                                    *)
LEMMA EndsOneMore ==
  ASSUME TrackerOK, ~Young, NEW n \in 0 .. MaxTracks, Ending(n),
         NEW i \in T!Expired, Interred(i)
  PROVE  n + 1 \in 0 .. MaxTracks /\ Ending(n + 1)'
<1>1. T!Live = n .. MaxTracks - 1 /\ i \in T!Live /\ i \in T!Expired
      /\ \A j \in T!Expired : i <= j
  BY DEF Ending, Interred, T!Expired, T!Unmatched, T!Live
<1>2. n \in T!Live /\ n \in 0 .. MaxTracks - 1 /\ i \in n .. MaxTracks - 1  BY <1>1
<1>3. n \in T!Expired
  <2>1. ~(slots[n].age <= Hold) /\ slots[n].age \in Nat  BY <1>2, AgeType DEF Young
  <2>2. n \notin matched  BY <2>1 DEF TrackerOK
  <2> QED  BY <1>2, <2>1, <2>2 DEF T!Expired, T!Unmatched, T!Live
<1>4. i = n  BY <1>1, <1>2, <1>3
<1>5. T!Live' = n + 1 .. MaxTracks - 1
  <2>1. T!Live' = T!Live \ {n}  BY <1>4 DEF Interred
  <2> QED  BY <1>1, <1>2, <2>1
<1>6. PICK s \in T!Tombs : /\ graveNext = Around(s + n)
                           /\ Recent = {Around(s + k) : k \in 0 .. n - 1}
  BY DEF Ending
<1>7. s + n \in 0 .. 3 * MaxTracks - 1 /\ s \in Nat  BY <1>2 DEF T!Tombs
<1>8. graveNext' = Around(s + n + 1)
  <2>1. graveNext' = (graveNext + 1) % (2 * MaxTracks)  BY DEF Interred
  <2>2. (Around(s + n) + 1) % (2 * MaxTracks) = Around((s + n) + 1)  BY <1>7, Round
  <2> QED  BY <1>6, <2>1, <2>2
<1>9. Recent' = Recent \cup {graveNext}
  <2>1. /\ graveNext \in T!Buried' /\ graves'[graveNext].age = 0
        /\ \A g \in T!Tombs \ {graveNext} : graves'[g] = graves[g]
    BY DEF Interred
  <2>2. graveNext \in T!Tombs  BY DEF TrackerOK
  <2> QED  BY <2>1, <2>2 DEF Recent, T!Buried
<1>10. Recent' = {Around(s + k) : k \in 0 .. n}
  <2>1. 0 .. n = (0 .. n - 1) \cup {n}  BY <1>2
  <2> QED  BY <1>6, <1>9, <2>1
<1>11. s + (n + 1) = s + n + 1 /\ (n + 1) - 1 = n  BY <1>2, <1>7
<1>12. n + 1 \in 0 .. MaxTracks  BY <1>2
<1> QED  BY <1>5, <1>6, <1>8, <1>10, <1>11, <1>12 DEF Ending

(* A full table that ends as a whole fills MaxTracks different graves.     *)
LEMMA EndingAll ==
  ASSUME Ending(MaxTracks)
  PROVE  AllEnded
<1>1. PICK s \in T!Tombs : Recent = {Around(s + k) : k \in 0 .. MaxTracks - 1}
  BY DEF Ending
<1> DEFINE I == 0 .. MaxTracks - 1
           f == [k \in I |-> Around(s + k)]
<1>2. Recent = {f[k] : k \in I}  BY <1>1
<1>3. \A k, l \in I : f[k] = f[l] => k = l
  <2> SUFFICES ASSUME NEW k \in I, NEW l \in I, Around(s + k) = Around(s + l) PROVE k = l
    OBVIOUS
  <2>1. s \in Nat /\ k \in Nat /\ l \in Nat /\ k < MaxTracks /\ l < MaxTracks
    BY DEF T!Tombs
  <2> QED  BY <2>1 DEF Around
<1>4. f \in Bijection(I, Recent)
  <2>1. f \in [I -> Recent]  BY <1>2
  <2> HIDE DEF f
  <2>2. \A t \in Recent : \E k \in I : f[k] = t  BY <1>2
  <2> HIDE DEF I
  <2>3. IsInjective(f)  BY <1>3, <2>1 DEF IsInjective
  <2> QED  BY <2>1, <2>2, <2>3 DEF Bijection, Injection, Surjection
<1>5. IsFiniteSet(I) /\ Cardinality(I) = MaxTracks
  <2>1. 0 \in Int /\ MaxTracks - 1 \in Int  OBVIOUS
  <2>2. IsFiniteSet(I)
        /\ Cardinality(I) = IF 0 > MaxTracks - 1 THEN 0 ELSE (MaxTracks - 1) - 0 + 1
    BY <2>1, FS_Interval
  <2> QED  BY <2>2
<1> HIDE DEF f, I
<1>6. ExistsBijection(I, Recent)  BY <1>4 DEF ExistsBijection
<1>7. Cardinality(Recent) = MaxTracks  BY <1>5, <1>6, FS_Bijection
<1> QED  BY <1>7 DEF AllEnded, Recent

-----------------------------------------------------------------------------
(* What a source offers is followed, or the whole table ends.              *)
LEMMA OfferInit == ASSUME Init PROVE OfferOK
<1>1. at = "start" /\ upd = "idle"  BY DEF Init, T!Init
<1> QED  BY <1>1 DEF OfferOK

(* An offer is a candidate; a candidate is seated or the table is full.      *)
LEMMA OfferTrack ==
  ASSUME OfferOK, LoopOK, TrackerOK, IdleOK, Track
  PROVE  OfferOK'
<1>1. TrackEffect /\ TrackerOK' /\ at = "update" /\ step \in {0, 1}
  BY TrackTakes DEF LoopOK, Track
<1>2. source' = source /\ dets' = dets /\ at' \in {"update", "choose"}
  BY <1>1 DEF TrackEffect, Aged, Going, Ended, Advanced, Refused, Interred, Returned, Track
<1>3. /\ at' \in {"poll1", "update"} /\ Offers(source[0])' => dets'.cam0 # <<>>
      /\ at' = "update" /\ Offers(source[1])' => dets'.cam1 # <<>>
  BY <1>1, <1>2 DEF OfferOK, Offers
<1>4. Offered' <=> Offered  BY <1>2 DEF Offered, Offers
<1>5. /\ \A i \in T!Live : slots[i].age \in Nat
      /\ \A i \in T!Live' : slots'[i].age \in Nat
  BY <1>1, AgeType DEF TrackerOK, SlotType, T!Live
<1>6. CASE Aged /\ Going
  <2>1. at' = "update" /\ upd' = "associate" /\ T!Live' = T!Live
    BY <1>6 DEF Aged, Going
  <2>2. ASSUME Offered PROVE cands' # <<>> /\ (Young' \/ Recent' = {} \/ T!Live' = {})
    <3>1. Scenery  BY <1>1, <2>2 DEF Offered, OfferOK, Scenery, Cameras
    <3>2. cands' # <<>>  BY <1>6, <3>1 DEF Aged
    <3>3. CASE step = 0 /\ T!Live # {}
      <4>1. PICK i \in T!Live : slots[i].age <= Hold  BY <1>6, <3>3 DEF IdleOK, Aged
      <4>2. slots'[i].age = T!Older(slots[i].age, 0)  BY <1>6, <3>3 DEF Aged
      <4>3. slots'[i].age <= slots[i].age + 0  BY <1>5, <4>2, OlderOnTime
      <4>4. slots'[i].age <= Hold  BY <1>5, <2>1, <4>1, <4>3
      <4> QED  BY <2>1, <3>2, <4>4 DEF Young
    <3>4. CASE step = 1
      <4>1. Recent' = {}
        <5>1. T!Buried' = T!Buried
              /\ \A g \in T!Buried : graves'[g].age = T!Older(graves[g].age, 1)
          BY <1>6, <3>4 DEF Aged
        <5>2. \A g \in T!Buried : graves[g].age \in Nat
          BY DEF T!Buried, TrackerOK, GraveType
        <5>3. \A age \in Nat : T!Older(age, 1) >= 1  BY DEF T!Older, T!Forever
        <5>4. \A g \in T!Buried : graves'[g].age >= 1  BY <5>1, <5>2, <5>3
        <5> QED  BY <5>1, <5>4 DEF Recent
      <4> QED  BY <3>2, <4>1
    <3> QED  BY <1>1, <2>1, <3>2, <3>3, <3>4
  <2> QED  BY <1>3, <1>4, <2>1, <2>2 DEF OfferOK
<1>7. CASE Advanced /\ Going /\ \E k \in T!Places : Seated(k)
  <2>1. PICK k \in T!Places : Seated(k)  BY <1>7
  <2>2. Young'  BY <2>1 DEF Young, Seated
  <2> QED  BY <1>3, <1>7, <2>2 DEF OfferOK, Going
<1>8. CASE Refused /\ Going
  <2>1. /\ at' = "update" /\ upd = "associate" /\ upd' = "associate" /\ cands # <<>>
        /\ T!Live = T!Places /\ T!Live' = T!Live
        /\ UNCHANGED <<slots, graves, graveNext>>
    BY <1>8 DEF Refused, Advanced, Going, T!Live
  <2>2. 0 \in T!Places  BY DEF T!Places
  <2>3. ASSUME Offered, ~Young PROVE Recent = {}  BY <2>1, <2>2, <2>3 DEF OfferOK
  <2>4. Young' <=> Young  BY <2>1 DEF Young
  <2>5. Recent' = Recent  BY <2>1 DEF Recent, T!Buried
  <2>6. ASSUME Recent = {} PROVE Ending(0)'
    <3>1. graveNext \in T!Tombs  BY DEF TrackerOK
    <3>2. graveNext + 0 = graveNext /\ graveNext' = Around(graveNext + 0)
      BY <2>1, <3>1, Round DEF T!Tombs
    <3>3. {Around(graveNext + k) : k \in 0 .. 0 - 1} = {}  OBVIOUS
    <3>4. T!Live' = 0 .. MaxTracks - 1  BY <2>1 DEF T!Places
    <3> QED  BY <2>5, <2>6, <3>1, <3>2, <3>3, <3>4 DEF Ending
  <2>7. 0 \in 0 .. MaxTracks  OBVIOUS
  <2> QED  BY <1>3, <1>4, <2>1, <2>3, <2>4, <2>5, <2>6, <2>7 DEF OfferOK
<1>9. CASE Going /\ \E k \in T!Expired : Interred(k)
  <2>1. PICK k \in T!Expired : Interred(k)  BY <1>9
  <2>2. /\ at' = "update" /\ upd = "associate" /\ upd' = "associate" /\ cands = <<>>
        /\ cands' = <<>> /\ T!Live' = T!Live \ {k}
        /\ \A j \in T!Live \ {k} : slots'[j] = slots[j]
    BY <1>9, <2>1 DEF Interred, Going
  <2>3. ASSUME Young PROVE Young'
    <3>1. PICK j \in T!Live : slots[j].age <= Hold  BY <2>3 DEF Young
    <3>2. slots[k].age > Hold /\ k \in T!Live  BY DEF T!Expired, T!Unmatched, T!Live
    <3>3. j # k  BY <1>5, <3>1, <3>2
    <3> QED  BY <2>2, <3>1, <3>3 DEF Young
  <2>4. ASSUME ~Young, Offered PROVE \E n \in 0 .. MaxTracks : Ending(n)'
    <3>1. PICK n \in 0 .. MaxTracks : Ending(n)  BY <2>2, <2>4 DEF OfferOK
    <3> QED  BY <2>1, <2>4, <3>1, EndsOneMore
  <2> QED  BY <1>3, <1>4, <2>2, <2>3, <2>4 DEF OfferOK
<1>10. CASE Ended
  <2>1. /\ at' = "choose" /\ upd = "associate" /\ upd' = "idle" /\ cands = <<>>
        /\ UNCHANGED <<slots, graves, graveNext>>
    BY <1>10 DEF Ended, Returned
  <2>2. ASSUME Offered, T!Live = {} PROVE Ending(MaxTracks)'
    <3>1. ~Young  BY <2>2 DEF Young
    <3>2. PICK n \in 0 .. MaxTracks : Ending(n)  BY <2>1, <2>2, <3>1 DEF OfferOK
    <3>3. n .. MaxTracks - 1 = {}  BY <2>2, <3>2 DEF Ending
    <3>4. n = MaxTracks  BY <3>3
    <3>5. T!Live' = T!Live /\ Recent' = Recent  BY <2>1 DEF T!Live, Recent, T!Buried
    <3> QED  BY <2>1, <3>2, <3>4, <3>5 DEF Ending
  <2>3. T!Live' = T!Live  BY <2>1 DEF T!Live
  <2> QED  BY <1>3, <1>4, <2>1, <2>2, <2>3 DEF OfferOK
<1> QED  BY <1>1, <1>6, <1>7, <1>8, <1>9, <1>10 DEF TrackEffect

(* What a source offers after its poll is in the scene.                      *)
LEMMA OfferPoll ==
  ASSUME OfferOK, LoopOK, TrackerOK, IdleOK, NEW c \in Cameras, Poll(c)
  PROVE  OfferOK'
<1> DEFINE s == Polled(c)
<1>1. /\ source' = [source EXCEPT ![c] = s]
      /\ dets' = IF ~Usable(s) THEN dets
                 ELSE IF c = 0 THEN [dets EXCEPT !.cam0 = s.dets]
                 ELSE [dets EXCEPT !.cam1 = s.dets]
      /\ at = (IF c = 0 THEN "poll0" ELSE "poll1")
      /\ at' = IF c = 0 THEN "poll1" ELSE "update"
      /\ UNCHANGED tracker
  BY PollFrame
<1>2. s \in SourceType /\ (s.have => s.open)  BY PolledType
<1> HIDE DEF s
<1>3. Offers(s) => Usable(s) /\ s.dets # <<>>
  BY <1>2 DEF Offers, Usable, Future
<1>4. \A k \in Cameras : source'[k] = IF k = c THEN s ELSE source[k]
  BY <1>1 DEF LoopOK
<1>5. upd' = "idle" /\ at' # "choose"
  <2>1. at # "update"  BY <1>1
  <2>2. upd = "idle"  BY <2>1, Resting
  <2> QED  BY <1>1, <2>2 DEF tracker
<1>6. dets \in T!Scene  BY DEF TrackerOK
<1>7. CASE c = 0
  <2>1. Offers(s) => dets'.cam0 # <<>>
    BY <1>1, <1>3, <1>6, <1>7 DEF T!Scene
  <2>2. source'[0] = s /\ at' = "poll1"  BY <1>1, <1>4, <1>7
  <2> QED  BY <1>5, <2>1, <2>2 DEF OfferOK, Offers
<1>8. CASE c # 0
  <2>0. c = 1 /\ at = "poll1" /\ at' = "update"  BY <1>1, <1>8 DEF Cameras
  <2>1. Offers(s) => dets'.cam1 # <<>>
    BY <1>1, <1>3, <1>6, <1>8 DEF T!Scene
  <2>2. dets'.cam0 = dets.cam0  BY <1>1, <1>6, <1>8 DEF T!Scene
  <2>3. source'[0] = source[0] /\ source'[1] = s  BY <1>4, <2>0 DEF Cameras
  <2>4. Offers(source[0]) => dets.cam0 # <<>>  BY <2>0 DEF OfferOK
  <2> QED  BY <1>5, <2>0, <2>1, <2>2, <2>3, <2>4 DEF OfferOK, Offers
<1> QED  BY <1>7, <1>8

LEMMA OfferStep ==
  ASSUME OfferOK, LoopOK, TrackerOK, IdleOK, [Next]_vars
  PROVE  OfferOK'
<1>1. ASSUME UNCHANGED <<at, source, dets, tracker>> PROVE OfferOK'
  <2>1. UNCHANGED <<slots, graves, graveNext, cands, upd>>  BY <1>1 DEF tracker
  <2>2. T!Live' = T!Live /\ Recent' = Recent  BY <2>1 DEF T!Live, Recent, T!Buried
  <2>3. \A n \in 0 .. MaxTracks : Ending(n)' <=> Ending(n)  BY <2>1, <2>2 DEF Ending
  <2>4. (Offered' <=> Offered) /\ (Young' <=> Young)
    BY <1>1, <2>1, <2>2 DEF Offered, Offers, Young
  <2>5. MaxTracks \in 0 .. MaxTracks  OBVIOUS
  <2> QED  BY <1>1, <2>1, <2>2, <2>3, <2>4, <2>5 DEF OfferOK, Offers
<1>2. ASSUME upd' = "idle", at' \notin Inside PROVE OfferOK'
  BY <1>2 DEF OfferOK, Inside
<1>3. CASE UNCHANGED vars  BY <1>1, <1>3 DEF vars
<1>4. CASE Outer
  <2>1. at # "update" /\ at' \notin Inside /\ UNCHANGED tracker
    BY <1>4, OuterFrame DEF Inside
  <2>2. upd' = "idle"  BY <2>1, Resting DEF tracker
  <2> QED  BY <1>2, <2>1, <2>2
<1>5. CASE Track  BY <1>5, OfferTrack
<1>6. CASE Choose \/ NoVoice
  <2>1. at # "update" /\ at' = "mix" /\ UNCHANGED tracker
    BY <1>6 DEF Choose, NoVoice
  <2>2. upd' = "idle"  BY <2>1, Resting DEF tracker
  <2> QED  BY <1>2, <2>1, <2>2 DEF Inside
<1>7. ASSUME NEW c \in Cameras, Create(c) \/ Publish(c) PROVE OfferOK'
  BY <1>1, <1>7 DEF Create, Publish
<1>8. ASSUME NEW c \in Cameras, Poll(c) PROVE OfferOK'  BY <1>8, OfferPoll
<1>9. ASSUME NEW dt \in {0, 1}, Sample(dt) PROVE OfferOK'
  <2>1. at # "update" /\ at' = "poll0" /\ UNCHANGED tracker  BY <1>9 DEF Sample
  <2>2. upd' = "idle"  BY <2>1, Resting DEF tracker
  <2> QED  BY <2>1, <2>2 DEF OfferOK
<1> QED  BY <1>3, <1>4, <1>5, <1>6, <1>7, <1>8, <1>9, Kinds

-----------------------------------------------------------------------------
(* The inductive invariant, and what follows from it.                      *)
Inv == /\ TrackerOK /\ IdleOK /\ LoopOK /\ VoiceOK /\ SinkOK
       /\ ZoneOK /\ SpeechOK /\ EvidenceOK /\ HeardOK /\ OfferOK

LEMMA InvInit == ASSUME Init PROVE Inv
BY TrackerInit, LoopInit, VoiceInit, SinkInvInit, SpeechInvInit, EvidenceInit, HeardInit,
   OfferInit DEF Inv

LEMMA InvStep == ASSUME Inv, [Next]_vars PROVE Inv'
<1>1. TrackerOK /\ IdleOK /\ LoopOK /\ VoiceOK /\ SinkOK /\ ZoneOK /\ EvidenceOK
      /\ HeardOK /\ OfferOK /\ SpeechOK
  BY DEF Inv
<1>2. TrackerOK' /\ IdleOK' /\ LoopOK'  BY <1>1, TrackerStep, IdleStep, LoopStep
<1>3. VoiceOK' /\ SinkOK' /\ ZoneOK'  BY <1>1, VoiceStep, SinkStep, ZoneStep
<1>4. EvidenceOK' /\ SpeechOK'  BY <1>1, EvidenceStep, SpeechStep
<1>5. HeardOK'  BY <1>1, HeardStep
<1>6. OfferOK'  BY <1>1, OfferStep
<1> QED  BY <1>2, <1>3, <1>4, <1>5, <1>6 DEF Inv

(* Whatever the worker, the device and the disk do, Inv holds: what the    *)
(* loop, its sources, the tracker and the sink hold fits together.         *)
THEOREM Invariance == Spec => []Inv
BY InvInit, InvStep, PTL DEF Spec

(* main.cpp:45-48: whatever hums was reported no longer ago than the       *)
(* freshness window of the sources and the hold time of the tracker        *)
(* together, whatever the worker does and whatever rings it left.          *)
THEOREM Ghosts == Spec => []GhostBounded
<1>1. Inv => GhostBounded  BY DEF Inv, EvidenceOK, GhostBounded
<1> QED  BY <1>1, Invariance, PTL

(* A voice is lost only when no detection was taken for longer than the    *)
(* hold time and no source offers one, or when a full table of tracks ends *)
(* in a single update (fusion.cpp:203-216).                                *)
THEOREM Silences == Spec => []SilenceHasCause
<1>1. ASSUME Inv PROVE SilenceHasCause
  <2>0. IdleOK /\ TrackerOK /\ LoopOK /\ HeardOK /\ OfferOK  BY <1>1 DEF Inv
  <2> SUFFICES ASSUME at = "choose", tracks = <<>>
               PROVE  heard > Hold /\ (AllEnded \/ \A c \in Cameras : ~Offers(source[c]))
    BY DEF SilenceHasCause
  <2>1. T!Live = {}  BY <2>0 DEF IdleOK
  <2>2. upd = "idle"  BY <2>0, Resting
  <2>3. heard > Hold
    <3>1. ~(heard <= Hold)  BY <2>0, <2>1, <2>2 DEF HeardOK
    <3> QED  BY <2>0, <3>1 DEF LoopOK
  <2>4. Offered => AllEnded  BY <2>0, <2>1, EndingAll DEF OfferOK
  <2> QED  BY <2>3, <2>4 DEF Offered
<1> QED  BY <1>1, Invariance, PTL

(* qsasink.cpp:67-80 and wavfilesink.cpp:49-67: a block that was written   *)
(* reached the device whole and in order.  Whatever failed, each size of a *)
(* closed file names nothing or the blocks that main() counts as rendered; *)
(* when nothing failed, both name them and they are what the file holds,   *)
(* however stdio cut them up.                                              *)
THEOREM Outputs == Spec => []OutputWhole
<1>1. ASSUME Inv PROVE OutputWhole
  <2>1. ASSUME at = "writing", left = 0 PROVE BlockWhole
    <3>1. Block - left = Block  BY <2>1, BlockAssumption
    <3>2. got = [k \in 1 .. Block |-> k]  BY <1>1, <2>1, <3>1 DEF Inv, SinkOK, Given
    <3> QED  BY <3>2 DEF BlockWhole, Frames
  <2> QED  BY <1>1, <2>1 DEF OutputWhole, Inv, SinkOK
<1> QED  BY <1>1, Invariance, PTL

(* fusion.h:91-92: the voice moves by more than the sticky gate only when  *)
(* nothing near it is left that is not clearly farther than what it moves  *)
(* to.                                                                     *)
THEOREM Jumps == Spec => VoiceDoesNotJump
<1>1. ASSUME Inv, [Next]_vars
      PROVE  [haveVoice /\ haveVoice' /\ T!Gap(holder, holder') > StickyGate =>
                \A n \in 1 .. Len(tracks) : T!Gap(tracks[n].azimuth, holder) <= StickyGate =>
                   target'.level > tracks[n].closeness + StickyMargin]_vars
  BY <1>1, JumpStep DEF Inv
<1> QED  BY <1>1, Invariance, PTL DEF Spec, VoiceDoesNotJump

(* fusion.h:97-102: the voice comes back to the zone it left last only     *)
(* after it travelled more than the hysteresis.                            *)
THEOREM Flutters == Spec => NoFlutter
<1>1. ASSUME Inv, [Next]_vars
      PROVE  [zone' # zone /\ zone' = leftZone => T!Gap(holder', turnedAt) > Hyst]_vars
  BY <1>1, FlutterStep DEF Inv
<1> QED  BY <1>1, Invariance, PTL DEF Spec, NoFlutter

(* main.cpp:265 and :276, speech.cpp:99-128: an announcement speaks of the *)
(* object that hums, in its ear, waits for the end of one clip at most,    *)
(* and for none when the audio of two clips was mixed since the last       *)
(* announcement, for every cooldown, length of a clip and size of a block. *)
THEOREM Announcements == Spec => ClipStartsInEar
<1>1. ASSUME Inv
      PROVE  [/\ at = "mix" /\ mixed = 0 =>
                   /\ pending.key = NotifyKey(holder) /\ pending.ear = target.ear
                   /\ target.level > 0
              /\ pending # Silence => mixed + playing.left <= ClipLen
              /\ mixed = TwoClips /\ mixed' = 0 => playing = Silence /\ pending = Silence]_vars
  BY <1>1, ClipStep DEF Inv
<1> QED  BY <1>1, Invariance, PTL DEF Spec, ClipStartsInEar
===============================================================================
