----------------------------- MODULE Tracker_proof -----------------------------
(***************************************************************************)
(* fusion::Tracker, for every size of the table, every gate, every scene   *)
(* and every sequence of updates: its identities, then the merging of the  *)
(* overlap, then its types.                                                *)
(*                                                                         *)
(* Of the identities the inductive invariant is ShapeOK (the functions     *)
(* keep their domains, the indices their ranges) with IdsUnique.           *)
(* IdsUnique is not inductive without its part Issued: a fresh id is new   *)
(* because next_id_ is above every id in use.  The geometry plays no part. *)
(***************************************************************************)
EXTENDS Tracker, TLAPS, FiniteSetTheorems

USE MaxTracksAssumption, StepsAssumption

Inv == ShapeOK /\ IdsUnique

LEMMA Remainder ==
  ASSUME NEW a \in Nat, NEW b \in Nat, b > 0
  PROVE  a % b \in 0 .. b - 1
OBVIOUS

LEMMA Wraps == 0 \in Tombs /\ \A g \in Tombs : (g + 1) % (2 * MaxTracks) \in Tombs
<1>1. 2 * MaxTracks \in Nat /\ 2 * MaxTracks > 0  OBVIOUS
<1>2. \A g \in Tombs : g + 1 \in Nat  BY <1>1 DEF Tombs
<1> QED  BY <1>1, <1>2, Remainder DEF Tombs

LEMMA InitInv == ASSUME Init PROVE Inv
<1>1. ShapeOK
  <2>1. DOMAIN slots = Places /\ DOMAIN graves = Tombs  BY DEF Init
  <2>2. \A i \in Places : slots[i].used \in BOOLEAN  BY DEF Init, NoTrack
  <2> QED  BY <2>1, <2>2, Wraps DEF Init, ShapeOK
<1>2. \A i \in Places : ~slots[i].used  BY DEF Init, NoTrack
<1>3. \A g \in Tombs : graves[g].id = 0  BY DEF Init, NoGrave
<1>4. Live = {} /\ Buried = {}  BY <1>2, <1>3 DEF Live, Buried
<1>5. IdsUnique
  BY <1>4 DEF IdsUnique, LiveDistinct, BuriedDistinct, NotBoth, Issued
<1> QED  BY <1>1, <1>5 DEF Inv

-----------------------------------------------------------------------------
(* What the steps do to the identities.  A step that changes neither who   *)
(* is live nor any id keeps them.                                          *)
SameIds ==
  /\ \A i \in Places : slots'[i].used = slots[i].used /\ slots'[i].id = slots[i].id
  /\ \A g \in Tombs : graves'[g].id = graves[g].id
  /\ nextId' = nextId

LEMMA SameIdsKeep ==
  ASSUME IdsUnique, SameIds
  PROVE  IdsUnique' /\ Retired' = Retired
<1>1. Live' = Live /\ Buried' = Buried  BY DEF SameIds, Live, Buried
<1>2. Live \subseteq Places /\ Buried \subseteq Tombs  BY DEF Live, Buried
<1>3. LiveIds' = LiveIds /\ BuriedIds' = BuriedIds
  BY <1>1, <1>2 DEF SameIds, LiveIds, BuriedIds
<1>4. IdsUnique'
  BY <1>1, <1>2 DEF SameIds, IdsUnique, LiveDistinct, BuriedDistinct, NotBoth, Issued
<1> QED  BY <1>3, <1>4 DEF SameIds, Retired

(* Place i gets the id n: its own, one taken out of the grave g, or the    *)
(* next one.                                                               *)
TakesPlace(i, n) ==
  /\ slots'[i].used /\ slots'[i].id = n
  /\ \A j \in Places \ {i} : slots'[j] = slots[j]

LEMMA HitKeeps ==
  ASSUME Inv, NEW i \in Live, TakesPlace(i, slots[i].id), graves' = graves,
         nextId' = nextId, \A j \in Places : slots'[j].used \in BOOLEAN
  PROVE  IdsUnique' /\ Retired' = Retired
<1>1. i \in Places /\ slots[i].used  BY DEF Live
<1>2. \A j \in Places : slots'[j].used = slots[j].used /\ slots'[j].id = slots[j].id
  BY <1>1 DEF TakesPlace, Inv, ShapeOK
<1>3. SameIds  BY <1>2 DEF SameIds
<1> QED  BY <1>3, SameIdsKeep DEF Inv

LEMMA InheritKeeps ==
  ASSUME Inv, NEW i \in Places, NEW g \in Buried, TakesPlace(i, graves[g].id),
         graves' = [graves EXCEPT ![g] = NoGrave], nextId' = nextId
  PROVE  IdsUnique' /\ Retired \subseteq Retired'
<1> DEFINE n == graves[g].id
<1>1. g \in Tombs /\ n # 0 /\ n \in 1 .. nextId - 1
  BY DEF Buried, Inv, IdsUnique, Issued
<1>2. Buried' = Buried \ {g} /\ \A h \in Buried \ {g} : graves'[h] = graves[h]
  BY <1>1 DEF Buried, Inv, ShapeOK, NoGrave
<1>3. Live' = Live \cup {i} /\ \A j \in Live \ {i} : slots'[j] = slots[j]
  BY DEF Live, TakesPlace
<1>4. slots'[i].id = n  BY DEF TakesPlace
<1>5. LiveDistinct'
  <2>1. \A j \in Live \ {i} : slots[j].id # n
    BY DEF Inv, IdsUnique, NotBoth
  <2> QED  BY <1>3, <1>4, <2>1 DEF LiveDistinct, Inv, IdsUnique
<1>6. BuriedDistinct'  BY <1>2 DEF BuriedDistinct, Inv, IdsUnique
<1>7. NotBoth'
  <2>1. \A h \in Buried \ {g} : graves[h].id # n
    BY DEF Inv, IdsUnique, BuriedDistinct
  <2> QED  BY <1>2, <1>3, <1>4, <2>1 DEF NotBoth, Inv, IdsUnique
<1>8. Issued'  BY <1>1, <1>2, <1>3, <1>4 DEF Issued, Inv, IdsUnique
<1>9. Retired \subseteq Retired'
  <2>1. LiveIds' \subseteq LiveIds \cup BuriedIds
    BY <1>3, <1>4 DEF LiveIds, BuriedIds
  <2>2. BuriedIds' \subseteq BuriedIds  BY <1>2 DEF BuriedIds
  <2> QED  BY <2>1, <2>2 DEF Retired
<1> QED  BY <1>5, <1>6, <1>7, <1>8, <1>9 DEF IdsUnique

LEMMA FreshKeeps ==
  ASSUME Inv, NEW i \in Places, TakesPlace(i, nextId), graves' = graves,
         nextId' = nextId + 1
  PROVE  IdsUnique' /\ Retired \subseteq Retired'
<1>1. nextId \in Nat \ {0}  BY DEF Inv, ShapeOK
<1>2. Buried' = Buried /\ BuriedIds' = BuriedIds  BY DEF Buried, BuriedIds
<1>3. Live' = Live \cup {i} /\ \A j \in Live \ {i} : slots'[j] = slots[j]
  BY DEF Live, TakesPlace
<1>4. slots'[i].id = nextId  BY DEF TakesPlace
<1>5. /\ \A j \in Live : slots[j].id # nextId
      /\ \A g \in Buried : graves[g].id # nextId
  BY <1>1 DEF Inv, IdsUnique, Issued
<1>6. LiveDistinct'  BY <1>3, <1>4, <1>5 DEF LiveDistinct, Inv, IdsUnique
<1>7. BuriedDistinct'  BY <1>2 DEF BuriedDistinct, Inv, IdsUnique
<1>8. NotBoth'  BY <1>2, <1>3, <1>4, <1>5 DEF NotBoth, Inv, IdsUnique
<1>9. Issued'
  <2>1. \A n \in 1 .. nextId - 1 : n \in 1 .. nextId' - 1  BY <1>1
  <2>2. nextId \in 1 .. nextId' - 1  BY <1>1
  <2> QED  BY <1>2, <1>3, <1>4, <2>1, <2>2 DEF Issued, Inv, IdsUnique
<1>10. Retired \subseteq Retired'
  <2>1. LiveIds' \subseteq LiveIds \cup {nextId}  BY <1>3, <1>4 DEF LiveIds
  <2>2. \A n \in 1 .. nextId - 1 : n \in 1 .. nextId' - 1 /\ n # nextId  BY <1>1
  <2> QED  BY <1>2, <2>1, <2>2 DEF Retired
<1> QED  BY <1>6, <1>7, <1>8, <1>9, <1>10 DEF IdsUnique

LEMMA BuryKeeps ==
  ASSUME Inv, NEW i \in Live, NEW r, r.id = slots[i].id,
         graves' = [graves EXCEPT ![graveNext] = r],
         slots' = [slots EXCEPT ![i] = NoTrack], nextId' = nextId
  PROVE  IdsUnique' /\ Retired \subseteq Retired'
<1>1. i \in Places /\ graveNext \in Tombs  BY DEF Live, Inv, ShapeOK
<1>2. Live' = Live \ {i} /\ \A j \in Live \ {i} : slots'[j] = slots[j]
  BY <1>1 DEF Live, Inv, ShapeOK, NoTrack
<1>3. r.id # 0  BY DEF Inv, IdsUnique, Issued, ShapeOK
<1>4. graves'[graveNext] = r /\ \A g \in Tombs \ {graveNext} : graves'[g] = graves[g]
  BY <1>1 DEF Inv, ShapeOK
<1>5. Buried' = Buried \cup {graveNext}  BY <1>1, <1>3, <1>4 DEF Buried
<1>6. Buried \subseteq Tombs  BY DEF Buried
<1>7. LiveDistinct'  BY <1>2 DEF LiveDistinct, Inv, IdsUnique
<1>8. BuriedDistinct'
  <2>1. \A g \in Buried : graves[g].id # r.id  BY DEF Inv, IdsUnique, NotBoth
  <2> QED  BY <1>4, <1>5, <1>6, <2>1 DEF BuriedDistinct, Inv, IdsUnique
<1>9. NotBoth'
  <2>1. \A j \in Live \ {i} : slots[j].id # r.id  BY DEF Inv, IdsUnique, LiveDistinct
  <2> QED  BY <1>2, <1>4, <1>5, <1>6, <2>1 DEF NotBoth, Inv, IdsUnique
<1>10. Issued'  BY <1>2, <1>4, <1>5, <1>6 DEF Issued, Inv, IdsUnique
<1>11. Retired \subseteq Retired'
  <2>1. LiveIds' \subseteq LiveIds  BY <1>2 DEF LiveIds
  <2>2. BuriedIds' \subseteq BuriedIds \cup LiveIds
    BY <1>4, <1>5, <1>6 DEF BuriedIds, LiveIds
  <2> QED  BY <2>1, <2>2 DEF Retired
<1> QED  BY <1>7, <1>8, <1>9, <1>10, <1>11 DEF IdsUnique

-----------------------------------------------------------------------------
(* The steps.                                                              *)
Kept(i) == Lost(i) => \/ ~slots'[i].used /\ slots[i].age > Hold
                      \/ Live = Places /\ slots'[i].closeness > slots[i].closeness
Good == /\ Inv'
        /\ Retired \subseteq Retired'
        /\ \A i \in matched : slots'[i] = slots[i]
        /\ \A i \in Places : Kept(i)

LEMMA UpdateGood ==
  ASSUME Inv, NEW dt \in Steps, Update(dt)
  PROVE  Good
<1> USE DEF Update
<1>1. \A i \in Places : slots'[i].used = slots[i].used /\ slots'[i].id = slots[i].id
  <2> SUFFICES ASSUME NEW i \in Places
               PROVE  slots'[i].used = slots[i].used /\ slots'[i].id = slots[i].id
    OBVIOUS
  <2>1. CASE slots[i].used
    <3>1. slots'[i] = AgedTrack(slots[i], dt)  BY <2>1
    <3>2. slots[i].used = TRUE  BY <2>1 DEF Inv, ShapeOK
    <3> QED  BY <3>1, <3>2 DEF AgedTrack
  <2>2. CASE ~slots[i].used  BY <2>2
  <2> QED  BY <2>1, <2>2
<1>2. \A g \in Tombs : graves'[g].id = graves[g].id  BY DEF AgedGrave
<1>3. SameIds  BY <1>1, <1>2 DEF SameIds
<1>4. IdsUnique' /\ Retired' = Retired  BY <1>3, SameIdsKeep DEF Inv
<1>5. ShapeOK'  BY <1>1 DEF Inv, ShapeOK
<1>6. matched = {}  BY DEF Inv, ShapeOK
<1>7. \A i \in Places : ~Lost(i)  BY <1>1 DEF Lost
<1> QED  BY <1>4, <1>5, <1>6, <1>7 DEF Good, Inv, Kept

LEMMA HitGood ==
  ASSUME Inv, NEW i \in Unmatched, NEW c, Hit(i, c), Associating
  PROVE  Good
<1>1. i \in Places /\ i \in Live /\ i \notin matched  BY DEF Unmatched, Live
<1>2. slots'[i].used = TRUE /\ slots'[i].id = slots[i].id
  BY <1>1 DEF Hit, Inv, ShapeOK
<1>3. DOMAIN slots' = Places /\ \A j \in Places \ {i} : slots'[j] = slots[j]
  BY DEF Hit, Inv, ShapeOK
<1>4. TakesPlace(i, slots[i].id)  BY <1>2, <1>3 DEF TakesPlace
<1>5. \A j \in Places : slots'[j].used \in BOOLEAN
  BY <1>2, <1>3 DEF Inv, ShapeOK
<1>6. IdsUnique' /\ Retired' = Retired
  BY <1>1, <1>4, <1>5, HitKeeps DEF Hit
<1>7. ShapeOK'
  <2>1. \A j \in matched' : j \in Places /\ slots'[j].used
    BY <1>1, <1>2, <1>3 DEF Hit, Inv, ShapeOK
  <2> QED  BY <1>3, <1>5, <2>1 DEF Hit, Associating, Inv, ShapeOK
<1>8. \A j \in matched : slots'[j] = slots[j]
  <2>1. \A j \in DOMAIN slots \ {i} : slots'[j] = slots[j]  BY <1>3 DEF Inv, ShapeOK
  <2> QED  BY <1>1, <2>1 DEF Hit
<1>9. \A j \in Places : ~Lost(j)  BY <1>2, <1>3 DEF Lost
<1> QED  BY <1>6, <1>7, <1>8, <1>9 DEF Good, Inv, Kept

LEMMA BirthGood ==
  ASSUME Inv, NEW i \in Places \ matched, NEW c, Birth(i, c), Associating,
         ~slots[i].used \/ (Live = Places /\ c.closeness > slots[i].closeness)
  PROVE  Good
<1>1. \E id : Born(i, c, id)  BY DEF Birth, Inherit, Fresh
<1>2. /\ slots'[i].used = TRUE /\ slots'[i].closeness = c.closeness
      /\ DOMAIN slots' = Places /\ \A j \in Places \ {i} : slots'[j] = slots[j]
  BY <1>1 DEF Born, Inv, ShapeOK
<1>3. IdsUnique' /\ Retired \subseteq Retired' /\ DOMAIN graves' = Tombs
      /\ nextId' \in Nat \ {0}
  <2>1. CASE Inherit(i, c)
    <3>1. PICK g \in Haunting(c) : /\ Born(i, c, graves[g].id)
                                   /\ graves' = [graves EXCEPT ![g] = NoGrave]
      BY <2>1 DEF Inherit
    <3>2. g \in Buried  BY DEF Haunting, Buried
    <3>3. slots'[i].id = graves[g].id  BY <3>1 DEF Born, Inv, ShapeOK
    <3>4. TakesPlace(i, graves[g].id)  BY <1>2, <3>3 DEF TakesPlace
    <3> QED  BY <2>1, <3>1, <3>2, <3>4, InheritKeeps DEF Inherit, Inv, ShapeOK
  <2>2. CASE Fresh(i, c)
    <3>1. slots'[i].id = nextId  BY <2>2 DEF Fresh, Born, Inv, ShapeOK
    <3>2. TakesPlace(i, nextId)  BY <1>2, <3>1 DEF TakesPlace
    <3> QED  BY <2>2, <3>2, FreshKeeps DEF Fresh, Inv, ShapeOK
  <2> QED  BY <2>1, <2>2 DEF Birth
<1>4. ShapeOK'
  <2>1. \A j \in Places : slots'[j].used \in BOOLEAN  BY <1>2 DEF Inv, ShapeOK
  <2>2. \A j \in matched' : j \in Places /\ slots'[j].used
    BY <1>1, <1>2 DEF Born, Inv, ShapeOK
  <2> QED  BY <1>2, <1>3, <2>1, <2>2 DEF Associating, Inv, ShapeOK
<1>5. \A j \in matched : slots'[j] = slots[j]
  BY <1>1 DEF Born, Inv, ShapeOK
<1>6. \A j \in Places : Kept(j)
  <2>1. Kept(i)  BY <1>2 DEF Kept, Lost
  <2>2. \A j \in Places \ {i} : Kept(j)  BY <1>2 DEF Kept, Lost
  <2> QED  BY <2>1, <2>2
<1> QED  BY <1>3, <1>4, <1>5, <1>6 DEF Good, Inv

LEMMA BuryGood ==
  ASSUME Inv, Bury
  PROVE  Good
<1>1. PICK i \in Expired :
        /\ graves' = [graves EXCEPT ![graveNext] =
             [id |-> slots[i].id, azimuth |-> slots[i].azimuth, age |-> 0]]
        /\ slots' = [slots EXCEPT ![i] = NoTrack]
  BY DEF Bury
<1>2. i \in Places /\ i \in Live /\ i \notin matched /\ slots[i].age > Hold
  BY DEF Expired, Unmatched, Live
<1>3. IdsUnique' /\ Retired \subseteq Retired'
  BY <1>1, <1>2, BuryKeeps DEF Bury
<1>4. ~slots'[i].used /\ \A j \in Places \ {i} : slots'[j] = slots[j]
  BY <1>1, <1>2 DEF Inv, ShapeOK, NoTrack
<1>5. ShapeOK'
  <2>1. \A j \in Places : slots'[j].used \in BOOLEAN
    BY <1>1, <1>2 DEF Inv, ShapeOK, NoTrack
  <2>2. graveNext' \in Tombs  BY Wraps DEF Bury, Inv, ShapeOK
  <2>3. \A j \in matched' : j \in Places /\ slots'[j].used
    <3>1. \A j \in matched : j \in Places \ {i} /\ slots[j].used
      BY <1>2 DEF Inv, ShapeOK
    <3> QED  BY <1>4, <3>1 DEF Bury
  <2>4. DOMAIN slots' = Places /\ DOMAIN graves' = Tombs  BY <1>1 DEF Inv, ShapeOK
  <2> QED  BY <2>1, <2>2, <2>3, <2>4 DEF Bury, Inv, ShapeOK
<1>6. \A j \in matched : slots'[j] = slots[j]  BY <1>1, <1>2 DEF Inv, ShapeOK
<1>7. \A j \in Places : Kept(j)  BY <1>2, <1>4 DEF Kept, Lost
<1> QED  BY <1>3, <1>5, <1>6, <1>7 DEF Good, Inv

LEMMA QuietGood ==
  ASSUME Inv, UNCHANGED memory, ShapeOK'
  PROVE  Good
<1>1. SameIds  BY DEF memory, SameIds
<1>2. IdsUnique' /\ Retired' = Retired  BY <1>1, SameIdsKeep DEF Inv
<1>3. \A i \in Places : ~Lost(i)  BY DEF memory, Lost
<1> QED  BY <1>2, <1>3 DEF Good, Inv, Kept, memory

(* Every step of the tracker, and every stutter, is good.                  *)
LEMMA NextGood ==
  ASSUME Inv, [Next]_vars
  PROVE  Good
<1>1. ASSUME NEW dt \in Steps, Update(dt) PROVE Good  BY <1>1, UpdateGood
<1>2. CASE Follow
  <2>1. PICK i \in InGate(Head(cands)) : Hit(i, Head(cands))  BY <1>2 DEF Follow
  <2>2. i \in Unmatched  BY DEF InGate, Within
  <2> QED  BY <1>2, <2>1, <2>2, HitGood DEF Follow
<1>3. CASE Adopt
  <2>1. PICK i \in InSeam(Head(cands)) : Hit(i, Head(cands))  BY <1>3 DEF Adopt
  <2>2. i \in Unmatched  BY DEF InSeam, Within, Coasting
  <2> QED  BY <1>3, <2>1, <2>2, HitGood DEF Adopt
<1>4. CASE Occupy
  <2>1. PICK i \in FreePlaces : Birth(i, Head(cands))  BY <1>4 DEF Occupy
  <2>2. i \in Places /\ ~slots[i].used  BY DEF FreePlaces
  <2>3. i \notin matched  BY <2>2 DEF Inv, ShapeOK
  <2> QED  BY <1>4, <2>1, <2>2, <2>3, BirthGood DEF Occupy
<1>5. CASE Evict
  <2>1. PICK i \in Unmatched : Closer(Head(cands), i) /\ Birth(i, Head(cands))
    BY <1>5 DEF Evict
  <2>2. i \in Places \ matched  BY DEF Unmatched
  <2>3. Live = Places  BY <1>5 DEF Evict, FreePlaces, Live
  <2> QED  BY <1>5, <2>1, <2>2, <2>3, BirthGood DEF Evict, Closer
<1>6. CASE Refuse
  <2>1. ShapeOK' /\ UNCHANGED memory
    BY <1>6 DEF Refuse, Associating, Inv, ShapeOK, memory
  <2> QED  BY <2>1, QuietGood
<1>7. CASE Bury  BY <1>7, BuryGood
<1>8. CASE Rank
  <2>1. ShapeOK' /\ UNCHANGED memory  BY <1>8 DEF Rank, Inv, ShapeOK, memory
  <2> QED  BY <2>1, QuietGood
<1>9. CASE Look
  <2>1. ShapeOK' /\ UNCHANGED memory  BY <1>9 DEF Look, Inv, ShapeOK, memory
  <2> QED  BY <2>1, QuietGood
<1>10. CASE UNCHANGED vars
  <2>1. ShapeOK' /\ UNCHANGED memory  BY <1>10 DEF vars, Inv, ShapeOK, memory
  <2> QED  BY <2>1, QuietGood
<1> QED
  BY <1>1, <1>2, <1>3, <1>4, <1>5, <1>6, <1>7, <1>8, <1>9, <1>10 DEF Next, Step

-----------------------------------------------------------------------------
(* fusion.h:33-34: whatever the cameras report, the tracker's functions    *)
(* keep their domains and indices, and an id names one object: no two live *)
(* tracks share one, none is live and buried, none is buried twice.        *)
THEOREM Identity == Spec => [](ShapeOK /\ IdsUnique)
<1>1. Init => Inv  BY InitInv
<1>2. Inv /\ [Next]_vars => Inv'  BY NextGood DEF Good
<1> QED  BY <1>1, <1>2, PTL DEF Spec, Inv

THEOREM UniqueIds == Spec => []IdsUnique
BY Identity, PTL

(* fusion.h:34, "never reused": an id neither live nor in a grave never    *)
(* comes back.                                                             *)
THEOREM NoIdReused == Spec => NeverReused
<1>1. Inv /\ [Next]_vars => [Retired \subseteq Retired']_vars
  BY NextGood DEF Good
<1> QED  BY <1>1, Identity, PTL DEF Spec, NeverReused, Inv

(* A track hit in an update is neither hit again, evicted nor dropped by   *)
(* the rest of that update.                                                *)
THEOREM OneHitPerUpdate == Spec => MatchedLeftAlone
<1>1. Inv /\ [Next]_vars => [\A i \in matched : slots'[i] = slots[i]]_vars
  BY NextGood DEF Good
<1> QED  BY <1>1, Identity, PTL DEF Spec, MatchedLeftAlone, Inv

(* fusion.h:16-19: a track is lost only after the hold window or, from a   *)
(* full table, to a strictly closer object.                                *)
THEOREM HeldUntilTraded == Spec => HeldOrTraded
<1>1. Inv /\ [Next]_vars => [\A i \in Places : Kept(i)]_vars
  BY NextGood DEF Good
<1> QED  BY <1>1, Identity, PTL DEF Spec, HeldOrTraded, Inv, Kept
-----------------------------------------------------------------------------
(* Least numbers.                                                          *)
Less == {p \in Nat \X Nat : p[1] < p[2]}

LEMMA LessWellFounded == IsWellFoundedOn(Less, Nat)
BY NatLessThanWellFounded, Zenon DEF OpToRel, Less

LEMMA Least ==
  ASSUME NEW S, S \subseteq Nat, S # {}
  PROVE  \E x \in S : \A y \in S : x <= y
<1>1. PICK x \in S : \A y \in S : <<y, x>> \notin Less
  BY LessWellFounded, WFMin
<1>2. \A y \in S : ~ (y < x)  BY <1>1 DEF Less
<1> QED  BY <1>2

-----------------------------------------------------------------------------
(* The merging of the overlap.                                             *)
LEMMA GapType == \A a, b \in Int : Gap(a, b) \in Nat
BY DEF Gap

LEMMA BlobAt ==
  ASSUME NEW c \in Seq(Blob), NEW i \in 1 .. Len(c)
  PROVE  c[i] \in Blob /\ c[i].closeness \in Nat /\ c[i].azimuth \in Int
<1>1. c[i] \in Blob  OBVIOUS
<1> QED  BY <1>1 DEF Blob

(* Of the blobs in reach one is nearest, the last of several.              *)
LEMMA NearestExists ==
  ASSUME NEW c \in Seq(Blob), NEW a \in Int,
         NEW S \in SUBSET (1 .. Len(c)), S # {}
  PROVE  \E i \in S : Nearest(i, a, c, S)
<1>a. \A i \in S : i \in 1 .. Len(c) /\ c[i].azimuth \in Int  BY BlobAt
<1>b. \A i \in S : Gap(a, c[i].azimuth) \in Nat  BY <1>a, GapType
<1>c. Len(c) \in Nat  OBVIOUS
<1>0. Len(c) \in Nat /\ \A i \in S : i \in Nat /\ Gap(a, c[i].azimuth) \in Nat
  BY <1>a, <1>b, <1>c
<1> DEFINE dist(i) == Gap(a, c[i].azimuth)
           far == {dist(i) : i \in S}
<1>1. PICK m \in S : \A j \in S : dist(m) <= dist(j)
  <2>1. far \subseteq Nat /\ far # {}  BY <1>0
  <2>2. PICK d \in far : \A e \in far : d <= e  BY <2>1, Least
  <2> QED  BY <2>2
<1> DEFINE same == {i \in S : dist(i) = dist(m)}
           back == {Len(c) - i : i \in same}
<1>2. PICK i \in same : \A j \in same : j <= i
  <2>1. back \subseteq Nat /\ back # {}  BY <1>0, <1>1
  <2>2. PICK d \in back : \A e \in back : d <= e  BY <2>1, Least
  <2>3. PICK i \in same : d = Len(c) - i  BY <2>2
  <2>4. \A j \in same : Len(c) - i <= Len(c) - j  BY <2>2, <2>3
  <2>5. \A j \in same : j <= i  BY <2>4, <1>0
  <2> QED  BY <2>5
<1>3. \A j \in S \ {i} : dist(i) < dist(j) \/ (dist(i) = dist(j) /\ j < i)
  BY <1>0, <1>1, <1>2
<1> QED  BY <1>2, <1>3 DEF Nearest

(* The scans always end in a pairing.                                      *)
LEMMA PairingExists ==
  ASSUME NEW c0 \in Seq(Blob), NEW c1 \in Seq(Blob)
  PROVE  \E mates : mates \in Pairings(c0, c1)
<1> DEFINE N == Len(c0)
           F == [1 .. N -> 0 .. Len(c1)]
           Upto(mates, n) == \A k \in 1 .. n : Paired(c0, c1, mates, k)
           bad == {n \in 0 .. N : \A mates \in F : ~Upto(mates, n)}
<1>0. N \in Nat /\ Len(c1) \in Nat  OBVIOUS
<1>1. bad = {}
  <2> SUFFICES ASSUME bad # {} PROVE FALSE  OBVIOUS
  <2>1. PICK n \in bad : \A k \in bad : n <= k
    <3>1. bad \subseteq Nat  OBVIOUS
    <3> HIDE DEF bad
    <3> QED  BY <3>1, Least
  <2>2. CASE n = 0
    <3>1. [k \in 1 .. N |-> 0] \in F  BY <1>0
    <3>2. Upto([k \in 1 .. N |-> 0], 0)  OBVIOUS
    <3> QED  BY <2>1, <2>2, <3>1, <3>2
  <2>3. CASE n # 0
    <3>1. n \in 1 .. N /\ n - 1 \in 0 .. N /\ n - 1 \notin bad
      <4>1. n \in 0 .. N  BY <2>1
      <4> HIDE DEF bad
      <4>2. n - 1 \notin bad  BY <2>1, <4>1, <1>0
      <4> QED  BY <4>1, <4>2, <2>3, <1>0
    <3>2. PICK mates \in F : Upto(mates, n - 1)  BY <3>1
    <3> DEFINE free == Untaken(c1, mates, n)
               near == Within(c0[n].azimuth, c1, free, MergeGate)
    <3>3. free \subseteq 1 .. Len(c1) /\ near \subseteq 1 .. Len(c1)
      BY DEF Untaken, Within
    <3>4. c0[n].azimuth \in Int  BY <3>1, BlobAt
    <3>5. PICK v \in 0 .. Len(c1) :
            \/ near = {} /\ v = 0
            \/ v \in near /\ Nearest(v, c0[n].azimuth, c1, near)
      <4>1. CASE near = {}  BY <4>1, <1>0
      <4>2. CASE near # {}
        <5>1. \E v \in near : Nearest(v, c0[n].azimuth, c1, near)
          BY <4>2, <3>3, <3>4, NearestExists
        <5> QED  BY <5>1, <3>3, <1>0
      <4> QED  BY <4>1, <4>2
    <3> DEFINE more == [mates EXCEPT ![n] = v]
    <3>6. more \in F /\ more[n] = v /\ \A k \in 1 .. n - 1 : more[k] = mates[k]
      BY <3>1, <3>2, <3>5, <1>0
    <3>7. \A k \in 1 .. n : Untaken(c1, more, k) = Untaken(c1, mates, k)
      <4> SUFFICES ASSUME NEW k \in 1 .. n
                   PROVE  {more[m] : m \in 1 .. k - 1} = {mates[m] : m \in 1 .. k - 1}
        BY DEF Untaken
      <4>1. \A m \in 1 .. k - 1 : m \in 1 .. n - 1  BY <3>1, <1>0
      <4> QED  BY <4>1, <3>6
    <3>8. \A k \in 1 .. n - 1 : Paired(c0, c1, more, k)
      <4> SUFFICES ASSUME NEW k \in 1 .. n - 1 PROVE Paired(c0, c1, more, k)
        OBVIOUS
      <4>1. k \in 1 .. n  BY <3>1, <1>0
      <4> QED  BY <4>1, <3>2, <3>6, <3>7 DEF Paired
    <3>9. Paired(c0, c1, more, n)
      <4>1. n \in 1 .. n  BY <3>1
      <4> QED  BY <4>1, <3>5, <3>6, <3>7 DEF Paired
    <3>10. Upto(more, n)
      <4>1. \A k \in 1 .. n : k = n \/ k \in 1 .. n - 1  BY <3>1, <1>0
      <4> QED  BY <4>1, <3>8, <3>9
    <3> QED  BY <2>1, <3>6, <3>10
  <2> QED  BY <2>2, <2>3
<1>2. N \in 0 .. N /\ N \notin bad  BY <1>0, <1>1
<1>3. \E mates \in F : Upto(mates, N)  BY <1>2
<1> QED  BY <1>3 DEF Pairings

LEMMA Overlap ==
  ASSUME scene \in Scene
  PROVE  OverlapMerged
<1> DEFINE c0 == scene.cam0
           c1 == scene.cam1
<1>1. c0 \in Seq(Blob) /\ c1 \in Seq(Blob)  BY DEF Scene
<1> HIDE DEF c0, c1
<1>2. PICK mates \in Pairings(c0, c1) : TRUE  BY <1>1, PairingExists
<1>0. Len(c0) \in Nat /\ Len(c1) \in Nat  BY <1>1
<1>3. \A n \in 1 .. Len(c0) : Paired(c0, c1, mates, n)  BY <1>2 DEF Pairings
<1>t. mates \in [1 .. Len(c0) -> 0 .. Len(c1)]  BY <1>2 DEF Pairings
<1>4. ASSUME NEW n \in 1 .. Len(c0), mates[n] # 0
      PROVE  /\ mates[n] \in Untaken(c1, mates, n)
             /\ Gap(c0[n].azimuth, c1[mates[n]].azimuth) <= MergeGate
  BY <1>3, <1>4 DEF Paired, Within
<1>5. ASSUME NEW m \in 1 .. Len(c0), NEW n \in 1 .. Len(c0), m < n,
             mates[m] = mates[n], mates[n] # 0
      PROVE  FALSE
  <2>1. m \in 1 .. n - 1  BY <1>5, <1>0
  <2>2. mates[n] \notin {mates[k] : k \in 1 .. n - 1}
    BY <1>4, <1>5 DEF Untaken
  <2> QED  BY <2>1, <2>2, <1>5
<1>6. \A m, n \in 1 .. Len(c0) : mates[m] = mates[n] => mates[m] = 0 \/ m = n
  <2>1. \A m, n \in 1 .. Len(c0) : m = n \/ m < n \/ n < m  BY <1>0
  <2> QED  BY <2>1, <1>5
<1>7. ASSUME NEW n \in 1 .. Len(c0), NEW k \in 1 .. Len(c1),
             Gap(c0[n].azimuth, c1[k].azimuth) <= MergeGate, mates[n] = 0
      PROVE  \E m \in 1 .. Len(c0) : mates[m] = k
  <2>1. k \notin Untaken(c1, mates, n)
    <3>1. 0 \notin Untaken(c1, mates, n)  BY <1>0 DEF Untaken
    <3> QED  BY <3>1, <1>3, <1>7 DEF Paired, Within
  <2>2. PICK m \in 1 .. n - 1 : mates[m] = k  BY <2>1 DEF Untaken
  <2>3. m \in 1 .. Len(c0)  BY <1>0
  <2> QED  BY <2>2, <2>3
<1> QED  BY <1>2, <1>4, <1>6, <1>7 DEF OverlapMerged, c0, c1

-----------------------------------------------------------------------------
(* Types.                                                                  *)
SlotType  == [used : BOOLEAN, closeness : Int, azimuth : Int, age : Nat, id : Nat]
GraveType == [id : Nat, azimuth : Int, age : Nat]
TrackType == [closeness : Int, azimuth : Int, id : Nat]

LEMMA RoundedType == \A n \in Int, d \in Nat \ {0} : Rounded(n, d) \in Int
<1> SUFFICES ASSUME NEW n \in Int, NEW d \in Nat \ {0} PROVE Rounded(n, d) \in Int
  OBVIOUS
<1>1. 2 * n + d \in Int /\ 2 * d \in Nat /\ 2 * d > 0  OBVIOUS
<1>2. \A a \in Int, b \in Nat : b > 0 => a \div b \in Int  OBVIOUS
<1> QED  BY <1>1, <1>2 DEF Rounded

LEMMA SmoothType == \A old, new \in Int : Smooth(old, new) \in Int
<1> SUFFICES ASSUME NEW old \in Int, NEW new \in Int PROVE Smooth(old, new) \in Int
  OBVIOUS
<1>1. 3 * (new - old) \in Int /\ 5 \in Nat \ {0}  OBVIOUS
<1>2. Rounded(3 * (new - old), 5) \in Int  BY <1>1, RoundedType
<1> QED  BY <1>2 DEF Smooth

LEMMA OlderType == \A age, dt \in Nat : Older(age, dt) \in Nat
BY LivesAssumption DEF Older, Forever

LEMMA FuseType ==
  ASSUME NEW a \in Blob, NEW b \in Blob
  PROVE  Fuse(a, b) \in Blob
<1> DEFINE sum == a.closeness + b.closeness
           far == a.azimuth * a.closeness + b.azimuth * b.closeness
           top == Max({a.closeness, b.closeness})
           mid == IF sum > 0 THEN Rounded(far, sum)
                  ELSE Rounded(a.azimuth + b.azimuth, 2)
<1>1. /\ a.closeness \in Nat /\ b.closeness \in Nat
      /\ a.azimuth \in Int /\ b.azimuth \in Int
  BY DEF Blob
<1>2. top \in Nat
  <2>1. \E x \in {a.closeness, b.closeness} :
          \A y \in {a.closeness, b.closeness} : x >= y
    BY <1>1
  <2>2. top \in {a.closeness, b.closeness}  BY <2>1 DEF Max
  <2> QED  BY <2>2, <1>1
<1>3. mid \in Int
  <2>1. sum \in Nat /\ far \in Int /\ a.azimuth + b.azimuth \in Int  BY <1>1
  <2> HIDE DEF sum, far
  <2> QED  BY <2>1, RoundedType
<1>4. Fuse(a, b) = [closeness |-> top, azimuth |-> mid]  BY DEF Fuse
<1> HIDE DEF top, mid
<1> QED  BY <1>2, <1>3, <1>4 DEF Blob

(* Sorting returns as many elements as there were, and the same ones.      *)
LEMMA RankedType ==
  ASSUME NEW D, IsFiniteSet(D), NEW B, NEW f \in [D -> B], NEW t \in Ranked(f)
  PROVE  t \in Seq(B) /\ Len(t) = Cardinality(D)
<1>1. DOMAIN f = D  OBVIOUS
<1>2. PICK p \in SetToSeqs(D) : t = [n \in DOMAIN p |-> f[p[n]]]
  BY <1>1 DEF Ranked
<1>3. Cardinality(D) \in Nat  BY FS_CardinalityType
<1>4. p \in [1 .. Cardinality(D) -> D]  BY <1>2 DEF SetToSeqs
<1>5. t \in [1 .. Cardinality(D) -> B]  BY <1>2, <1>4
<1> QED  BY <1>3, <1>5

LEMMA MergedType ==
  ASSUME NEW c0 \in Seq(Blob), NEW c1 \in Seq(Blob), NEW mates \in Pairings(c0, c1)
  PROVE  \E D : IsFiniteSet(D) /\ Merged(c0, c1, mates) \in [D -> Blob]
<1> DEFINE A == {0} \X (1 .. Len(c0))
           U == Untaken(c1, mates, Len(c0) + 1)
           C == {1} \X U
<1>0. Len(c0) \in Nat /\ Len(c1) \in Nat /\ U \subseteq 1 .. Len(c1)
  BY DEF Untaken
<1>1. IsFiniteSet(A \cup C)
  <2>1. IsFiniteSet(1 .. Len(c0)) /\ IsFiniteSet(1 .. Len(c1))
    BY <1>0, FS_Interval
  <2>2. IsFiniteSet(U)  BY <1>0, <2>1, FS_Subset
  <2>3. IsFiniteSet({0}) /\ IsFiniteSet({1})  BY FS_Singleton
  <2>4. IsFiniteSet(A) /\ IsFiniteSet(C)  BY <2>1, <2>2, <2>3, FS_Product
  <2> QED  BY <2>4, FS_Union
<1>2. mates \in [1 .. Len(c0) -> 0 .. Len(c1)]  BY DEF Pairings
<1> DEFINE M(b) == IF b[1] = 1 THEN c1[b[2]]
                   ELSE IF mates[b[2]] = 0 THEN c0[b[2]]
                   ELSE Fuse(c0[b[2]], c1[mates[b[2]]])
<1>3. ASSUME NEW b \in A \cup C  PROVE M(b) \in Blob
  <2>1. CASE b \in C
    <3>1. b[1] = 1 /\ b[2] \in 1 .. Len(c1)  BY <2>1, <1>0
    <3> QED  BY <3>1, BlobAt
  <2>2. CASE b \in A
    <3>1. b[1] = 0 /\ b[2] \in 1 .. Len(c0)  BY <2>2
    <3>2. c0[b[2]] \in Blob  BY <3>1, BlobAt
    <3>3. mates[b[2]] # 0 => mates[b[2]] \in 1 .. Len(c1)  BY <3>1, <1>2, <1>0
    <3>4. mates[b[2]] # 0 => Fuse(c0[b[2]], c1[mates[b[2]]]) \in Blob
      BY <3>2, <3>3, BlobAt, FuseType
    <3> QED  BY <3>1, <3>2, <3>4
  <2> QED  BY <2>1, <2>2, <1>3
<1>4. Merged(c0, c1, mates) = [b \in A \cup C |-> M(b)]  BY DEF Merged
<1> HIDE DEF M, A, C
<1>5. Merged(c0, c1, mates) \in [A \cup C -> Blob]  BY <1>3, <1>4
<1> QED  BY <1>1, <1>5

(* The candidates are types too: what is left of TypeOK besides ShapeOK.   *)
MemoryOK == slots \in [Places -> SlotType] /\ graves \in [Tombs -> GraveType]
CandsOK  == cands \in Seq(Blob) /\ Len(cands) <= MaxTracks
TracksOK == tracks \in Seq(TrackType) /\ Len(tracks) <= MaxTracks

LEMMA Parts == TypeOK <=> ShapeOK /\ MemoryOK /\ CandsOK /\ TracksOK /\ scene \in Scene
BY DEF TypeOK, MemoryOK, CandsOK, TracksOK, SlotType, GraveType, TrackType

LEMMA InitTypes ==
  ASSUME Init
  PROVE  TypeOK
<1>1. ShapeOK  BY InitInv DEF Inv
<1>2. NoTrack \in SlotType /\ NoGrave \in GraveType
  BY DEF NoTrack, NoGrave, SlotType, GraveType
<1>3. MemoryOK  BY <1>2 DEF Init, MemoryOK
<1>4. CandsOK /\ TracksOK  BY DEF Init, CandsOK, TracksOK
<1>5. scene \in Scene  BY DEF Init, Nothing, Scene
<1> QED  BY <1>1, <1>3, <1>4, <1>5, Parts

LEMMA UpdateTypes ==
  ASSUME TypeOK, NEW dt \in Steps, Update(dt)
  PROVE  MemoryOK' /\ CandsOK'
<1>0. MemoryOK /\ scene \in Scene /\ dt \in Nat  BY Parts
<1>1. MemoryOK'
  <2>1. ASSUME NEW i \in Places
        PROVE  (IF slots[i].used THEN AgedTrack(slots[i], dt) ELSE slots[i])
                 \in SlotType
    <3>1. slots[i] \in SlotType /\ slots[i].age \in Nat
      BY <1>0 DEF MemoryOK, SlotType
    <3>2. Older(slots[i].age, dt) \in Nat  BY <3>1, <1>0, OlderType
    <3>3. AgedTrack(slots[i], dt) \in SlotType
      <4> DEFINE old == Older(slots[i].age, dt)
                 yes == TRUE
      <4>1. AgedTrack(slots[i], dt) =
              [used |-> yes, closeness |-> slots[i].closeness,
               azimuth |-> slots[i].azimuth, age |-> old, id |-> slots[i].id]
        BY DEF AgedTrack
      <4>2. old \in Nat /\ yes \in BOOLEAN  BY <3>2
      <4> HIDE DEF old, yes
      <4> QED  BY <3>1, <4>1, <4>2 DEF SlotType
    <3> QED  BY <3>1, <3>3
  <2>2. ASSUME NEW g \in Tombs
        PROVE  (IF graves[g].id # 0 THEN AgedGrave(graves[g], dt) ELSE graves[g])
                 \in GraveType
    <3>1. graves[g] \in GraveType /\ graves[g].age \in Nat
      BY <1>0 DEF MemoryOK, GraveType
    <3>2. Older(graves[g].age, dt) \in Nat  BY <3>1, <1>0, OlderType
    <3>3. AgedGrave(graves[g], dt) \in GraveType
      BY <3>1, <3>2 DEF AgedGrave, GraveType
    <3> QED  BY <3>1, <3>3
  <2> QED  BY <2>1, <2>2 DEF Update, MemoryOK
<1>2. CandsOK'
  <2>1. scene.cam0 \in Seq(Blob) /\ scene.cam1 \in Seq(Blob)
    BY <1>0 DEF Scene
  <2>2. PICK mates \in Pairings(scene.cam0, scene.cam1) :
          \E t \in Ranked(Merged(scene.cam0, scene.cam1, mates)) :
            cands' = IF Len(t) > MaxTracks THEN SubSeq(t, 1, MaxTracks) ELSE t
    BY DEF Update
  <2>3. PICK t \in Ranked(Merged(scene.cam0, scene.cam1, mates)) :
          cands' = IF Len(t) > MaxTracks THEN SubSeq(t, 1, MaxTracks) ELSE t
    BY <2>2
  <2>4. PICK D : IsFiniteSet(D) /\ Merged(scene.cam0, scene.cam1, mates) \in [D -> Blob]
    BY <2>1, MergedType
  <2>5. t \in Seq(Blob)  BY <2>3, <2>4, RankedType
  <2>6. CASE Len(t) > MaxTracks
    <3>1. /\ SubSeq(t, 1, MaxTracks) \in Seq(Blob)
          /\ Len(SubSeq(t, 1, MaxTracks)) = MaxTracks
      BY <2>5, <2>6
    <3> QED  BY <2>3, <2>6, <3>1 DEF CandsOK
  <2>7. CASE ~(Len(t) > MaxTracks)
    BY <2>3, <2>5, <2>7 DEF CandsOK
  <2> QED  BY <2>6, <2>7
<1> QED  BY <1>1, <1>2

LEMMA CandidateTypes ==
  ASSUME TypeOK, Associating
  PROVE  Head(cands) \in Blob /\ CandsOK'
<1>1. cands \in Seq(Blob) /\ cands # <<>> /\ cands' = Tail(cands)
      /\ Len(cands) <= MaxTracks
  BY Parts DEF CandsOK, Associating
<1>2. Head(cands) \in Blob /\ Tail(cands) \in Seq(Blob)
      /\ Len(Tail(cands)) = Len(cands) - 1
  BY <1>1
<1>3. Len(cands) \in Nat  BY <1>1
<1> QED  BY <1>1, <1>2, <1>3 DEF CandsOK

LEMMA HitTypes ==
  ASSUME TypeOK, NEW i \in Places, NEW c \in Blob, Hit(i, c)
  PROVE  MemoryOK'
<1>0. MemoryOK  BY Parts
<1>1. /\ slots[i].closeness \in Int /\ slots[i].azimuth \in Int
      /\ slots[i].id \in Nat /\ c.closeness \in Int /\ c.azimuth \in Int
  BY <1>0 DEF MemoryOK, SlotType, Blob
<1> DEFINE cl == Smooth(slots[i].closeness, c.closeness)
           az == Smooth(slots[i].azimuth, c.azimuth)
           id == slots[i].id
           yes == TRUE
           hit == [used |-> yes, closeness |-> cl, azimuth |-> az, age |-> 0,
                   id |-> id]
<1>2. cl \in Int /\ az \in Int /\ id \in Nat /\ yes \in BOOLEAN
  BY <1>1, SmoothType
<1>3. slots' = [slots EXCEPT ![i] = hit] /\ graves' = graves  BY DEF Hit
<1> HIDE DEF cl, az, id, yes
<1>4. hit \in SlotType  BY <1>2 DEF SlotType
<1> HIDE DEF hit
<1> QED  BY <1>0, <1>3, <1>4 DEF MemoryOK

LEMMA BornTypes ==
  ASSUME TypeOK, NEW i \in Places, NEW c \in Blob, NEW id \in Nat, Born(i, c, id)
  PROVE  slots' \in [Places -> SlotType]
<1>0. MemoryOK  BY Parts
<1> DEFINE yes == TRUE
           new == [used |-> yes, closeness |-> c.closeness,
                   azimuth |-> c.azimuth, age |-> 0, id |-> id]
<1>1. slots' = [slots EXCEPT ![i] = new]  BY DEF Born
<1>2. c.closeness \in Int /\ c.azimuth \in Int /\ yes \in BOOLEAN  BY DEF Blob
<1> HIDE DEF yes
<1>3. new \in SlotType  BY <1>2 DEF SlotType
<1> HIDE DEF new
<1> QED  BY <1>0, <1>1, <1>3 DEF MemoryOK

LEMMA BirthTypes ==
  ASSUME TypeOK, NEW i \in Places, NEW c \in Blob, Birth(i, c)
  PROVE  MemoryOK'
<1>0. MemoryOK /\ nextId \in Nat  BY Parts DEF ShapeOK
<1>1. CASE Inherit(i, c)
  <2>1. PICK g \in Haunting(c) : /\ Born(i, c, graves[g].id)
                                 /\ graves' = [graves EXCEPT ![g] = NoGrave]
    BY <1>1 DEF Inherit
  <2>2. g \in Tombs  BY DEF Haunting
  <2>3. graves[g].id \in Nat  BY <1>0, <2>2 DEF MemoryOK, GraveType
  <2>4. NoGrave \in GraveType  BY DEF NoGrave, GraveType
  <2> QED  BY <1>0, <2>1, <2>2, <2>3, <2>4, BornTypes DEF MemoryOK
<1>2. CASE Fresh(i, c)
  BY <1>0, <1>2, BornTypes DEF Fresh, MemoryOK
<1> QED  BY <1>1, <1>2 DEF Birth

LEMMA BuryTypes ==
  ASSUME TypeOK, Bury
  PROVE  MemoryOK'
<1>0. MemoryOK  BY Parts
<1> DEFINE dead(i) == [id |-> slots[i].id, azimuth |-> slots[i].azimuth, age |-> 0]
<1>1. PICK i \in Expired : /\ graves' = [graves EXCEPT ![graveNext] = dead(i)]
                           /\ slots' = [slots EXCEPT ![i] = NoTrack]
  BY DEF Bury
<1>2. i \in Places  BY DEF Expired, Unmatched
<1>3. dead(i) \in GraveType
  BY <1>0, <1>2 DEF MemoryOK, SlotType, GraveType
<1>4. NoTrack \in SlotType  BY DEF NoTrack, SlotType
<1> HIDE DEF dead
<1> QED  BY <1>0, <1>1, <1>3, <1>4 DEF MemoryOK

(* The live tracks are returned, so no more than there are places.         *)
LEMMA RankTypes ==
  ASSUME TypeOK, Rank
  PROVE  TracksOK'
<1>0. MemoryOK  BY Parts
<1>1. Live \subseteq Places  BY DEF Live
<1>2. IsFiniteSet(Places) /\ Cardinality(Places) = MaxTracks
  <2>1. 0 \in Int /\ MaxTracks - 1 \in Int /\ ~(0 > MaxTracks - 1)
        /\ MaxTracks - 1 - 0 + 1 = MaxTracks
    OBVIOUS
  <2> QED  BY <2>1, FS_Interval DEF Places
<1>3. IsFiniteSet(Live) /\ Cardinality(Live) <= MaxTracks
  BY <1>1, <1>2, FS_Subset
<1>4. [i \in Live |-> Shown(i)] \in [Live -> TrackType]
  BY <1>0, <1>1 DEF Shown, TrackType, MemoryOK, SlotType
<1>5. tracks' \in Ranked([i \in Live |-> Shown(i)])  BY DEF Rank
<1>6. tracks' \in Seq(TrackType) /\ Len(tracks') = Cardinality(Live)
  BY <1>3, <1>4, <1>5, RankedType
<1> QED  BY <1>3, <1>6 DEF TracksOK

LEMMA NextTypes ==
  ASSUME Inv, TypeOK, [Next]_vars
  PROVE  TypeOK'
<1>0. ShapeOK' /\ MemoryOK /\ CandsOK /\ TracksOK /\ scene \in Scene
  BY NextGood, Parts DEF Good, Inv
<1> SUFFICES MemoryOK' /\ CandsOK' /\ TracksOK' /\ scene' \in Scene
  BY <1>0 DEF TypeOK, MemoryOK, CandsOK, TracksOK, SlotType, GraveType, TrackType
<1>1. ASSUME NEW dt \in Steps, Update(dt)
      PROVE  MemoryOK' /\ CandsOK' /\ TracksOK' /\ scene' \in Scene
  <2>1. tracks' = tracks /\ scene' = scene  BY <1>1 DEF Update
  <2> QED  BY <1>0, <1>1, <2>1, UpdateTypes DEF TracksOK
<1>2. CASE Associating
  <2>1. tracks' = tracks /\ scene' = scene  BY <1>2 DEF Associating
  <2>2. Head(cands) \in Blob /\ CandsOK'  BY <1>2, CandidateTypes
  <2>3. MemoryOK'
    <3>1. CASE Follow
      <4>1. PICK i \in InGate(Head(cands)) : Hit(i, Head(cands))  BY <3>1 DEF Follow
      <4>2. i \in Places  BY DEF InGate, Within, Unmatched
      <4> QED  BY <2>2, <4>1, <4>2, HitTypes
    <3>2. CASE Adopt
      <4>1. PICK i \in InSeam(Head(cands)) : Hit(i, Head(cands))  BY <3>2 DEF Adopt
      <4>2. i \in Places  BY DEF InSeam, Within, Coasting, Unmatched
      <4> QED  BY <2>2, <4>1, <4>2, HitTypes
    <3>3. CASE Occupy
      <4>1. PICK i \in FreePlaces : Birth(i, Head(cands))  BY <3>3 DEF Occupy
      <4> QED  BY <2>2, <4>1, BirthTypes DEF FreePlaces
    <3>4. CASE Evict
      <4>1. PICK i \in Unmatched : Birth(i, Head(cands))  BY <3>4 DEF Evict
      <4> QED  BY <2>2, <4>1, BirthTypes DEF Unmatched
    <3>5. CASE Refuse
      BY <1>0, <3>5 DEF Refuse, MemoryOK
    <3>6. Follow \/ Adopt \/ Occupy \/ Evict \/ Refuse
      BY <1>2 DEF Next, Step, Associating, Update, Bury, Rank, Look, vars
    <3> QED  BY <3>1, <3>2, <3>3, <3>4, <3>5, <3>6
  <2> QED  BY <1>0, <2>1, <2>2, <2>3 DEF TracksOK
<1>3. CASE Bury
  <2>1. tracks' = tracks /\ scene' = scene /\ cands' = cands  BY <1>3 DEF Bury
  <2> QED  BY <1>0, <1>3, <2>1, BuryTypes DEF TracksOK, CandsOK
<1>4. CASE Rank
  <2>1. slots' = slots /\ graves' = graves /\ scene' = scene /\ cands' = cands
    BY <1>4 DEF Rank, memory
  <2> QED  BY <1>0, <1>4, <2>1, RankTypes DEF MemoryOK, CandsOK
<1>5. CASE Look
  <2>1. scene' \in Scene  BY <1>5, ScenesAssumption DEF Look
  <2>2. slots' = slots /\ graves' = graves /\ tracks' = tracks /\ cands' = cands
    BY <1>5 DEF Look, memory
  <2> QED  BY <1>0, <2>1, <2>2 DEF MemoryOK, CandsOK, TracksOK
<1>6. CASE UNCHANGED vars
  BY <1>0, <1>6 DEF vars, memory, MemoryOK, CandsOK, TracksOK
<1> QED
  BY <1>1, <1>2, <1>3, <1>4, <1>5, <1>6 DEF Next, Step, Follow, Adopt, Occupy,
    Evict, Refuse

(* Every variable keeps its type; no more candidates are considered and no *)
(* more tracks returned than there are places (fusion.cpp:61, :141).       *)
THEOREM TypeCorrect == Spec => []TypeOK
<1>1. Init => TypeOK  BY InitTypes
<1>2. Inv /\ TypeOK /\ [Next]_vars => TypeOK'  BY NextTypes
<1>3. Spec => []Inv  BY Identity, PTL DEF Inv
<1> QED  BY <1>1, <1>2, <1>3, PTL DEF Spec

(* fusion.cpp:23-54: whatever the cameras report, the overlap is merged    *)
(* once: no blob twice, and no two within the gate of which neither is     *)
(* merged.                                                                 *)
THEOREM MergedOnce == Spec => []OverlapMerged
<1>1. TypeOK => OverlapMerged  BY Overlap, Parts
<1> QED  BY <1>1, TypeCorrect, PTL
=============================================================================
