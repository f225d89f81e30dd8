----------------------------- MODULE Radar_proof -----------------------------
(***************************************************************************)
(* The radar prototype for any list of obstacles, any intervals and any    *)
(* clock.  Inv says how the announced obstacle, its key and the last       *)
(* announcement hang together, and that the program's timer runs with the  *)
(* listener's clock for as long as an obstacle is followed, without which  *)
(* Cadence, which speaks of the listener, could not be kept.  That an obstacle is      *)
(* chosen whenever one counts takes the least number principle: of the     *)
(* obstacles of the highest priority, the first.                           *)
(***************************************************************************)
EXTENDS Radar, TLAPS, WellFoundedInduction

Obstacles == [label : STRING, pan : Int, closeness : 0 .. 100,
              urgency : Int, confidence : Int]

-----------------------------------------------------------------------------
(* Least numbers.                                                          *)
Less == {p \in Nat \X Nat : p[1] < p[2]}

LEMMA LessWellFounded == IsWellFoundedOn(Less, Nat)
BY NatLessThanWellFounded, Zenon DEF OpToRel, Less

LEMMA Least ==
  ASSUME NEW T, T \subseteq Nat, T # {}
  PROVE  \E x \in T : \A y \in T : x <= y
<1>1. PICK x \in T : \A y \in T : <<y, x>> \notin Less
  BY LessWellFounded, WFMin
<1>2. \A y \in T : ~ (y < x)  BY <1>1 DEF Less
<1> QED  BY <1>2

(* What is chosen, if anything, counts, and no obstacle of the list that   *)
(* counts has a higher priority; and something is chosen if one counts.    *)
LEMMA ChosenCounts ==
  ASSUME NEW s, Chosen(s) # Nobody
  PROVE  /\ Counts(Chosen(s))
         /\ \E i \in DOMAIN s : Chosen(s) = s[i]
         /\ \A j \in DOMAIN s : Counts(s[j]) =>
              \/ Priority(Chosen(s)) > Priority(s[j])
              \/ Priority(Chosen(s)) = Priority(s[j])
<1> DEFINE best == { i \in DOMAIN s :
                  /\ Counts(s[i])
                  /\ \A j \in DOMAIN s :
                       Counts(s[j]) => \/ Priority(s[i]) > Priority(s[j])
                                       \/ Priority(s[i]) = Priority(s[j]) /\ i <= j }
           k == CHOOSE i \in best : TRUE
<1>1. best # {} /\ Chosen(s) = s[k]  BY DEF Chosen
<1>2. k \in best  BY <1>1
<1> HIDE DEF k
<1> QED  BY <1>1, <1>2

(* The scores of each urgency form a band, and the bands do not meet.      *)
Percent == 0 .. 100
Scores  == 0 .. 6700
Low(u)  == u * 2000
High(u) == u * 2000 + 700

LEMMA ScoreType ==
  ASSUME NEW u \in 0 .. 3, NEW p \in Percent, NEW c \in Percent, NEW l \in Percent
  PROVE  /\ Score(u, p, c, l) \in Scores
         /\ Score(u, p, c, l) >= Low(u)
         /\ Score(u, p, c, l) <= High(u)
<1>1. u * 2000 \in 0 .. 6000  OBVIOUS
<1>2. 100 - p \in 0 .. 100  BY DEF Percent
<1>3. (100 - p) * 4 \in 0 .. 400  BY <1>2
<1>4. c * 2 \in 0 .. 200 /\ l \in 0 .. 100  BY DEF Percent
<1> DEFINE a == u * 2000
           b == (100 - p) * 4
           d == c * 2
<1>5. a \in 0 .. 6000 /\ b \in 0 .. 400 /\ d \in 0 .. 200 /\ l \in 0 .. 100
  BY <1>1, <1>3, <1>4
<1> HIDE DEF a, b, d
<1>6. a + b + d + l \in 0 .. 6700 /\ a + b + d + l >= a /\ a + b + d + l <= a + 700
  BY <1>5
<1> QED  BY <1>6 DEF a, b, d, Score, Scores, Low, High

LEMMA Bands ==
  ASSUME NEW u \in 0 .. 3, NEW v \in 0 .. 3, NEW x \in Scores, NEW y \in Scores,
         x <= High(u), Low(v) <= y, x > y \/ x = y
  PROVE  u >= v
BY DEF Scores, Low, High

LEMMA AtLeast == ASSUME NEW x \in Scores, NEW u \in 0 .. 3 PROVE x >= Low(u) <=> Low(u) <= x
BY DEF Scores, Low

LEMMA Differences ==
  \A x \in Scores : 6700 - x \in Nat /\ x \in Int
BY DEF Scores

(* More urgent outweighs everything else.                                  *)
LEMMA ScoreOrder ==
  ASSUME NEW u \in 0 .. 3, NEW p \in Percent, NEW c \in Percent, NEW l \in Percent,
         NEW v \in 0 .. 3, NEW q \in Percent, NEW d \in Percent, NEW m \in Percent,
         Score(u, p, c, l) > Score(v, q, d, m) \/ Score(u, p, c, l) = Score(v, q, d, m)
  PROVE  u >= v
<1>1. Score(u, p, c, l) \in Scores /\ Score(u, p, c, l) <= High(u)
  BY ScoreType, Zenon
<1>2. Score(v, q, d, m) \in Scores /\ Low(v) <= Score(v, q, d, m)
  BY ScoreType, AtLeast, Zenon
<1> QED  BY <1>1, <1>2, Bands, Zenon

LEMMA OffType == \A p \in -100 .. 100 : Off(p) \in Percent
BY DEF Off, Percent

LEMMA Positive == \A u \in 0 .. 3 : u # 0 => u \in 1 .. 3
OBVIOUS

LEMMA CountsType ==
  ASSUME NEW o \in Obstacles, Counts(o)
  PROVE  /\ o.urgency \in 0 .. 3 /\ Off(o.pan) \in Percent
         /\ o.confidence \in Percent /\ o.closeness \in Percent
<1>1. /\ o.urgency \in 0 .. 3 /\ o.pan \in -100 .. 100 /\ o.confidence \in Percent
  BY Zenon DEF Counts, IsValid, Percent
<1>2. o.closeness \in Percent  BY DEF Obstacles, Percent
<1> QED  BY <1>1, <1>2, OffType, Zenon

LEMMA PriorityType ==
  ASSUME NEW o \in Obstacles, Counts(o)
  PROVE  Priority(o) \in Scores
BY CountsType, ScoreType, Zenon DEF Priority

LEMMA NobodyCounts == ~Counts(Nobody)
BY DEF Counts, IsValid, Nobody

LEMMA SomeoneChosen ==
  ASSUME NEW s \in Seq(Obstacles), NEW i \in DOMAIN s, Counts(s[i])
  PROVE  Chosen(s) # Nobody
<1> DEFINE C == { j \in DOMAIN s : Counts(s[j]) }
           Rank(j) == 6700 - Priority(s[j])
           R == { Rank(j) : j \in C }
<1>1. \A j \in C : s[j] \in Obstacles /\ j \in Nat  OBVIOUS
<1>2. \A j \in C : Priority(s[j]) \in Scores /\ Rank(j) \in Nat
  <2> TAKE j \in C
  <2>1. s[j] \in Obstacles /\ Counts(s[j])  BY <1>1
  <2>2. Priority(s[j]) \in Scores  BY <2>1, PriorityType, Zenon
  <2> QED  BY <2>2, Differences
<1>3. PICK r \in R : \A q \in R : r <= q
  <2>1. R \subseteq Nat /\ R # {}  BY <1>2
  <2> HIDE DEF R
  <2> QED  BY <2>1, Least
<1> DEFINE F == { j \in C : Rank(j) = r }
<1>4. PICK f \in F : \A j \in F : f <= j
  <2>1. F \subseteq Nat /\ F # {}  BY <1>1, <1>3
  <2> HIDE DEF F
  <2>2. \E x \in F : \A y \in F : x <= y  BY <2>1, Least
  <2> QED  BY <2>2
<1>5. \A j \in C : \/ Priority(s[f]) > Priority(s[j])
                   \/ Priority(s[f]) = Priority(s[j]) /\ f <= j
  <2> SUFFICES ASSUME NEW j \in C
               PROVE  \/ Priority(s[f]) > Priority(s[j])
                      \/ Priority(s[f]) = Priority(s[j]) /\ f <= j
    OBVIOUS
  <2>1. Rank(f) <= Rank(j)  BY <1>3, <1>4
  <2>2. Priority(s[f]) \in Int /\ Priority(s[j]) \in Int
    <3>1. f \in C /\ j \in C  BY <1>4
    <3> QED  BY <1>2, <3>1, Differences
  <2>3. CASE Rank(j) = r  BY <2>3, <2>2, <1>3, <1>4
  <2>4. CASE Rank(j) # r  BY <2>4, <2>1, <2>2, <1>3, <1>4
  <2> QED  BY <2>3, <2>4
<1> DEFINE best == { k \in DOMAIN s :
                  /\ Counts(s[k])
                  /\ \A j \in DOMAIN s :
                       Counts(s[j]) => \/ Priority(s[k]) > Priority(s[j])
                                       \/ Priority(s[k]) = Priority(s[j]) /\ k <= j }
           b == CHOOSE k \in best : TRUE
<1>6. f \in best  BY <1>4, <1>5
<1>7. b \in best /\ Chosen(s) = s[b]  BY <1>6 DEF Chosen
<1> HIDE DEF b
<1>8. Counts(Chosen(s))  BY <1>7
<1> QED  BY <1>8, NobodyCounts

-----------------------------------------------------------------------------
USE IntervalAssumption, DelaysAssumption

LEMMA LongestIsLongest ==
  Longest \in Nat /\ \A u \in 1 .. 3 : Interval[u] \in Nat \ {0} /\ Longest >= Interval[u]
<1>1. Interval[1] \in Nat \ {0} /\ Interval[2] \in Nat \ {0} /\ Interval[3] \in Nat \ {0}
  OBVIOUS
<1>2. \E n \in {Interval[u] : u \in 1 .. 3} : \A u \in 1 .. 3 : n >= Interval[u]
  <2>1. PICK m \in 1 .. 3 : /\ Interval[m] >= Interval[1]
                            /\ Interval[m] >= Interval[2]
                            /\ Interval[m] >= Interval[3]
    BY <1>1
  <2>2. \A u \in 1 .. 3 : Interval[m] >= Interval[u]
    BY <2>1
  <2> QED  BY <2>2
<1>3. \A u \in 1 .. 3 : Longest \in {Interval[v] : v \in 1 .. 3} /\ Longest >= Interval[u]
  BY <1>2 DEF Longest
<1> QED  BY <1>1, <1>3

LEMMA Zeros ==
  /\ 0 \in 0 .. Longest /\ 0 \in 0 .. 3 /\ FALSE \in BOOLEAN
  /\ <<"", "">>[2] \in {"", "left", "center", "right"}
BY LongestIsLongest

LEMMA ClockType ==
  ASSUME NEW t \in 0 .. Longest, NEW d \in Delays
  PROVE  Later(t, d) \in 0 .. Longest
BY LongestIsLongest DEF Later

(* The key is that of the obstacle followed and is what was said last;     *)
(* nothing sounds without an obstacle, and no ping is for none; while one  *)
(* is followed lastPingTime is when a ping was last heard.                 *)
Inv ==
  /\ TypeOK
  /\ active # Nobody => key = MakeObstacleKey(active) /\ said = key
  /\ active = Nobody => ~sounding /\ out.ping = 0
  /\ active # Nobody => quiet = since

LEMMA InitInv == Init => Inv /\ Cadence
<1> SUFFICES ASSUME Init PROVE Inv /\ Cadence  OBVIOUS
<1>1. /\ active = Nobody /\ key = <<"", "">> /\ since = 0 /\ sounding = FALSE /\ out.ping = 0
      /\ quiet = 0
  BY DEF Init, Mute, NoKey
<1> QED  BY <1>1, Zeros, Zenon DEF Inv, TypeOK, Cadence

LEMMA LoseKeeps ==
  ASSUME Inv, NEW s, NEW d \in Delays, Lose(s, d)
  PROVE  Inv' /\ Cadence'
<1>1. Later(since, d) \in 0 .. Longest /\ Later(quiet, d) \in 0 .. Longest
  BY ClockType DEF Inv, TypeOK
<1>2. /\ active' = Nobody /\ key' = <<"", "">> /\ since' \in 0 .. Longest
      /\ quiet' \in 0 .. Longest
      /\ sounding' = FALSE /\ out'.ping = 0
  BY <1>1 DEF Lose, Inv, TypeOK, Mute, NoKey
<1> QED  BY <1>2, Zeros, Zenon DEF Inv, TypeOK, Cadence

LEMMA FollowKeeps ==
  ASSUME Inv, NEW s, NEW d \in Delays, Follow(s, d)
  PROVE  Inv' /\ Cadence'
<1> DEFINE o == Chosen(s)
<1>1. Later(since, d) \in 0 .. Longest /\ Later(quiet, d) \in 0 .. Longest
  BY ClockType DEF Inv, TypeOK
<1>2. o # Nobody /\ IsValid(o) /\ o.urgency \in 1 .. 3 /\ o.label # ""
  <2>1. o # Nobody  BY DEF Follow
  <2>2. Counts(o)  BY <2>1, ChosenCounts, Zenon
  <2> QED  BY <2>1, <2>2, Positive, Zenon DEF Counts, IsValid
<1>3. Interval[o.urgency] \in Nat \ {0} /\ Longest >= Interval[o.urgency]
  BY <1>2, LongestIsLongest
<1> HIDE DEF o
<1>4. /\ active' = o /\ key' = MakeObstacleKey(o)
      /\ since' = IF Due(o, d) THEN 0 ELSE Elapsed(o, d)
      /\ quiet' = IF Due(o, d) THEN 0 ELSE Later(quiet, d)
      /\ out' = [speak |-> IF IsNew(o) THEN key' ELSE NoKey,
                 ping  |-> IF Due(o, d) THEN o.urgency ELSE 0,
                 gap   |-> IF Due(o, d) THEN Later(quiet, d) ELSE 0, stop |-> FALSE]
      /\ said' = IF IsNew(o) THEN key' ELSE said
      /\ sounding' = (sounding \/ out'.speak # NoKey \/ out'.ping # 0)
  BY DEF Follow, o
<1>5. key'[2] \in {"", "left", "center", "right"} /\ key' # NoKey
  BY <1>2, <1>4 DEF MakeObstacleKey, ZoneFromPan, NoKey
<1>6. said' = key'  BY <1>4 DEF IsNew, Inv
(* A new obstacle is due at once; the clocks agree on any other.           *)
<1>7. IsNew(o) => Due(o, d)  BY <1>3 DEF Due, Elapsed
<1>8. ~IsNew(o) => Elapsed(o, d) = Later(since, d) /\ Later(since, d) = Later(quiet, d)
  BY DEF Elapsed, IsNew, Inv
<1>9. since' \in 0 .. Longest /\ quiet' \in 0 .. Longest /\ quiet' = since'
  <2>1. CASE Due(o, d)  BY <2>1, <1>4, LongestIsLongest
  <2>2. CASE ~Due(o, d)  BY <2>2, <1>1, <1>4, <1>7, <1>8
  <2> QED  BY <2>1, <2>2
<1>10. sounding' \in BOOLEAN
  BY <1>4
<1>11. Inv'
  <2>1. out'.ping \in 0 .. 3
    <3>1. out'.ping = o.urgency \/ out'.ping = 0  BY <1>4
    <3>2. 0 \in 0 .. 3 /\ \A u \in 1 .. 3 : u \in 0 .. 3  OBVIOUS
    <3> QED  BY <3>1, <3>2, <1>2, Zenon
  <2>2. TypeOK'  BY <2>1, <1>2, <1>4, <1>5, <1>9, <1>10 DEF TypeOK
  <2> QED  BY <2>2, <1>2, <1>4, <1>6, <1>9 DEF Inv
<1>12. out'.speak # NoKey => IsNew(o)  BY <1>4
<1>13. out'.speak = NoKey => ~IsNew(o)  BY <1>4, <1>5
<1>14. Cadence'
  <2>1. CASE Due(o, d)
    <3>1. out'.ping # 0 /\ out'.gap = Later(quiet, d)
      <4>1. out'.ping = o.urgency /\ out'.gap = Later(quiet, d)  BY <2>1, <1>4
      <4>2. \A u \in 1 .. 3 : u # 0  OBVIOUS
      <4> QED  BY <4>1, <4>2, <1>2, Zenon
    <3>2. ~IsNew(o) => Later(quiet, d) >= Interval[o.urgency]
      BY <2>1, <1>8 DEF Due
    <3> QED  BY <3>1, <3>2, <1>4, <1>13 DEF Cadence
  <2>2. CASE ~Due(o, d)
    <3>1. out'.ping = 0 /\ quiet' = Later(quiet, d) /\ ~IsNew(o) /\ out'.speak = NoKey
      BY <2>2, <1>4, <1>7
    <3>2. Later(quiet, d) < Interval[o.urgency]
      BY <2>2, <3>1, <1>1, <1>3, <1>8 DEF Due
    <3> QED  BY <3>1, <3>2, <1>4 DEF Cadence
  <2> QED  BY <2>1, <2>2
<1> QED  BY <1>11, <1>14

LEMMA NextKeeps ==
  ASSUME Inv, Cadence, [Next]_vars
  PROVE  Inv' /\ Cadence'
<1>1. CASE Update  BY <1>1, LoseKeeps, FollowKeeps DEF Update
<1>2. CASE Reset
  <2>1. /\ active' = Nobody /\ key' = <<"", "">> /\ since' \in 0 .. Longest
        /\ quiet' \in 0 .. Longest /\ sounding' = FALSE /\ out'.ping = 0
    BY <1>2 DEF Reset, Inv, TypeOK, Mute, NoKey
  <2> QED  BY <2>1, Zeros, Zenon DEF Inv, TypeOK, Cadence
<1>3. CASE UNCHANGED vars  BY <1>3 DEF vars, Inv, TypeOK, Cadence
<1> QED  BY <1>1, <1>2, <1>3 DEF Next

(* The whole of it: after every update the types, the key, the last        *)
(* announcement and the clocks of the obstacle followed agree, and the     *)
(* pings are in time.                                                      *)
THEOREM Invariance == Spec => [](Inv /\ Cadence)
<1>1. Inv /\ Cadence /\ [Next]_vars => (Inv /\ Cadence)'  BY NextKeeps
<1> QED  BY InitInv, <1>1, PTL DEF Spec

(* AudioManager.cpp:63-79, :134-184: by the listener's clock an obstacle   *)
(* is announced with a ping, and the next comes when the interval of its   *)
(* urgency by then has passed and not before.                              *)
THEOREM PingsInTime == Spec => []Cadence
BY Invariance, PTL

(* AudioManager.cpp:120-129, :136-147: a ping is for what was said last,   *)
(* on its side, and no sound outlasts its obstacle.                        *)
THEOREM EverySoundHasCause == Spec => []SoundHasCause
<1>1. Inv => SoundHasCause
  <2> SUFFICES ASSUME Inv, out.ping # 0 
               PROVE  /\ said[1] = active.label
                      /\ said[2] = "left" => active.pan < -35
                      /\ said[2] = "right" => active.pan > 35
                      /\ said[2] = "center" => active.pan \in -35 .. 35
    BY DEF Inv, SoundHasCause
  <2>1. active # Nobody /\ said = MakeObstacleKey(active)  BY DEF Inv
  <2>2. active.pan \in -100 .. 100  BY <2>1 DEF Inv, TypeOK, IsValid
  <2> QED  BY <2>1, <2>2 DEF MakeObstacleKey, ZoneFromPan
<1> QED  BY Invariance, <1>1, PTL

-----------------------------------------------------------------------------
(* What is followed after an update was chosen from the list it was given. *)
Followed == \/ scene = << >>
            \/ scene \in Scenes /\ active = Chosen(scene)

LEMMA FollowedInit == Init => Followed
BY DEF Init, Followed

LEMMA FollowedStep == Followed /\ [Next]_vars => Followed'
<1> SUFFICES ASSUME Followed, [Next]_vars PROVE Followed'  OBVIOUS
<1>1. CASE Update
  <2>1. PICK s \in Scenes, d \in Delays : scene' = s /\ (Lose(s, d) \/ Follow(s, d))
    BY <1>1 DEF Update
  <2> QED  BY <2>1 DEF Lose, Follow, Followed
<1>2. CASE Reset  BY <1>2 DEF Reset, Followed
<1>3. CASE UNCHANGED vars  BY <1>3 DEF vars, Followed
<1> QED  BY <1>1, <1>2, <1>3 DEF Next

(* AudioManager.cpp:47-61, :81-112: no obstacle is passed over for a less  *)
(* urgent one.                                                             *)
THEOREM UrgencyRules == Spec => []MostUrgentFirst
<1>1. Followed => MostUrgentFirst
  <2> SUFFICES ASSUME Followed, NEW i \in DOMAIN scene, Counts(scene[i])
               PROVE  active.urgency >= scene[i].urgency
    BY DEF MostUrgentFirst
  <2>1. scene \in Seq(Obstacles) /\ active = Chosen(scene)
    BY ScenesAssumption DEF Followed, Obstacles
  <2>2. active # Nobody  BY <2>1, SomeoneChosen
  <2>3. /\ Counts(active) /\ active \in Obstacles
        /\ Priority(active) > Priority(scene[i]) \/ Priority(active) = Priority(scene[i])
    BY <2>1, <2>2, ChosenCounts
  <2>4. scene[i] \in Obstacles  BY <2>1
  <2> QED  BY <2>3, <2>4, CountsType, ScoreOrder, Zenon DEF Priority
<1> QED  BY FollowedInit, FollowedStep, <1>1, PTL DEF Spec
===============================================================================
