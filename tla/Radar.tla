-------------------------------- MODULE Radar --------------------------------
(***************************************************************************)
(* The radar audio prototype (audio/src): AudioManager is given a list of  *)
(* labelled obstacles every 50 ms or so, picks the one that matters most,  *)
(* says its name when it or its zone changes and pings at a rate that      *)
(* follows its urgency.  The audio output is the sequence of calls it gets *)
(* (WavAudioOutput prints them).  Pan, closeness and confidence are in     *)
(* hundredths, time is counted in updates.                                 *)
(***************************************************************************)
EXTENDS Integers, Sequences

CONSTANTS
  Scenes,      (* the lists of obstacles an update may be given            *)
  Interval,    (* per urgency 1..3: between two pings; 1000, 450, 140 ms   *)
  Delays       (* by how much the clock may move between two updates       *)

ASSUME IntervalAssumption == Interval \in [1 .. 3 -> Nat \ {0}]
ASSUME DelaysAssumption   == Delays \subseteq Nat
(* The closeness is not validated, but every caller computes a percentage. *)
ASSUME ScenesAssumption   ==
  Scenes \subseteq Seq([label : STRING, pan : Int, closeness : 0 .. 100,
                        urgency : Int, confidence : Int])

VARIABLES
  active,      (* activeObstacle                                           *)
  key,         (* activeObstacleKey                                        *)
  since,       (* time since lastPingTime                                  *)
  scene,       (* what the last update was given                           *)
  out,         (* the calls the last update made: speak, ping, stop, and   *)
               (* the listener's time since the ping before                *)
  said,        (* what was said last                                       *)
  sounding,    (* something was played since the output was stopped        *)
  quiet        (* the listener's clock: time since a ping was last heard   *)

vars == <<active, key, since, scene, out, said, sounding, quiet>>

Nobody == [label |-> "", pan |-> 0, closeness |-> 0, urgency |-> 0, confidence |-> 0]
NoKey  == <<"", "">>
Mute   == [speak |-> NoKey, ping |-> 0, gap |-> 0, stop |-> FALSE]

Init ==
  /\ active = Nobody /\ key = NoKey /\ since = 0
  /\ scene = << >> /\ out = Mute /\ said = NoKey /\ sounding = FALSE /\ quiet = 0

-----------------------------------------------------------------------------
IsValid(o) ==
  /\ o.label # "" /\ o.pan \in -100 .. 100
  /\ o.urgency \in 0 .. 3 /\ o.confidence \in 0 .. 100

ZoneFromPan(pan) == IF pan < -35 THEN "left" ELSE IF pan > 35 THEN "right" ELSE "center"

MakeObstacleKey(o) == <<o.label, ZoneFromPan(o.pan)>>

(* calculatePriority, times 20.  Mutant: urgency weighs a tenth.           *)
ScoreFlat(urgency, off, confidence, closeness) ==
  urgency * 200 + (100 - off) * 4 + confidence * 2 + closeness

Score(urgency, off, confidence, closeness) ==
  urgency * 2000 + (100 - off) * 4 + confidence * 2 + closeness

Off(pan) == IF pan < 0 THEN -pan ELSE pan
Priority(o) == Score(o.urgency, Off(o.pan), o.confidence, o.closeness)

Counts(o) == IsValid(o) /\ o.urgency # 0 /\ o.confidence >= 35

(* chooseHighestPriority: of equals the first.                             *)
Chosen(s) ==
  LET best == { i \in DOMAIN s :
                  /\ Counts(s[i])
                  /\ \A j \in DOMAIN s :
                       Counts(s[j]) => \/ Priority(s[i]) > Priority(s[j])
                                       \/ Priority(s[i]) = Priority(s[j]) /\ i <= j }
  IN  IF best = {} THEN Nobody ELSE s[CHOOSE i \in best : TRUE]

-----------------------------------------------------------------------------
(* update().  The clocks are counted up to the longest interval.           *)
Longest == CHOOSE n \in {Interval[u] : u \in 1 .. 3} : \A u \in 1 .. 3 : n >= Interval[u]
Later(t, d) == IF t + d > Longest THEN Longest ELSE t + d

Lose(s, d) ==
  /\ Chosen(s) = Nobody
  /\ active' = Nobody /\ key' = NoKey
  /\ since' = Later(since, d) /\ quiet' = Later(quiet, d)
  /\ out' = [Mute EXCEPT !.stop = active # Nobody]
  /\ sounding' = (sounding /\ active = Nobody)
  /\ UNCHANGED said

IsNew(o) == active = Nobody \/ MakeObstacleKey(o) # key

(* Of a new obstacle lastPingTime is put an interval back.                 *)
Elapsed(o, d) == IF IsNew(o) THEN Interval[o.urgency] ELSE Later(since, d)
Due(o, d)     == Elapsed(o, d) >= Interval[o.urgency]

(* Mutant: only another label is announced.                                *)
FollowLabel(s, d) ==
  LET o == Chosen(s) IN
  /\ o # Nobody
  /\ active' = o /\ key' = MakeObstacleKey(o)
  /\ since' = IF Due(o, d) THEN 0 ELSE Elapsed(o, d)
  /\ quiet' = IF Due(o, d) THEN 0 ELSE Later(quiet, d)
  /\ out' = [speak |-> IF active.label # o.label THEN key' ELSE NoKey,
             ping  |-> IF Due(o, d) THEN o.urgency ELSE 0,
             gap   |-> IF Due(o, d) THEN Later(quiet, d) ELSE 0, stop |-> FALSE]
  /\ said' = IF active.label # o.label THEN key' ELSE said
  /\ sounding' = (sounding \/ out'.speak # NoKey \/ out'.ping # 0)

(* Mutant: the time of a ping is not noted.                                *)
FollowTimeless(s, d) ==
  LET o == Chosen(s) IN
  /\ o # Nobody
  /\ active' = o /\ key' = MakeObstacleKey(o)
  /\ since' = Elapsed(o, d)
  /\ quiet' = IF Due(o, d) THEN 0 ELSE Later(quiet, d)
  /\ out' = [speak |-> IF IsNew(o) THEN key' ELSE NoKey,
             ping  |-> IF Due(o, d) THEN o.urgency ELSE 0,
             gap   |-> IF Due(o, d) THEN Later(quiet, d) ELSE 0, stop |-> FALSE]
  /\ said' = IF IsNew(o) THEN key' ELSE said
  /\ sounding' = (sounding \/ out'.speak # NoKey \/ out'.ping # 0)

Follow(s, d) ==
  LET o == Chosen(s) IN
  /\ o # Nobody
  /\ active' = o /\ key' = MakeObstacleKey(o)
  /\ since' = IF Due(o, d) THEN 0 ELSE Elapsed(o, d)
  /\ quiet' = IF Due(o, d) THEN 0 ELSE Later(quiet, d)
  /\ out' = [speak |-> IF IsNew(o) THEN key' ELSE NoKey,
             ping  |-> IF Due(o, d) THEN o.urgency ELSE 0,
             gap   |-> IF Due(o, d) THEN Later(quiet, d) ELSE 0, stop |-> FALSE]
  /\ said' = IF IsNew(o) THEN key' ELSE said
  /\ sounding' = (sounding \/ out'.speak # NoKey \/ out'.ping # 0)

Update == \E s \in Scenes, d \in Delays : scene' = s /\ (Lose(s, d) \/ Follow(s, d))

(* reset(), at the end of main().                                          *)
Reset ==
  /\ active' = Nobody /\ key' = NoKey /\ scene' = << >>
  /\ out' = [Mute EXCEPT !.stop = TRUE] /\ sounding' = FALSE
  /\ UNCHANGED <<since, said, quiet>>

Next == Update \/ Reset
Spec == Init /\ [][Next]_vars
-----------------------------------------------------------------------------
TypeOK ==
  /\ key[2] \in {"", "left", "center", "right"}
  /\ since \in 0 .. Longest /\ quiet \in 0 .. Longest
  /\ out.ping \in 0 .. 3 /\ sounding \in BOOLEAN
  /\ active # Nobody => IsValid(active) /\ active.urgency \in 1 .. 3

(* AudioManager.cpp:47-61, :81-112: an obstacle is never passed over for a *)
(* less urgent one, whatever their positions, confidences and distances.   *)
MostUrgentFirst ==
  \A i \in DOMAIN scene : Counts(scene[i]) => active.urgency >= scene[i].urgency

(* AudioManager.cpp:120-129, :136-147, :187-192: whoever hears a ping was  *)
(* told what it is for: the last announcement names the obstacle and the   *)
(* side the ping is played on.  And with no obstacle left, what was being  *)
(* played has been stopped.                                                *)
SoundHasCause ==
  /\ active = Nobody => ~sounding
  /\ out.ping # 0 =>
       /\ said[1] = active.label
       /\ said[2] = "left" => active.pan < -35
       /\ said[2] = "right" => active.pan > 35
       /\ said[2] = "center" => active.pan \in -35 .. 35

(* AudioManager.cpp:63-79, :134-184: by the clock of whoever listens, which *)
(* knows nothing of lastPingTime.  An obstacle is announced with a ping;   *)
(* unless it is announced anew, the next one comes when the interval of    *)
(* its urgency by then has passed and not before, and an update that does  *)
(* not ping leaves less silence than that behind, however the urgency      *)
(* changed on the way, and after obstacles were lost and found.            *)
Cadence ==
  active # Nobody =>
    /\ out.speak # NoKey => out.ping # 0
    /\ out.ping = 0 => quiet < Interval[active.urgency]
    /\ out.ping # 0 /\ out.speak = NoKey => out.gap >= Interval[active.urgency]
===============================================================================
