------------------------------ MODULE MCTracker ------------------------------
(***************************************************************************)
(* Small scenes for the model checker: a blob is [closeness, azimuth] in   *)
(* percent and degrees, a scene what each camera reports.                  *)
(***************************************************************************)
EXTENDS Tracker

Seen(c, a) == [closeness |-> c, azimuth |-> a]
Views(c0, c1) == [cam0 |-> c0, cam1 |-> c1]

(* One object crossing the seam; two near each other on the right; three   *)
(* at once, more than the table holds; and nothing at all.                 *)
Crossing ==
  { Nothing,
    Views(<<Seen(40, -15)>>, <<>>),
    Views(<<Seen(40, -15)>>, <<Seen(60, 5)>>),
    Views(<<>>, <<Seen(40, 20)>>),
    Views(<<>>, <<Seen(90, 80), Seen(50, 65)>>),
    Views(<<Seen(50, -80), Seen(70, -30)>>, <<Seen(90, 80)>>) }

(* Several blobs of each camera within the reach of one of the other.      *)
Overlapping ==
  { Views(<<Seen(80, 0), Seen(60, 15)>>, <<Seen(70, 15)>>),
    Views(<<Seen(80, 15)>>, <<Seen(70, 0), Seen(50, 20)>>),
    Views(<<Seen(80, 15), Seen(60, 0)>>, <<Seen(70, 20), Seen(50, 15)>>),
    Views(<<Seen(80, 20), Seen(60, 0)>>, <<Seen(70, 0), Seen(50, 15)>>) }

(* The crossing, far off, the pair, and objects so near each other that    *)
(* one candidate is in reach of several tracks.                            *)
Moving ==
  { Nothing,
    Views(<<Seen(40, -60), Seen(30, -15)>>, <<>>),
    Views(<<>>, <<Seen(90, 80), Seen(50, 65)>>),
    Views(<<Seen(90, 0), Seen(60, 15)>>, <<Seen(30, 35)>>),
    Views(<<Seen(60, 35), Seen(90, 15)>>, <<Seen(30, 0)>>) }

SomeScenes == Crossing \cup Overlapping \cup Moving
=============================================================================
