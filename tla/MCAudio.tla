-------------------------------- MODULE MCAudio --------------------------------
(* A small audio loop: two cameras, a handful of reports, two ears.          *)
EXTENDS AudioLoop

Seen(c, a) == [closeness |-> c, azimuth |-> a]

(* Two neighbours on the left, at the edge of the zone, either of them the *)
(* nearer; an object to the right; and nothing.                            *)
SomeReports == [c \in Cameras |->
  IF c = 0 THEN {<<>>, <<Seen(66, -21), Seen(60, -16)>>, <<Seen(67, -16), Seen(62, -21)>>}
           ELSE {<<>>, <<Seen(62, 40)>>}]

(* The ring of an earlier run, its report stale, or still fresh but only   *)
(* just; no ring; something else of that name.                             *)
LeftOver(d, age) == [state |-> "up", any |-> TRUE, idx |-> 0, dets |-> <<d>>, age |-> age]
Foreign   == [NoRing EXCEPT !.state = "foreign"]
SomeFound == {[c \in Cameras |-> IF c = 0 THEN LeftOver(Seen(90, 0), FreshFor + 1)
                                 ELSE Foreign],
              [c \in Cameras |-> IF c = 0 THEN NoRing
                                 ELSE LeftOver(Seen(62, 40), FreshFor)]}

(* The test tone, a file that ends, and a device with and without an end.  *)
SomeSetups == {<<TRUE, "wav", 0>>, <<FALSE, "wav", 4>>, <<TRUE, "qsa", 0>>,
               <<FALSE, "qsa", 4>>, <<FALSE, "qsa", 0>>}
SomeFiles  == {[key |-> 0, ok |-> TRUE], [key |-> -15, ok |-> TRUE],
               [key |-> -30, ok |-> TRUE], [key |-> 45, ok |-> FALSE]}
===============================================================================
