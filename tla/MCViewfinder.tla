----------------------------- MODULE MCViewfinder -----------------------------
(* One and two cameras, with and without a display; workers for some of the  *)
(* streams, some of whose rings were left behind.                            *)
EXTENDS Viewfinder

Line(display, depth, cameras, workers) ==
  [display |-> display, depth |-> depth, cameras |-> cameras, workers |-> workers]
SomeOptions ==
  { Line(TRUE, FALSE, 2, {<<"rect", "B">>}), Line(TRUE, FALSE, 1, {<<"rect", "A">>}),
    Line(TRUE, FALSE, 1, {<<"det", "A">>}), Line(TRUE, TRUE, 1, {<<"depth", "A">>}),
    Line(FALSE, TRUE, 2, {}) }
SomeLeftOver == {<<"rect", "A">>, <<"det", "A">>}
SomeRaw == [c \in Cameras |-> IF c = "A" THEN 2 ELSE 1]
===============================================================================
