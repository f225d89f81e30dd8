------------------------------- MODULE MCRadar -------------------------------
(* Lists of up to two obstacles: the same chair at several urgencies and on  *)
(* both sides of a zone border, others, and such as do not count.            *)
EXTENDS Radar

Obstacle(label, pan, closeness, urgency, confidence) ==
  [label |-> label, pan |-> pan, closeness |-> closeness, urgency |-> urgency,
   confidence |-> confidence]
Obstacles ==
  { Obstacle("chair", -75, 70, 2, 95), Obstacle("chair", -75, 95, 3, 95),
    Obstacle("chair", -35, 70, 2, 95), Obstacle("chair", -36, 70, 1, 95),
    Obstacle("fire hydrant", 60, 80, 2, 90), Obstacle("person", 0, 100, 1, 100),
    Obstacle("person", 0, 90, 3, 34), Obstacle("person", 0, 90, 0, 90),
    Obstacle("person", 120, 90, 3, 90) }
SomeScenes == {<< >>} \cup {<<o>> : o \in Obstacles} \cup (Obstacles \X Obstacles)
SomeIntervals == <<5, 3, 2>>
===============================================================================
