---------------------------- MODULE Pipeline_proof ----------------------------
(***************************************************************************)
(* The rings and the processes of the pipeline, for any setups, any number *)
(* of restarts, kills and tries.  A process writes its own rings only      *)
(* (Only), so what it knows of them is changed by its own steps: MadeOK    *)
(* says what it has created, HandOK and PairOK what the depth worker has   *)
(* published for a frame.  RunsOK and BoundOK relate what the undistort    *)
(* worker holds and has published to the run and the index of the camera's *)
(* newest frame: nothing of the running daemon is more than one ahead of   *)
(* it, which is what keeps the next frame read from falling further back.  *)
(* ServedOK and InTurn say which rings there must be, Found what run.sh    *)
(* knows when it goes on.                                                  *)
(***************************************************************************)
EXTENDS Pipeline, TLAPS

USE DEF capture, undistort, depth, audio, Stages, Workers, Cameras

Frames   == {NoFrame} \cup [run : Nat, idx : Nat]
Statuses == {"none", "old", "blank", "made"}
RingType == [st : Statuses, newest : Frames, ahead : Frames]
RingTypes == [Rings -> RingType]
Places(s) ==
  {"off", "dead"} \cup
  (IF s = capture THEN {"zero", "fill", "run"}
   ELSE IF s = audio THEN {"run"}
   ELSE {"wait", "open", "zero", "fill"} \cup Looping)

TypeOK ==
  /\ setup \in Setups /\ ring \in RingTypes
  /\ DOMAIN at = Stages /\ \A s \in Stages : at[s] \in Places(s)
  /\ k \in [Stages -> Nat] /\ starts \in [Stages -> Nat]
  /\ cams \in [Workers -> Cameras] /\ turn \in [Workers -> Cameras]
  /\ hand \in [Workers -> Frames]

(* The loop counter of whoever has one, and the camera of a worker.        *)
Count(s) == IF s = capture THEN setup.cameras
            ELSE IF s = undistort THEN cams[s] ELSE 2 * cams[s]
Top(s) == IF at[s] \in {"zero", "fill"} THEN Count(s)
          ELSE IF at[s] = "open" THEN cams[s]
          ELSE IF at[s] \in {"write", "publish"} /\ s = depth THEN 2 ELSE 1
CountersOK ==
  /\ \A s \in Stages : k[s] \in 1 .. Top(s)
  /\ \A w \in Workers : /\ turn[w] \in 1 .. cams[w]
                        /\ at[w] \notin Looping => turn[w] = 1

(* run.sh starts a stage that was not started before.                      *)
ScriptOK ==
  /\ setup.byHand => script[1] = "none"
  /\ script[1] = "start" => script[2] \in Stages /\ \A s \in Stages : s >= script[2] => at[s] = "off"
  /\ script[1] \in {"record", "await"} =>
       script[2] \in Stages /\ \A s \in Stages : s > script[2] => at[s] = "off"
  /\ script[1] = "await" => script[2] # audio

(* What a process has made is empty until it has made all of it.           *)
Empty == [st |-> "made", newest |-> NoFrame, ahead |-> NoFrame]
MadeOK(s) ==
  /\ at[s] \in {"zero", "fill"} => \A i \in 1 .. k[s] : i < k[s] => ring[Makes(s)[i]] = Empty
  /\ at[s] = "fill" => Exists(Makes(s)[k[s]])

(* What a worker is publishing is the frame it holds.                      *)
HandOK(w) == at[w] = "publish" => ring[Output(w, turn[w])[k[w]]].ahead = hand[w]

(* The depth map and the detections of a camera.                           *)
PairAt(c) ==
  LET map == ring[<<"depth", c>>].newest
      det == ring[<<"det", c>>].newest
  IN IF turn[depth] = c /\ k[depth] = 2 THEN hand[depth] = map ELSE det = map
PairOK == at[depth] \in Looping => \A c \in 1 .. cams[depth] : PairAt(c)

(* A frame of the capture daemon's latest run is on a camera's ring only   *)
(* when that run has created it.                                           *)
Cam(c)  == ring[<<"cam", c>>]
RunsOK ==
  /\ at[capture] \in {"zero", "fill", "run"} => starts[capture] > 0
  /\ at[capture] = "run" => \A c \in 1 .. setup.cameras : Cam(c).st = "made"
  /\ \A c \in Cameras :
       /\ Cam(c).newest.run <= starts[capture] /\ Cam(c).ahead.run <= starts[capture]
       /\ Cam(c).st = "blank" => Cam(c).newest.run < starts[capture]
       /\ at[capture] \in {"zero", "fill"} =>
            Cam(c).newest.run < starts[capture] /\ Cam(c).ahead.run < starts[capture]
       /\ Cam(c).ahead # NoFrame => Cam(c).ahead.idx = Cam(c).newest.idx + 1

(* What the undistort worker holds or has published for camera c.          *)
Bound(f, c) ==
  /\ f.run <= starts[capture]
  /\ at[capture] \in {"zero", "fill"} => f.run < starts[capture]
  /\ starts[capture] > 0 /\ Cam(c).newest = NoFrame => f.run < starts[capture]
  /\ f.run = starts[capture] /\ Cam(c).newest # NoFrame => f.idx <= Cam(c).newest.idx + 1
Holds(c) == at[undistort] \in {"check", "write", "publish"} /\ turn[undistort] = c
Behind(old, new) ==
  old.run = starts[capture] /\ new.run = starts[capture] => old.idx <= new.idx + 1
BoundAt(c) ==
  LET old == ring[<<"rect", c>>].newest IN
  /\ Bound(old, c)
  /\ Holds(c) => Bound(hand[undistort], c) /\ Behind(old, hand[undistort])
BoundOK == \A c \in Cameras : BoundAt(c)

(* What run.sh has found: the rings of the stages it has started.          *)
Found == /\ script[1] \in {"start", "record", "await", "up"} => script[2] \in Stages
         /\ script[1] \in {"start", "record", "await", "up"} =>
              \A s \in 1 .. 3 : s < script[2] => Exists(Awaited(s))
         /\ script[1] = "up" => script[2] = audio
(* The rings a worker was given are there, and from a clean start each     *)
(* ring is created after the one it is made from.                          *)
ServedOK(w) ==
  at[w] \in {"open", "zero", "fill"} \cup Looping =>
    \A c \in 1 .. cams[w] : Exists(Input(w, c))
InTurn ==
  setup.old = {} =>
    \A c \in Cameras : /\ Exists(<<"det", c>>) => Exists(<<"depth", c>>)
                       /\ Exists(<<"depth", c>>) => Exists(<<"rect", c>>)
                       /\ Exists(<<"rect", c>>) => Exists(<<"cam", c>>)

Inv == /\ TypeOK /\ CountersOK /\ ScriptOK /\ Found /\ InTurn
       /\ \A s \in 1 .. 3 : MadeOK(s)
       /\ \A w \in Workers : HandOK(w) /\ ServedOK(w)
       /\ PairOK /\ RunsOK /\ BoundOK
-----------------------------------------------------------------------------
(* The rings of the capture daemon (src/src/main.cpp opens one per         *)
(* camera), of the undistort worker, and of the depth worker: the maps     *)
(* first, then the detections.                                             *)
LEMMA MakesCapture ==
  ASSUME TypeOK
  PROVE  /\ Len(Makes(capture)) = setup.cameras /\ setup.cameras \in 1 .. 2
         /\ \A i \in 1 .. setup.cameras : Makes(capture)[i] = <<"cam", i>>
<1>1. setup.cameras \in 1 .. 2  BY SetupsAssumption DEF TypeOK
<1>2. Makes(capture) = [i \in 1 .. setup.cameras |-> <<"cam", i>>]  BY DEF Makes
<1> QED  BY <1>1, <1>2

(* One rectified ring per camera (undistort_worker.py:96-108).             *)
LEMMA MakesUndistort ==
  ASSUME TypeOK
  PROVE  /\ Len(Makes(undistort)) = cams[undistort]
         /\ \A i \in 1 .. cams[undistort] : Makes(undistort)[i] = <<"rect", i>>
<1>1. cams[undistort] \in 1 .. 2  BY DEF TypeOK
<1>2. Makes(undistort) = [i \in 1 .. cams[undistort] |-> <<"rect", i>>]  BY DEF Makes
<1> QED  BY <1>1, <1>2

(* The depth rings of all cameras, then the detection rings.               *)
LEMMA MakesDepth ==
  ASSUME TypeOK
  PROVE  /\ Len(Makes(depth)) = 2 * cams[depth]
         /\ \A i \in 1 .. cams[depth] : Makes(depth)[i] = <<"depth", i>>
         /\ \A i \in 1 .. cams[depth] : Makes(depth)[cams[depth] + i] = <<"det", i>>
<1> DEFINE n == cams[depth]
<1>1. n \in 1 .. 2  BY DEF TypeOK
<1>2. Makes(depth) = [i \in 1 .. 2 * n |->
                      IF i <= n THEN <<"depth", i>> ELSE <<"det", i - n>>]
  BY DEF Makes
<1> HIDE DEF n
<1>3. Len(Makes(depth)) = 2 * n  BY <1>1, <1>2
<1>4. CASE n = 1
  <2>1. Makes(depth)[1] = <<"depth", 1>> /\ Makes(depth)[2] = <<"det", 1>>
    BY <1>2, <1>4
  <2> QED  BY <1>3, <1>4, <2>1 DEF n
<1>5. CASE n = 2
  <2>1. /\ Makes(depth)[1] = <<"depth", 1>> /\ Makes(depth)[2] = <<"depth", 2>>
        /\ Makes(depth)[3] = <<"det", 1>> /\ Makes(depth)[4] = <<"det", 2>>
    BY <1>2, <1>5
  <2> QED  BY <1>3, <1>5, <2>1 DEF n
<1> QED  BY <1>1, <1>4, <1>5

(* What a process makes and writes is its own.                             *)
Own(s) == IF s = capture THEN {"cam"} ELSE IF s = undistort THEN {"rect"}
          ELSE IF s = depth THEN {"depth", "det"} ELSE {}

(* Each of them is a ring of its own kind: no two processes write the same *)
(* one.                                                                    *)
LEMMA MakesOwn ==
  ASSUME TypeOK, NEW s \in Stages \ {audio}, NEW p \in 1 .. Count(s)
  PROVE  /\ Len(Makes(s)) = Count(s)
         /\ Makes(s)[p] \in Rings /\ Makes(s)[p][1] \in Own(s)
<1>1. \A i \in 1 .. 2, name \in {"cam", "rect", "depth", "det"} :
        <<name, i>> \in Rings /\ <<name, i>>[1] = name
  BY DEF Rings
<1>2. CASE s = capture
  <2>1. Makes(s)[p] = <<"cam", p>> /\ p \in 1 .. 2
    BY <1>2, MakesCapture DEF Count
  <2>2. Len(Makes(s)) = Count(s)  BY <1>2, MakesCapture DEF Count
  <2>3. Own(s) = {"cam"}  BY <1>2 DEF Own
  <2> QED  BY <1>1, <2>1, <2>2, <2>3
<1>3. CASE s = undistort
  <2>1. Makes(s)[p] = <<"rect", p>> /\ p \in 1 .. 2
    <3>1. cams[undistort] \in 1 .. 2  BY DEF TypeOK
    <3>2. p \in 1 .. cams[undistort]  BY <1>3 DEF Count
    <3> QED  BY <1>3, <3>1, <3>2, MakesUndistort
  <2>2. Len(Makes(s)) = Count(s)  BY <1>3, MakesUndistort DEF Count
  <2>3. Own(s) = {"rect"}  BY <1>3 DEF Own
  <2> QED  BY <1>1, <2>1, <2>2, <2>3
<1>4. CASE s = depth
  <2> DEFINE n == cams[depth]
  <2>1. n \in 1 .. 2 /\ p \in 1 .. 2 * n  BY <1>4 DEF Count, TypeOK
  <2>2. /\ \A m \in 1 .. n : Makes(depth)[m] = <<"depth", m>>
        /\ \A m \in 1 .. n : Makes(depth)[n + m] = <<"det", m>>
        /\ Len(Makes(depth)) = Count(depth)
    BY MakesDepth DEF Count
  <2> HIDE DEF n
  <2>3. \E m \in 1 .. 2 : Makes(depth)[p] \in {<<"depth", m>>, <<"det", m>>}
    <3>1. CASE p <= n
      <4>1. p \in 1 .. n /\ p \in 1 .. 2  BY <2>1, <3>1
      <4>2. Makes(depth)[p] = <<"depth", p>>  BY <2>2, <4>1
      <4> QED  BY <4>1, <4>2
    <3>2. CASE ~(p <= n)
      <4>1. PICK m \in 1 .. n : p = n + m
        <5>1. p - n \in 1 .. n /\ p = n + (p - n)  BY <2>1, <3>2
        <5> QED  BY <5>1
      <4>2. Makes(depth)[p] = <<"det", m>> /\ m \in 1 .. 2  BY <2>1, <2>2, <4>1
      <4> QED  BY <4>2
    <3> QED  BY <3>1, <3>2
  <2>4. Own(s) = {"depth", "det"}  BY <1>4 DEF Own
  <2> QED  BY <1>1, <1>4, <2>2, <2>3, <2>4
<1> QED  BY <1>2, <1>3, <1>4

(* The ring that is being created.                                         *)
LEMMA Making ==
  ASSUME TypeOK, CountersOK, NEW s \in Stages, at[s] \in {"zero", "fill"}
  PROVE  /\ Len(Makes(s)) = Count(s) /\ k[s] \in 1 .. Count(s)
         /\ Makes(s)[k[s]] \in Rings /\ Makes(s)[k[s]][1] \in Own(s)
<1>1. s # audio /\ k[s] \in 1 .. Count(s)
  BY DEF TypeOK, Places, CountersOK, Top
<1> QED  BY <1>1, MakesOwn

(* The first output of a worker.                                           *)
Out(w, c) == IF w = undistort THEN <<"rect", c>> ELSE <<"depth", c>>

(* The ring a frame is written to: the first output, or the detections.    *)
LEMMA Writing ==
  ASSUME TypeOK, CountersOK, NEW w \in Workers, at[w] \in {"write", "publish"}
  PROVE  /\ Len(Output(w, turn[w])) = Top(w)
         /\ Output(w, turn[w])[k[w]] \in Rings /\ Output(w, turn[w])[k[w]][1] \in Own(w)
         /\ k[w] = 1 => Output(w, turn[w])[k[w]] = Out(w, turn[w])
         /\ k[w] # 1 => w = depth /\ k[w] = 2 /\ Output(w, turn[w])[k[w]] = <<"det", turn[w]>>
<1> DEFINE c == turn[w]
<1>1. c \in Cameras  BY DEF TypeOK
<1>2. CASE w = undistort
  <2>1. Output(w, c) = << <<"rect", c>> >> /\ Top(w) = 1 /\ k[w] = 1
    BY <1>2 DEF Output, Top, CountersOK
  <2>2. /\ <<"rect", c>> \in Rings /\ <<"rect", c>>[1] \in Own(w)
        /\ Out(w, c) = <<"rect", c>>
    BY <1>1, <1>2 DEF Rings, Own, Out
  <2>3. Len(Output(w, c)) = 1 /\ Output(w, c)[1] = <<"rect", c>>  BY <2>1
  <2> QED  BY <2>1, <2>2, <2>3
<1>3. CASE w = depth
  <2>1. Output(w, c) = << <<"depth", c>>, <<"det", c>> >> /\ Top(w) = 2 /\ k[w] \in 1 .. 2
    BY <1>3 DEF Output, Top, CountersOK
  <2>2. /\ <<"depth", c>> \in Rings /\ <<"depth", c>>[1] \in Own(w)
        /\ <<"det", c>> \in Rings /\ <<"det", c>>[1] \in Own(w)
        /\ Out(w, c) = <<"depth", c>>
    BY <1>1, <1>3 DEF Rings, Own, Out
  <2>3. /\ Len(Output(w, c)) = 2
        /\ Output(w, c)[1] = <<"depth", c>> /\ Output(w, c)[2] = <<"det", c>>
    BY <2>1
  <2>4. CASE k[w] = 1  BY <2>1, <2>2, <2>3, <2>4
  <2>5. CASE k[w] = 2  BY <1>3, <2>1, <2>2, <2>3, <2>5
  <2> QED  BY <2>1, <2>4, <2>5
<1> QED  BY <1>2, <1>3

-----------------------------------------------------------------------------
(* What the steps do, without EXCEPT.                                      *)
Others(r) == \A q \in Rings \ {r} : ring'[q] = ring[q]

(* A ring that gets a new value.                                           *)
LEMMA RingAt ==
  ASSUME ring \in RingTypes, NEW r \in Rings, NEW x \in RingType,
         ring' = [ring EXCEPT ![r] = x]
  PROVE  ring' \in RingTypes /\ ring'[r] = x /\ Others(r)
BY DEF RingTypes, Others

(* The parts of a ring.                                                    *)
LEMMA RingParts ==
  ASSUME ring \in RingTypes, NEW r \in Rings
  PROVE  /\ ring[r] = [st |-> ring[r].st, newest |-> ring[r].newest, ahead |-> ring[r].ahead]
         /\ ring[r].st \in Statuses /\ ring[r].newest \in Frames /\ ring[r].ahead \in Frames
BY DEF RingTypes, RingType

(* A ring whose writer places a frame, and names it.                       *)
LEMMA PlacedIs ==
  ASSUME ring \in RingTypes, NEW r \in Rings, NEW f \in Frames, ring' = Placed(r, f)
  PROVE  /\ ring' \in RingTypes /\ Others(r)
         /\ ring'[r] = [st |-> ring[r].st, newest |-> ring[r].newest, ahead |-> f]
<1> DEFINE x == [st |-> ring[r].st, newest |-> ring[r].newest, ahead |-> f]
<1>1. x \in RingType  BY RingParts DEF RingType
<1>2. [ring[r] EXCEPT !.ahead = f] = x  BY DEF RingTypes, RingType
<1>3. ring' = [ring EXCEPT ![r] = x]  BY <1>2 DEF Placed, RingTypes
<1> QED  BY <1>1, <1>3, RingAt

(* The frame that was ahead is the newest.                                 *)
LEMMA PublishedIs ==
  ASSUME ring \in RingTypes, NEW r \in Rings, ring' = Published(r)
  PROVE  /\ ring' \in RingTypes /\ Others(r)
         /\ ring'[r] = [st |-> ring[r].st, newest |-> ring[r].ahead, ahead |-> NoFrame]
<1> DEFINE x == [st |-> ring[r].st, newest |-> ring[r].ahead, ahead |-> NoFrame]
<1>1. x \in RingType  BY RingParts DEF RingType, Frames
<1>2. ring' = [ring EXCEPT ![r] = x]  BY DEF Published
<1> QED  BY <1>1, <1>2, RingAt

(* A ring whose header is cleared.                                         *)
LEMMA ZeroIs ==
  ASSUME TypeOK, CountersOK, NEW s \in Stages, Zero(s)
  PROVE  LET r == Makes(s)[k[s]] IN
         /\ s # audio /\ at[s] = "zero" /\ at' = [at EXCEPT ![s] = "fill"]
         /\ UNCHANGED <<setup, starts, script, k, cams, turn, hand>>
         /\ r \in Rings /\ r[1] \in Own(s) /\ k[s] \in 1 .. Count(s)
         /\ ring' \in RingTypes /\ Others(r)
         /\ ring'[r] = [st |-> "blank", newest |-> ring[r].newest, ahead |-> ring[r].ahead]
<1> DEFINE r == Makes(s)[k[s]]
           x == [st |-> "blank", newest |-> ring[r].newest, ahead |-> ring[r].ahead]
<1>1. /\ at[s] = "zero" /\ at' = [at EXCEPT ![s] = "fill"]
      /\ ring' = [ring EXCEPT ![r].st = "blank"]
      /\ UNCHANGED <<setup, starts, script, k, cams, turn, hand>>
  BY DEF Zero, Still, worker, launcher
<1>2. r \in Rings /\ r[1] \in Own(s) /\ k[s] \in 1 .. Count(s) /\ s # audio
  BY <1>1, Making DEF TypeOK, Places
<1> HIDE DEF r
<1>3. ring \in RingTypes  BY DEF TypeOK
<1>4. x \in RingType  BY <1>2, <1>3, RingParts DEF RingType, Statuses
<1>5. [ring[r] EXCEPT !.st = "blank"] = x  BY <1>2, <1>3 DEF RingTypes, RingType
<1>6. ring' = [ring EXCEPT ![r] = x]  BY <1>1, <1>2, <1>3, <1>5 DEF RingTypes
<1>7. ring' \in RingTypes /\ ring'[r] = x /\ Others(r)  BY <1>2, <1>3, <1>4, <1>6, RingAt
<1> QED  BY <1>1, <1>2, <1>7 DEF r

(* A ring that is filled, and the next one or the loop.                    *)
LEMMA FillIs ==
  ASSUME TypeOK, CountersOK, NEW s \in Stages, Fill(s)
  PROVE  LET r == Makes(s)[k[s]] IN
         /\ s # audio /\ at[s] = "fill"
         /\ UNCHANGED <<setup, starts, script, cams, turn, hand>>
         /\ r \in Rings /\ r[1] \in Own(s) /\ k[s] \in 1 .. Count(s) /\ Len(Makes(s)) = Count(s)
         /\ ring' \in RingTypes /\ Others(r) /\ ring'[r] = Empty
         /\ \/ /\ k[s] < Count(s)
               /\ k' = [k EXCEPT ![s] = k[s] + 1] /\ at' = [at EXCEPT ![s] = "zero"]
            \/ /\ k[s] = Count(s)
               /\ k' = [k EXCEPT ![s] = 1] /\ at' = [at EXCEPT ![s] = "run"]
<1> DEFINE r == Makes(s)[k[s]]
<1>1. /\ at[s] = "fill" /\ ring' = [ring EXCEPT ![r] = [Absent EXCEPT !.st = "made"]]
      /\ UNCHANGED <<setup, starts, script, cams, turn, hand>>
      /\ \/ /\ k[s] < Len(Makes(s))
            /\ k' = [k EXCEPT ![s] = k[s] + 1] /\ at' = [at EXCEPT ![s] = "zero"]
         \/ /\ ~(k[s] < Len(Makes(s)))
            /\ k' = [k EXCEPT ![s] = 1] /\ at' = [at EXCEPT ![s] = "run"]
  BY DEF Fill, Still, worker, launcher
<1>2. /\ r \in Rings /\ r[1] \in Own(s) /\ k[s] \in 1 .. Count(s) /\ s # audio
      /\ Len(Makes(s)) = Count(s)
  <2>1. at[s] \in Places(s) /\ at[s] = "fill"  BY <1>1 DEF TypeOK
  <2>2. s # audio  BY <2>1 DEF Places
  <2> QED  BY <2>1, <2>2, Making
<1>3. [Absent EXCEPT !.st = "made"] = Empty /\ Empty \in RingType
  BY DEF Absent, Empty, RingType, Statuses, Frames
<1> HIDE DEF r
<1>4. ring' \in RingTypes /\ ring'[r] = Empty /\ Others(r)
  BY <1>1, <1>2, <1>3, RingAt DEF TypeOK
<1>5. Count(s) \in Nat  BY SetupsAssumption, <1>2 DEF TypeOK, Count
<1> DEFINE n == Count(s)
<1>6. k[s] < n \/ k[s] = n  BY <1>2, <1>5
<1> HIDE DEF n
<1> QED  BY <1>1, <1>2, <1>4, <1>5, <1>6 DEF r, n

(* A frame of the capture daemon, complete and then published.             *)
Capturing(c) == Capture(c) \/ PublishFrame(c)
LEMMA CapturingIs ==
  ASSUME TypeOK, NEW c \in Cameras, Capturing(c)
  PROVE  LET r == <<"cam", c>>
             f == [run |-> starts[capture], idx |-> ring[r].newest.idx + 1]
         IN
         /\ r \in Rings /\ r[1] \in Own(capture) /\ c \in 1 .. setup.cameras
         /\ at[capture] = "run" /\ UNCHANGED <<setup, at, k, starts, script, cams, turn, hand>>
         /\ ring' \in RingTypes /\ Others(r)
         /\ \/ ring'[r] = [st |-> ring[r].st, newest |-> ring[r].newest, ahead |-> f]
            \/ /\ ring[r].ahead # NoFrame
               /\ ring'[r] = [st |-> ring[r].st, newest |-> ring[r].ahead, ahead |-> NoFrame]
<1> DEFINE r == <<"cam", c>>
           f == [run |-> starts[capture], idx |-> ring[r].newest.idx + 1]
<1>1. r \in Rings /\ r[1] \in Own(capture)  BY DEF Rings, Own
<1>2. c \in 1 .. setup.cameras
  <2>1. c <= setup.cameras  BY DEF Capturing, Capture, PublishFrame
  <2> QED  BY <2>1, SetupsAssumption DEF TypeOK
<1>3. at[capture] = "run" /\ UNCHANGED <<setup, at, k, starts, script, cams, turn, hand>>
  BY DEF Capturing, Capture, PublishFrame, Still, worker, launcher
<1>4. ring \in RingTypes  BY DEF TypeOK
<1>5. CASE Capture(c)
  <2>1. ring' = Placed(r, f)  BY <1>5 DEF Capture
  <2>2. ring[r].newest \in Frames  BY <1>1, <1>4, RingParts
  <2>3. ring[r].newest.idx + 1 \in Nat  BY <2>2 DEF Frames, NoFrame, None
  <2>4. f \in Frames  BY <2>3 DEF Frames, TypeOK
  <2> HIDE DEF r, f
  <2>5. /\ ring' \in RingTypes /\ Others(r)
        /\ ring'[r] = [st |-> ring[r].st, newest |-> ring[r].newest, ahead |-> f]
    BY <1>1, <1>4, <2>1, <2>4, PlacedIs
  <2> QED  BY <1>1, <1>2, <1>3, <2>5 DEF r, f
<1>6. CASE PublishFrame(c)
  <2>1. ring' = Published(r) /\ ring[r].ahead # NoFrame  BY <1>6 DEF PublishFrame
  <2> HIDE DEF r
  <2>2. /\ ring' \in RingTypes /\ Others(r)
        /\ ring'[r] = [st |-> ring[r].st, newest |-> ring[r].ahead, ahead |-> NoFrame]
    BY <1>1, <1>4, <2>1, PublishedIs
  <2> QED  BY <1>1, <1>2, <1>3, <2>1, <2>2 DEF r
<1> QED  BY <1>5, <1>6 DEF Capturing

(* What a worker is given.                                                 *)
Reads(w) == ReadFrame(w) \/ ReadLapped(w) \/ ReadOvertaken(w) \/ ReadCleared(w)
Given(f) ==
  LET x == Reading(undistort) IN
  \/ f = x.newest
  \/ f = x.ahead /\ x.newest # NoFrame
  \/ f.run <= x.newest.run /\ x.st = "blank"
LEMMA ReadsIs ==
  ASSUME TypeOK, CountersOK, NEW w \in Workers, Reads(w)
  PROVE  \E f \in Frames \ {NoFrame} :
           /\ w = undistort => Given(f)
           /\ at[w] = "run" /\ at' = [at EXCEPT ![w] = "check"] /\ k[w] = 1
           /\ hand' = [hand EXCEPT ![w] = f]
           /\ UNCHANGED <<setup, ring, k, starts, script, cams, turn>>
<1> DEFINE Goal(f) == /\ at[w] = "run" /\ at' = [at EXCEPT ![w] = "check"] /\ k[w] = 1
                      /\ hand' = [hand EXCEPT ![w] = f]
                      /\ UNCHANGED <<setup, ring, k, starts, script, cams, turn>>
<1> DEFINE r == Input(w, turn[w])
           n == Reading(w).newest
           a == Reading(w).ahead
<1>1. ASSUME NEW f, Takes(w, f) PROVE f # NoFrame /\ Goal(f)
  BY <1>1 DEF Takes, MayLook, NewToWorker, Still, launcher, CountersOK, Top
<1>2. r \in Rings  BY DEF TypeOK, Rings, Input
<1>3. n \in Frames /\ a \in Frames  BY <1>2, RingParts DEF TypeOK, Reading
<1> HIDE DEF Goal, r
<1>4. CASE ReadFrame(w)
  <2>1. Takes(w, n)  BY <1>4 DEF ReadFrame
  <2>2. w = undistort => Given(n)  BY DEF Given
  <2>3. n # NoFrame /\ Goal(n)  BY <1>1, <2>1
  <2> HIDE DEF n
  <2> QED  BY <1>3, <2>2, <2>3 DEF Goal
<1>5. CASE ReadLapped(w)
  <2>1. PICK f \in PassedOn(w) : Takes(w, f)  BY <1>5 DEF ReadLapped
  <2>2. n # NoFrame /\ a # NoFrame  BY <1>5 DEF ReadLapped, Lapped
  <2>3. f \in {a, [a EXCEPT !.idx = 0]} /\ (w = undistort => f = a)  BY DEF PassedOn
  <2>4. f \in Frames
    <3> HIDE DEF a
    <3>1. a \in [run : Nat, idx : Nat]  BY <1>3, <2>2 DEF Frames
    <3> QED  BY <2>3, <3>1 DEF Frames
  <2>5. w = undistort => Given(f)  BY <2>2, <2>3 DEF Given
  <2>6. f # NoFrame /\ Goal(f)  BY <1>1, <2>1
  <2> QED  BY <2>4, <2>5, <2>6 DEF Goal
<1>6. ASSUME NEW f \in LeftBehind(w) PROVE f \in Frames /\ f.run <= n.run
  <2>1. f \in [run : 0 .. n.run, idx : 0 .. setup.maxIdx]  BY DEF LeftBehind
  <2>2. n.run \in Nat
    <3> HIDE DEF n
    <3> QED  BY <1>3 DEF Frames, NoFrame
  <2>3. setup.maxIdx \in Int  BY SetupsAssumption DEF TypeOK, None
  <2> HIDE DEF n
  <2> QED  BY <2>1, <2>2, <2>3 DEF Frames
<1>7. CASE ReadOvertaken(w)
  <2>1. PICK f \in LeftBehind(w) : Takes(w, f)  BY <1>7 DEF ReadOvertaken
  <2>2. Reading(w).st = "blank"  BY <1>7 DEF ReadOvertaken, Overtaken
  <2>3. f \in Frames /\ f.run <= n.run  BY <1>6
  <2>4. w = undistort => Given(f)  BY <2>2, <2>3 DEF Given
  <2>5. f # NoFrame /\ Goal(f)  BY <1>1, <2>1
  <2> QED  BY <2>3, <2>4, <2>5 DEF Goal
<1>8. CASE ReadCleared(w)
  <2>1. PICK f \in {a} \cup LeftBehind(w) : Takes(w, f)  BY <1>8 DEF ReadCleared
  <2>2. w # undistort  BY <1>8 DEF ReadCleared, Cleared
  <2>3. f \in Frames
    <3>1. CASE f = a  BY <1>3, <3>1
    <3>2. CASE f \in LeftBehind(w)  BY <1>6, <3>2
    <3> QED  BY <2>1, <3>1, <3>2
  <2>4. f # NoFrame /\ Goal(f)  BY <1>1, <2>1
  <2> QED  BY <2>2, <2>3, <2>4 DEF Goal
<1> QED  BY <1>4, <1>5, <1>7, <1>8 DEF Reads

(* A worker places the frame it holds.                                     *)
LEMMA WriteIs ==
  ASSUME TypeOK, CountersOK, NEW w \in Workers, Write(w)
  PROVE  LET r == Output(w, turn[w])[k[w]] IN
         /\ at[w] = "write" /\ at' = [at EXCEPT ![w] = "publish"]
         /\ UNCHANGED <<setup, k, starts, script, cams, turn, hand>>
         /\ r \in Rings /\ r[1] \in Own(w)
         /\ ring' \in RingTypes /\ Others(r)
         /\ ring'[r] = [st |-> ring[r].st, newest |-> ring[r].newest, ahead |-> hand[w]]
<1> DEFINE r == Output(w, turn[w])[k[w]]
<1>1. /\ at[w] = "write" /\ at' = [at EXCEPT ![w] = "publish"]
      /\ UNCHANGED <<setup, k, starts, script, cams, turn, hand>>
      /\ ring' = Placed(r, hand[w])
  BY DEF Write, Still, worker, launcher
<1>2. r \in Rings /\ r[1] \in Own(w) /\ hand[w] \in Frames  BY <1>1, Writing DEF TypeOK
<1> HIDE DEF r
<1>3. /\ ring' \in RingTypes /\ Others(r)
      /\ ring'[r] = [st |-> ring[r].st, newest |-> ring[r].newest, ahead |-> hand[w]]
  BY <1>1, <1>2, PlacedIs DEF TypeOK
<1> QED  BY <1>1, <1>2, <1>3 DEF r

(* It publishes the frame, and goes on to the next ring or camera.         *)
LEMMA PublishIs ==
  ASSUME TypeOK, CountersOK, NEW w \in Workers, Publish(w)
  PROVE  LET r == Output(w, turn[w])[k[w]] IN
         /\ at[w] = "publish" /\ UNCHANGED <<setup, starts, script, cams>>
         /\ r \in Rings /\ r[1] \in Own(w) /\ k[w] \in 1 .. Top(w)
         /\ ring' \in RingTypes /\ Others(r)
         /\ ring'[r] = [st |-> ring[r].st, newest |-> ring[r].ahead, ahead |-> NoFrame]
         /\ \/ /\ k[w] < Top(w) /\ UNCHANGED <<turn, hand>>
               /\ k' = [k EXCEPT ![w] = k[w] + 1] /\ at' = [at EXCEPT ![w] = "write"]
            \/ /\ k[w] = Top(w)
               /\ k' = [k EXCEPT ![w] = 1] /\ at' = [at EXCEPT ![w] = "run"]
               /\ hand' = [hand EXCEPT ![w] = NoFrame]
               /\ turn' = [turn EXCEPT ![w] = (turn[w] % cams[w]) + 1]
<1> DEFINE out == Output(w, turn[w])
           r == out[k[w]]
<1>1. /\ at[w] = "publish" /\ UNCHANGED <<setup, starts, script, cams>>
      /\ ring' = Published(r)
  BY DEF Publish, Still, launcher
<1>2. r \in Rings /\ r[1] \in Own(w) /\ Len(out) = Top(w)  BY <1>1, Writing
<1>3. k[w] \in 1 .. Top(w) /\ Top(w) \in {1, 2}  BY <1>1 DEF CountersOK, Top
<1>4. \/ /\ k[w] < Len(out) /\ UNCHANGED <<turn, hand>>
         /\ k' = [k EXCEPT ![w] = k[w] + 1] /\ at' = [at EXCEPT ![w] = "write"]
      \/ /\ ~(k[w] < Len(out))
         /\ k' = [k EXCEPT ![w] = 1] /\ at' = [at EXCEPT ![w] = "run"]
         /\ hand' = [hand EXCEPT ![w] = NoFrame]
         /\ turn' = [turn EXCEPT ![w] = (turn[w] % cams[w]) + 1]
  BY DEF Publish, NextTurn
<1> HIDE DEF r, out
<1>5. /\ ring' \in RingTypes /\ Others(r)
      /\ ring'[r] = [st |-> ring[r].st, newest |-> ring[r].ahead, ahead |-> NoFrame]
  BY <1>1, <1>2, PublishedIs DEF TypeOK
<1>6. k[w] < Len(out) \/ k[w] = Top(w)  BY <1>2, <1>3
<1> QED  BY <1>1, <1>2, <1>3, <1>4, <1>5, <1>6 DEF r, out

-----------------------------------------------------------------------------
(* The kinds of steps.                                                     *)
Aside       == UNCHANGED <<setup, ring, at, k, cams, turn, hand, starts>>
Ending(s)   == Alive(s) /\ Clean(s) /\ UNCHANGED <<setup, ring, starts>>
Starting(s) == ~Alive(s) /\ Launch(s) /\ UNCHANGED <<setup, ring, k, cams, turn, hand>>
Working(w)  == \/ Resolve(w) \/ OpenReader(w) \/ Reads(w) \/ NothingNew(w)
               \/ CheckHeader(w) \/ Write(w) \/ Publish(w)
Acting(s)   == \/ Ending(s) \/ Starting(s) \/ Zero(s) \/ Fill(s)
               \/ s = capture /\ \E c \in Cameras : Capturing(c)
               \/ s \in Workers /\ Working(s)

(* Every step is one of these kinds.                                       *)
LEMMA Sorts ==
  ASSUME TypeOK, ScriptOK, [Next]_vars
  PROVE  Aside \/ \E s \in Stages : Acting(s)
<1> DEFINE Goal == Aside \/ \E s \in Stages : Acting(s)
<1>1. CASE Script
  <2>1. CASE StartStage
    <3>1. script[2] \in Stages /\ ~Alive(script[2])
      BY <2>1 DEF StartStage, Step, ScriptOK, Alive
    <3>2. Starting(script[2])  BY <2>1, <3>1 DEF StartStage, Starting, Outside, worker
    <3> QED  BY <3>1, <3>2 DEF Acting
  <2>2. CASE Record \/ RingAppears \/ LookAgain \/ KillAll \/ Reap
    BY <2>2 DEF Record, RingAppears, LookAgain, KillAll, Reap, Aside, Outside, worker
  <2> QED  BY <1>1, <2>1, <2>2 DEF Script
<1>2. ASSUME NEW interrupt \in BOOLEAN, Trap(interrupt) \/ TrapAgain(interrupt) PROVE Goal
  BY <1>2 DEF Trap, TrapAgain, Aside, Outside, worker
<1>3. ASSUME NEW s \in Stages, Ends(s) \/ Kill(s) PROVE Goal
  <2>1. Ending(s)  BY <1>3 DEF Ends, Kill, Dies, Ending
  <2> QED  BY <2>1 DEF Acting
<1>4. ASSUME NEW s \in Stages, StartByHand(s) PROVE Goal
  <2>1. Starting(s)  BY <1>4 DEF StartByHand, Starting, worker
  <2> QED  BY <2>1 DEF Acting
<1>5. ASSUME NEW w \in Workers, Raises(w) \/ HeaderRaises(w) \/ TimesOut(w) \/ EmptyFrame(w)
      PROVE  Goal
  <2>1. Ending(w)
    <3>1. Dies(w) /\ Alive(w)
      BY <1>5 DEF Raises, HeaderRaises, TimesOut, EmptyFrame, Overtaken, Lapped, MayLook, Alive
    <3> QED  BY <3>1 DEF Dies, Ending
  <2> QED  BY <2>1 DEF Acting
<1>6. ASSUME NEW w \in Workers, Raced(w) PROVE Goal
  BY <1>5, <1>6 DEF Raced, Working, Reads, Acting
<1>7. ASSUME NEW c \in Cameras, Capture(c) \/ PublishFrame(c) PROVE Goal
  BY <1>7 DEF Capturing, Acting
<1>8. ASSUME NEW c \in Cameras, Due(c) PROVE Goal
  BY <1>8 DEF Due, Still, Aside
<1>9. ASSUME NEW s \in Stages, Process(s) PROVE Goal
  <2>1. CASE Zero(s) \/ Fill(s)  BY <2>1 DEF Acting
  <2>2. CASE s \in Workers /\ Work(s)
    BY <1>5, <2>2 DEF Work, Working, Reads, Acting
  <2>3. CASE s = capture /\ \E c \in Cameras : PublishFrame(c)  BY <1>7, <2>3
  <2> QED  BY <1>9, <2>1, <2>2, <2>3 DEF Process
<1>10. CASE UNCHANGED vars  BY <1>10 DEF vars, Aside
<1> QED
  BY <1>1, <1>2, <1>3, <1>4, <1>5, <1>6, <1>7, <1>8, <1>9, <1>10 DEF Next

(* A process that ends, and one that starts.                               *)
LEMMA EndingIs ==
  ASSUME TypeOK, NEW s \in Stages, Ending(s)
  PROVE  /\ at' = [at EXCEPT ![s] = "dead"] /\ k' = [k EXCEPT ![s] = 1]
         /\ UNCHANGED <<setup, ring, starts>>
         /\ IF s \in Workers
            THEN /\ cams' = [cams EXCEPT ![s] = 1] /\ turn' = [turn EXCEPT ![s] = 1]
                 /\ hand' = [hand EXCEPT ![s] = NoFrame]
            ELSE UNCHANGED <<cams, turn, hand>>
BY DEF Ending, Clean, worker
LEMMA StartingIs ==
  ASSUME TypeOK, NEW s \in Stages, Starting(s)
  PROVE  /\ at[s] \in {"off", "dead"} /\ at' = [at EXCEPT ![s] = First(s)]
         /\ starts' = [starts EXCEPT ![s] = starts[s] + 1]
         /\ UNCHANGED <<setup, ring, k, cams, turn, hand>>
BY DEF Starting, Launch, Alive

(* A step of process s leaves the others, and what is theirs, alone.       *)
Only(s) ==
  /\ setup' = setup
  /\ \A j \in Stages \ {s} : at'[j] = at[j] /\ k'[j] = k[j]
  /\ s # capture => starts'[capture] = starts[capture]
  /\ \A w \in Workers \ {s} : cams'[w] = cams[w] /\ turn'[w] = turn[w] /\ hand'[w] = hand[w]
  /\ \A r \in Rings : r[1] \notin Own(s) => ring'[r] = ring[r]

(* Each kind is a step of one process.                                     *)
LEMMA Stays ==
  ASSUME TypeOK, CountersOK, NEW s \in Stages, Acting(s)
  PROVE  Only(s)
<1> USE DEF TypeOK
<1>1. CASE Ending(s)  BY <1>1, EndingIs DEF Only
<1>2. CASE Starting(s)  BY <1>2, StartingIs DEF Only
<1>3. CASE Zero(s)
  <2>1. PICK r \in Rings : Others(r) /\ r[1] \in Own(s)  BY <1>3, ZeroIs
  <2> QED  BY <1>3, <2>1, ZeroIs DEF Only, Others
<1>4. CASE Fill(s)
  <2>1. PICK r \in Rings : Others(r) /\ r[1] \in Own(s)  BY <1>4, FillIs
  <2>2. /\ UNCHANGED <<setup, starts, script, cams, turn, hand>>
        /\ \/ k' = [k EXCEPT ![s] = k[s] + 1] /\ at' = [at EXCEPT ![s] = "zero"]
           \/ k' = [k EXCEPT ![s] = 1] /\ at' = [at EXCEPT ![s] = "run"]
    <3> HIDE DEF TypeOK
    <3> QED  BY <1>4, FillIs
  <2>3. \A j \in Stages \ {s} : at'[j] = at[j] /\ k'[j] = k[j]  BY <2>2
  <2> QED  BY <2>1, <2>2, <2>3 DEF Only, Others
<1>5. ASSUME s = capture, NEW c \in Cameras, Capturing(c) PROVE Only(s)
  <2>1. PICK r \in Rings : Others(r) /\ r[1] \in Own(s)  BY <1>5, CapturingIs
  <2>2. UNCHANGED <<setup, at, k, starts, cams, turn, hand>>  BY <1>5, CapturingIs
  <2> QED  BY <2>1, <2>2 DEF Only, Others
<1>6. CASE s \in Workers /\ Working(s)
  <2>1. CASE Write(s)
    <3>1. PICK r \in Rings : Others(r) /\ r[1] \in Own(s)  BY <1>6, <2>1, WriteIs
    <3> QED  BY <1>6, <2>1, <3>1, WriteIs DEF Only, Others
  <2>2. CASE Publish(s)
    <3>1. PICK r \in Rings : Others(r) /\ r[1] \in Own(s)  BY <1>6, <2>2, PublishIs
    <3>2. /\ UNCHANGED <<setup, starts, cams>>
          /\ \A j \in Stages \ {s} : at'[j] = at[j] /\ k'[j] = k[j]
          /\ \A w \in Workers \ {s} : turn'[w] = turn[w] /\ hand'[w] = hand[w]
      BY <1>6, <2>2, PublishIs
    <3> QED  BY <3>1, <3>2 DEF Only, Others
  <2>3. CASE Reads(s)
    <3>1. PICK f \in Frames \ {NoFrame} :
            /\ at' = [at EXCEPT ![s] = "check"] /\ hand' = [hand EXCEPT ![s] = f]
            /\ UNCHANGED <<setup, ring, k, starts, cams, turn>>
      BY <1>6, <2>3, ReadsIs
    <3> QED  BY <1>6, <3>1 DEF Only
  <2>4. CASE Resolve(s) \/ OpenReader(s) \/ NothingNew(s) \/ CheckHeader(s)
    BY <1>6, <2>4 DEF Resolve, OpenReader, NothingNew, CheckHeader, NextTurn, Still, worker, Only
  <2> QED  BY <1>6, <2>1, <2>2, <2>3, <2>4 DEF Working
<1> QED  BY <1>1, <1>2, <1>3, <1>4, <1>5, <1>6 DEF Acting

(* The next turn of a worker.                                              *)
LEMMA Turns ==
  ASSUME NEW n \in 1 .. 2, NEW t \in 1 .. n
  PROVE  (t % n) + 1 \in 1 .. n
OBVIOUS

(* A process that makes rings makes at least one.                          *)
LEMMA CountIs ==
  ASSUME TypeOK, NEW s \in Stages \ {audio}
  PROVE  Count(s) \in Nat \ {0}
BY SetupsAssumption DEF TypeOK, Count

(* Every step keeps the types.                                             *)
LEMMA TypeStep ==
  ASSUME TypeOK, CountersOK, ScriptOK, [Next]_vars
  PROVE  TypeOK'
<1>0. NoFrame \in Frames  BY DEF Frames
<1> DEFINE AtOK == DOMAIN at' = Stages /\ \A j \in Stages : at'[j] \in Places(j)
<1>1. CASE Aside  BY <1>1 DEF Aside, TypeOK
<1>2. ASSUME NEW s \in Stages, NEW p \in Places(s), at' = [at EXCEPT ![s] = p] PROVE AtOK
  BY <1>2 DEF TypeOK
<1>3. ASSUME NEW s \in Stages, Ending(s) PROVE TypeOK'
  <2>1. AtOK
    <3>1. "dead" \in Places(s)  BY DEF Places
    <3> QED  BY <1>2, <1>3, <3>1, EndingIs
  <2>2. /\ cams' \in [Workers -> Cameras] /\ turn' \in [Workers -> Cameras]
        /\ hand' \in [Workers -> Frames]
    BY <1>0, <1>3, EndingIs DEF TypeOK
  <2> QED  BY <1>3, <2>1, <2>2, EndingIs DEF TypeOK
<1>4. ASSUME NEW s \in Stages, Starting(s) PROVE TypeOK'
  <2>1. First(s) \in Places(s)  BY DEF First, Places
  <2>2. AtOK  BY <1>2, <1>4, <2>1, StartingIs
  <2> QED  BY <1>4, <2>2, StartingIs DEF TypeOK
<1>5. ASSUME NEW s \in Stages, Zero(s) PROVE TypeOK'
  <2>1. "fill" \in Places(s)  BY <1>5, ZeroIs DEF Places
  <2>2. AtOK  BY <1>2, <1>5, <2>1, ZeroIs
  <2> QED  BY <1>5, <2>2, ZeroIs DEF TypeOK
<1>6. ASSUME NEW s \in Stages, Fill(s) PROVE TypeOK'
  <2>1. "zero" \in Places(s) /\ "run" \in Places(s)  BY <1>6, FillIs DEF Places, Looping
  <2>2. AtOK  BY <1>2, <1>6, <2>1, FillIs
  <2>3. k' \in [Stages -> Nat]
    <3>1. k' = [k EXCEPT ![s] = k[s] + 1] \/ k' = [k EXCEPT ![s] = 1]  BY <1>6, FillIs
    <3> QED  BY <3>1 DEF TypeOK
  <2>4. ring' \in RingTypes /\ UNCHANGED <<setup, starts, cams, turn, hand>>  BY <1>6, FillIs
  <2> QED  BY <2>2, <2>3, <2>4 DEF TypeOK
<1>7. ASSUME NEW c \in Cameras, Capturing(c) PROVE TypeOK'
  <2>1. ring' \in RingTypes /\ UNCHANGED <<setup, at, k, starts, cams, turn, hand>>
    BY <1>7, CapturingIs
  <2> QED  BY <2>1 DEF TypeOK
<1>8. ASSUME NEW w \in Workers, Working(w) PROVE TypeOK'
  <2>0. /\ "open" \in Places(w) /\ "zero" \in Places(w) /\ "run" \in Places(w)
        /\ "check" \in Places(w) /\ "write" \in Places(w) /\ "publish" \in Places(w)
    BY DEF Places, Looping
  <2>8. ASSUME NEW p \in Places(w), at' = [at EXCEPT ![w] = p] PROVE AtOK
    BY <2>8 DEF TypeOK
  <2>1. CASE Resolve(w)
    <3>1. at' = [at EXCEPT ![w] = "open"]  BY <2>1 DEF Resolve
    <3>2. AtOK  BY <2>8, <2>0, <3>1
    <3> QED  BY <2>1, <3>2 DEF Resolve, Still, TypeOK
  <2>2. CASE OpenReader(w)
    <3>1. at' = at \/ at' = [at EXCEPT ![w] = "zero"]  BY <2>2 DEF OpenReader
    <3>2. CASE at' = [at EXCEPT ![w] = "zero"]
      <4>1. AtOK  BY <2>8, <2>0, <3>2
      <4> QED  BY <2>2, <4>1 DEF OpenReader, Still, worker, TypeOK
    <3>3. CASE at' = at  BY <2>2, <3>3 DEF OpenReader, Still, worker, TypeOK
    <3> QED  BY <3>1, <3>2, <3>3
  <2>3. CASE Reads(w)
    <3>1. PICK f \in Frames \ {NoFrame} :
            /\ at' = [at EXCEPT ![w] = "check"] /\ hand' = [hand EXCEPT ![w] = f]
            /\ UNCHANGED <<setup, ring, k, starts, cams, turn>>
      BY <2>3, ReadsIs
    <3>2. AtOK  BY <2>8, <2>0, <3>1
    <3> QED  BY <3>1, <3>2 DEF TypeOK
  <2>4. CASE NothingNew(w)
    BY <2>4, Turns DEF NothingNew, NextTurn, Still, CountersOK, TypeOK
  <2>5. CASE CheckHeader(w)
    <3>1. at' = [at EXCEPT ![w] = "write"]  BY <2>5 DEF CheckHeader
    <3>2. AtOK  BY <2>8, <2>0, <3>1
    <3> QED  BY <2>5, <3>2 DEF CheckHeader, Still, worker, TypeOK
  <2>6. CASE Write(w)
    <3>1. AtOK  BY <2>8, <2>0, <2>6, WriteIs
    <3> QED  BY <2>6, <3>1, WriteIs DEF TypeOK
  <2>7. CASE Publish(w)
    <3>1. /\ ring' \in RingTypes /\ UNCHANGED <<setup, starts, cams>>
          /\ \/ /\ UNCHANGED <<turn, hand>>
                /\ k' = [k EXCEPT ![w] = k[w] + 1] /\ at' = [at EXCEPT ![w] = "write"]
             \/ /\ k' = [k EXCEPT ![w] = 1] /\ at' = [at EXCEPT ![w] = "run"]
                /\ hand' = [hand EXCEPT ![w] = NoFrame]
                /\ turn' = [turn EXCEPT ![w] = (turn[w] % cams[w]) + 1]
      BY <2>7, PublishIs
    <3>2. AtOK  BY <2>8, <2>0, <3>1
    <3>3. (turn[w] % cams[w]) + 1 \in Cameras  BY Turns DEF CountersOK, TypeOK
    <3>4. k' \in [Stages -> Nat] /\ turn' \in [Workers -> Cameras] /\ hand' \in [Workers -> Frames]
      BY <1>0, <3>1, <3>3 DEF TypeOK
    <3> QED  BY <3>1, <3>2, <3>4 DEF TypeOK
  <2> QED  BY <1>8, <2>1, <2>2, <2>3, <2>4, <2>5, <2>6, <2>7 DEF Working
<1> QED  BY <1>1, <1>3, <1>4, <1>5, <1>6, <1>7, <1>8, Sorts DEF Acting

(* Every step keeps the counters in their bounds, and a worker that is not *)
(* in its loop at the first camera.                                        *)
LEMMA CountersStep ==
  ASSUME TypeOK, CountersOK, ScriptOK, [Next]_vars
  PROVE  CountersOK'
<1>0. TypeOK'  BY TypeStep
<1>1. CASE Aside  BY <1>1 DEF Aside, CountersOK, Top, Count
<1> DEFINE Fine(s) == /\ k'[s] \in 1 .. Top(s)'
                      /\ s \in Workers => turn'[s] \in 1 .. cams'[s]
                      /\ s \in Workers /\ at'[s] \notin Looping => turn'[s] = 1
<1>2. ASSUME NEW s \in Stages, Only(s), Fine(s) PROVE CountersOK'
  <2> SUFFICES ASSUME NEW j \in Stages \ {s} PROVE Fine(j)
    BY <1>2 DEF CountersOK
  <2>1. Top(j)' = Top(j)
    <3>1. CASE j = audio
      <4>1. at[j] \in {"off", "dead", "run"} /\ at'[j] = at[j]
        BY <1>2, <3>1 DEF Only, TypeOK, Places
      <4> QED  BY <3>1, <4>1 DEF Top
    <3>2. CASE j # audio  BY <1>2, <3>2 DEF Only, Top, Count, TypeOK, Places
    <3> QED  BY <3>1, <3>2
  <2> QED  BY <1>2, <2>1 DEF Only, CountersOK
<1>3. ASSUME NEW s \in Stages, Ending(s) PROVE Fine(s)
  BY <1>3, EndingIs DEF Top, TypeOK
<1>4. ASSUME NEW s \in Stages, Starting(s) PROVE Fine(s)
  <2>1. k[s] = 1 /\ (s \in Workers => turn[s] = 1 /\ 1 \in 1 .. cams[s])
    BY <1>4, StartingIs DEF Top, CountersOK, Looping, TypeOK
  <2>2. at'[s] = First(s) /\ k' = k /\ turn' = turn /\ cams' = cams /\ setup' = setup
    BY <1>4, StartingIs DEF TypeOK
  <2>3. 1 \in 1 .. Top(s)'
    <3>1. CASE s = capture
      <4>1. Top(s)' = Count(s)' /\ Count(s)' = setup.cameras
        BY <2>2, <3>1 DEF First, Top, Count
      <4> QED  BY <4>1, MakesCapture
    <3>2. CASE s # capture  BY <2>2, <3>2 DEF First, Top
    <3> QED  BY <3>1, <3>2
  <2> QED  BY <2>1, <2>2, <2>3
<1>5. ASSUME NEW s \in Stages, Zero(s) PROVE Fine(s)
  BY <1>5, ZeroIs DEF Top, Count, TypeOK, CountersOK, Looping
<1>6. ASSUME NEW s \in Stages, Fill(s) PROVE Fine(s)
  <2>1. /\ k[s] \in 1 .. Count(s) /\ s # audio /\ at[s] = "fill"
        /\ UNCHANGED <<setup, cams, turn>>
    BY <1>6, FillIs
  <2>2. Count(s)' = Count(s) /\ Count(s) \in Nat \ {0}  BY <2>1, CountIs DEF Count
  <2>3. s \in Workers => turn'[s] \in 1 .. cams'[s] /\ turn'[s] = 1
    BY <2>1 DEF CountersOK, Looping
  <2>4. CASE k[s] < Count(s) /\ k' = [k EXCEPT ![s] = k[s] + 1] /\ at' = [at EXCEPT ![s] = "zero"]
    <3>1. at'[s] = "zero" /\ k'[s] = k[s] + 1  BY <2>4 DEF TypeOK
    <3>2. Top(s)' = Count(s)  BY <2>2, <3>1 DEF Top
    <3> QED  BY <2>1, <2>2, <2>3, <2>4, <3>1, <3>2
  <2>5. CASE k' = [k EXCEPT ![s] = 1] /\ at' = [at EXCEPT ![s] = "run"]
    <3>1. at'[s] = "run" /\ k'[s] = 1  BY <2>5 DEF TypeOK
    <3> QED  BY <2>3, <3>1 DEF Top
  <2> QED  BY <1>6, <2>4, <2>5, FillIs
<1>7. ASSUME NEW c \in Cameras, Capturing(c) PROVE Fine(capture)
  <2>1. UNCHANGED <<setup, at, k, cams>> /\ at[capture] = "run"  BY <1>7, CapturingIs
  <2> QED  BY <2>1 DEF Top, Count, CountersOK
<1>8. ASSUME NEW w \in Workers, Working(w) PROVE Fine(w)
  <2> USE DEF Looping
  <2>1. CASE Resolve(w)
    <3>1. k[w] = 1 /\ turn[w] = 1  BY <2>1 DEF Resolve, Top, CountersOK
    <3>2. at'[w] = "open" /\ cams'[w] \in 1 .. 2 /\ k' = k /\ turn' = turn
      BY <2>1 DEF Resolve, Still, TypeOK
    <3> QED  BY <3>1, <3>2 DEF Top
  <2>2. CASE OpenReader(w)
    <3>1. turn[w] = 1 /\ turn' = turn /\ cams' = cams /\ at[w] = "open"
      BY <2>2 DEF OpenReader, worker, CountersOK
    <3>2. CASE k[w] < cams[w]
      BY <2>2, <3>1, <3>2 DEF OpenReader, Top, TypeOK, CountersOK
    <3>3. CASE ~(k[w] < cams[w])
      <4>1. at'[w] = "zero" /\ k'[w] = 1  BY <2>2, <3>3 DEF OpenReader, TypeOK
      <4>2. Count(w)' \in Nat \ {0}  BY <2>2, <3>1, CountIs DEF OpenReader, Still, Count
      <4> QED  BY <3>1, <4>1, <4>2 DEF Top, CountersOK
    <3> QED  BY <3>2, <3>3
  <2>3. CASE Reads(w)
    <3>1. k[w] = 1 /\ at'[w] = "check" /\ UNCHANGED <<k, cams, turn>>
      BY <2>3, ReadsIs DEF TypeOK
    <3> QED  BY <3>1 DEF Top, CountersOK
  <2>4. CASE NothingNew(w)
    <3>1. (turn[w] % cams[w]) + 1 \in 1 .. cams[w]  BY Turns DEF CountersOK, TypeOK
    <3> QED  BY <2>4, <3>1 DEF NothingNew, NextTurn, Top, TypeOK, CountersOK
  <2>5. CASE CheckHeader(w)
    <3>1. at[w] = "check" /\ at'[w] = "write" /\ UNCHANGED <<k, cams, turn>>
      BY <2>5 DEF CheckHeader, worker, TypeOK
    <3>2. k[w] = 1  BY <3>1 DEF CountersOK, Top
    <3> QED  BY <3>1, <3>2 DEF Top, CountersOK
  <2>6. CASE Write(w)
    <3>1. at[w] = "write" /\ at'[w] = "publish" /\ UNCHANGED <<k, cams, turn>>
      BY <2>6, WriteIs DEF TypeOK
    <3>2. Top(w)' = Top(w)  BY <3>1 DEF Top
    <3> QED  BY <3>1, <3>2 DEF CountersOK
  <2>7. CASE Publish(w)
    <3>1. at[w] = "publish" /\ k[w] \in 1 .. Top(w) /\ cams' = cams  BY <2>7, PublishIs
    <3>2. CASE /\ k[w] < Top(w) /\ UNCHANGED <<turn, hand>>
               /\ k' = [k EXCEPT ![w] = k[w] + 1] /\ at' = [at EXCEPT ![w] = "write"]
      <4>1. k'[w] = k[w] + 1 /\ at'[w] = "write" /\ turn' = turn  BY <3>2 DEF TypeOK
      <4>2. Top(w)' = Top(w) /\ Top(w) \in {1, 2}  BY <3>1, <4>1 DEF Top
      <4> QED  BY <3>1, <3>2, <4>1, <4>2 DEF CountersOK
    <3>3. CASE /\ k' = [k EXCEPT ![w] = 1] /\ at' = [at EXCEPT ![w] = "run"]
               /\ turn' = [turn EXCEPT ![w] = (turn[w] % cams[w]) + 1]
      <4>1. (turn[w] % cams[w]) + 1 \in 1 .. cams[w]  BY Turns DEF CountersOK, TypeOK
      <4>2. k'[w] = 1 /\ at'[w] = "run" /\ turn'[w] \in 1 .. cams[w]
        BY <3>3, <4>1 DEF TypeOK
      <4> QED  BY <3>1, <4>2 DEF Top
    <3> QED  BY <2>7, <3>2, <3>3, PublishIs
  <2> QED  BY <1>8, <2>1, <2>2, <2>3, <2>4, <2>5, <2>6, <2>7 DEF Working
<1> QED
  <2>1. ASSUME NEW s \in Stages, Acting(s) PROVE CountersOK'
    BY <1>2, <1>3, <1>4, <1>5, <1>6, <1>7, <1>8, <2>1, Stays DEF Acting
  <2> QED  BY <1>1, <2>1, Sorts

-----------------------------------------------------------------------------
(* What each process knows of the rings it writes.                         *)

(* The rings a process makes are different ones.                           *)
LEMMA MakesApart ==
  ASSUME TypeOK, NEW s \in Stages \ {audio}, NEW p \in 1 .. Count(s), NEW q \in 1 .. Count(s),
         p # q
  PROVE  Makes(s)[p] # Makes(s)[q]
<1>1. CASE s = capture  BY <1>1, MakesCapture DEF Count
<1>2. CASE s = undistort
  <2>1. \A i \in 1 .. cams[undistort] : Makes(s)[i] = <<"rect", i>>  BY <1>2, MakesUndistort
  <2> QED  BY <1>2, <2>1 DEF Count
<1>3. CASE s = depth
  <2> DEFINE n == cams[depth]
  <2>1. n \in 1 .. 2 /\ p \in 1 .. 2 * n /\ q \in 1 .. 2 * n  BY <1>3 DEF Count, TypeOK
  <2>2. Makes(s) = [i \in 1 .. 2 * n |-> IF i <= n THEN <<"depth", i>> ELSE <<"det", i - n>>]
    BY <1>3 DEF Makes
  <2> HIDE DEF n
  <2>3. /\ Makes(s)[p] = IF p <= n THEN <<"depth", p>> ELSE <<"det", p - n>>
        /\ Makes(s)[q] = IF q <= n THEN <<"depth", q>> ELSE <<"det", q - n>>
    BY <2>1, <2>2
  <2> QED  BY <2>1, <2>3
<1> QED  BY <1>1, <1>2, <1>3

(* Other processes leave a process's rings alone.                          *)
LEMMA MakesStay ==
  ASSUME TypeOK, NEW s \in 1 .. 3, NEW j \in Stages \ {s}, Only(j)
  PROVE  /\ Makes(s)' = Makes(s)
         /\ \A i \in 1 .. Count(s) : ring'[Makes(s)[i]] = ring[Makes(s)[i]]
<1>1. Makes(s)' = Makes(s)
  <2>1. setup' = setup /\ (s \in Workers => cams'[s] = cams[s])  BY DEF Only
  <2> QED  BY <2>1 DEF Makes
<1>2. ASSUME NEW i \in 1 .. Count(s) PROVE ring'[Makes(s)[i]] = ring[Makes(s)[i]]
  <2>1. Makes(s)[i] \in Rings /\ Makes(s)[i][1] \in Own(s)  BY MakesOwn
  <2>2. Makes(s)[i][1] \notin Own(j)  BY <2>1 DEF Own
  <2> QED  BY <2>1, <2>2 DEF Only
<1> QED  BY <1>1, <1>2

(* What a process has made stays empty.                                    *)
LEMMA MadeStep ==
  ASSUME TypeOK, CountersOK, ScriptOK, [Next]_vars, NEW s \in 1 .. 3, MadeOK(s)
  PROVE  MadeOK(s)'
<1>1. CASE Aside  BY <1>1 DEF Aside, MadeOK, Makes, Exists
<1>2. ASSUME NEW j \in Stages \ {s}, Only(j) PROVE MadeOK(s)'
  <2>1. at'[s] = at[s] /\ k'[s] = k[s]  BY <1>2 DEF Only
  <2>2. /\ Makes(s)' = Makes(s)
        /\ \A i \in 1 .. Count(s) : ring'[Makes(s)[i]] = ring[Makes(s)[i]]
    BY <1>2, MakesStay
  <2>3. at[s] \in {"zero", "fill"} => k[s] \in 1 .. Count(s) /\ Count(s) \in Nat
    BY CountIs DEF CountersOK, Top
  <2> QED  BY <2>1, <2>2, <2>3 DEF MadeOK, Exists
<1>3. CASE Zero(s)
  <2> DEFINE r == Makes(s)[k[s]]
  <2>1. /\ s # audio /\ at[s] = "zero" /\ at' = [at EXCEPT ![s] = "fill"]
        /\ UNCHANGED <<setup, k, cams>> /\ r \in Rings /\ k[s] \in 1 .. Count(s) /\ Others(r)
        /\ ring'[r] = [st |-> "blank", newest |-> ring[r].newest, ahead |-> ring[r].ahead]
    BY <1>3, ZeroIs
  <2>2. Makes(s)' = Makes(s)  BY <2>1 DEF Makes
  <2>3. ring'[r].st # "none"  BY <2>1
  <2>4. ASSUME NEW i \in 1 .. k[s], i < k[s] PROVE ring'[Makes(s)[i]] = Empty
    <3>1. i \in 1 .. Count(s) /\ i # k[s]  BY <2>1, <2>4, CountIs
    <3>2. Makes(s)[i] \in Rings /\ Makes(s)[i] # r  BY <2>1, <3>1, MakesApart, MakesOwn
    <3>3. ring[Makes(s)[i]] = Empty  BY <2>1, <2>4 DEF MadeOK
    <3> QED  BY <2>1, <3>2, <3>3 DEF Others
  <2> HIDE DEF r
  <2>5. k'[s] = k[s]  BY <2>1
  <2> QED  BY <2>2, <2>3, <2>4, <2>5 DEF MadeOK, Exists, r
<1>4. CASE Fill(s)
  <2> DEFINE r == Makes(s)[k[s]]
  <2>1. /\ at[s] = "fill" /\ UNCHANGED <<setup, cams>> /\ r \in Rings /\ k[s] \in 1 .. Count(s)
        /\ Others(r) /\ ring'[r] = Empty
    BY <1>4, FillIs
  <2>2. Makes(s)' = Makes(s)  BY <2>1 DEF Makes
  <2>3. CASE k' = [k EXCEPT ![s] = k[s] + 1] /\ at' = [at EXCEPT ![s] = "zero"]
    <3>1. k'[s] = k[s] + 1 /\ at'[s] = "zero"  BY <2>3 DEF TypeOK
    <3>2. ASSUME NEW i \in 1 .. k'[s], i < k'[s] PROVE ring'[Makes(s)[i]] = Empty
      <4>1. i \in 1 .. k[s] /\ i \in 1 .. Count(s)  BY <2>1, <3>1, <3>2, CountIs
      <4>2. Makes(s)[i] \in Rings  BY <4>1, MakesOwn
      <4>3. CASE i = k[s]  BY <2>1, <4>3
      <4>4. CASE i # k[s]
        <5>1. i < k[s]  BY <2>1, <4>1, <4>4, CountIs
        <5>2. ring[Makes(s)[i]] = Empty  BY <2>1, <4>1, <5>1 DEF MadeOK
        <5> QED  BY <2>1, <4>2, <5>2 DEF Others
      <4> QED  BY <4>3, <4>4
    <3> QED  BY <2>2, <3>1, <3>2 DEF MadeOK
  <2>4. CASE at' = [at EXCEPT ![s] = "run"]  BY <2>4 DEF MadeOK, TypeOK
  <2> QED  BY <1>4, <2>3, <2>4, FillIs
<1>5. ASSUME at'[s] \notin {"zero", "fill"} \/ (at'[s] = "zero" /\ k'[s] = 1) PROVE MadeOK(s)'
  BY <1>5 DEF MadeOK
<1>6. CASE Ending(s)  BY <1>5, <1>6, EndingIs DEF TypeOK
<1>7. CASE Starting(s)
  <2>1. k'[s] = 1  BY <1>7, StartingIs DEF CountersOK, Top
  <2>2. at'[s] = First(s)  BY <1>7, StartingIs DEF TypeOK
  <2>3. at'[s] = "zero" \/ at'[s] = "wait"  BY <2>2 DEF First
  <2> QED  BY <1>5, <2>1, <2>3
<1>8. CASE s = capture /\ \E c \in Cameras : Capturing(c)
  <2>1. at[s] = "run" /\ at' = at  BY <1>8, CapturingIs
  <2> QED  BY <1>5, <2>1
<1>9. CASE s \in Workers /\ Working(s)
  <2>1. CASE Reads(s)
    <3>1. at'[s] = "check"  BY <1>9, <2>1, ReadsIs DEF TypeOK
    <3> QED  BY <1>5, <3>1
  <2>2. CASE Write(s)
    <3>1. at'[s] = "publish"  BY <1>9, <2>2, WriteIs DEF TypeOK
    <3> QED  BY <1>5, <3>1
  <2>3. CASE Publish(s)
    <3>1. at' = [at EXCEPT ![s] = "write"] \/ at' = [at EXCEPT ![s] = "run"]
      BY <1>9, <2>3, PublishIs
    <3>2. at'[s] \in {"write", "run"}  BY <3>1 DEF TypeOK
    <3> QED  BY <1>5, <3>2
  <2>4. CASE Resolve(s) \/ OpenReader(s) \/ NothingNew(s) \/ CheckHeader(s)
    <3>1. at'[s] \notin {"zero", "fill"} \/ (at'[s] = "zero" /\ k'[s] = 1)
      BY <2>4 DEF Resolve, OpenReader, NothingNew, CheckHeader, TypeOK
    <3> QED  BY <1>5, <3>1
  <2> QED  BY <1>9, <2>1, <2>2, <2>3, <2>4 DEF Working
<1> QED
  <2>1. ASSUME NEW j \in Stages, Acting(j) PROVE MadeOK(s)'
    <3>1. CASE j = s
      <4>1. CASE Ending(s)  BY <1>6, <4>1
      <4>2. CASE ~Ending(s)
        BY <1>3, <1>4, <1>7, <1>8, <1>9, <2>1, <3>1, <4>2, Zenon DEF Acting
      <4> QED  BY <4>1, <4>2
    <3>2. CASE j # s  BY <1>2, <2>1, <3>2, Stays
    <3> QED  BY <3>1, <3>2
  <2> QED  BY <1>1, <2>1, Sorts

(* A process that has made its rings finds them empty.                     *)
LEMMA AllMade ==
  ASSUME TypeOK, CountersOK, NEW s \in 1 .. 3, MadeOK(s), Fill(s), at'[s] = "run"
  PROVE  \A p \in 1 .. Count(s) : Makes(s)[p] \in Rings /\ ring'[Makes(s)[p]] = Empty
<1> SUFFICES ASSUME NEW p \in 1 .. Count(s)
             PROVE  Makes(s)[p] \in Rings /\ ring'[Makes(s)[p]] = Empty
  OBVIOUS
<1> DEFINE r == Makes(s)[k[s]]
<1>1. /\ at[s] = "fill" /\ k[s] = Count(s) /\ Others(r) /\ ring'[r] = Empty
  <2>1. at' # [at EXCEPT ![s] = "zero"]  BY DEF TypeOK
  <2> QED  BY <2>1, FillIs
<1>2. Count(s) \in Nat /\ Makes(s)[p] \in Rings  BY CountIs, MakesOwn
<1>3. CASE p = k[s]  BY <1>1, <1>2, <1>3
<1>4. CASE p # k[s]
  <2>1. p \in 1 .. k[s] /\ p < k[s]  BY <1>1, <1>2, <1>4
  <2>2. ring[Makes(s)[p]] = Empty  BY <1>1, <2>1 DEF MadeOK
  <2> QED  BY <1>1, <1>2, <2>2 DEF Others
<1> QED  BY <1>3, <1>4

(* The depth worker enters its loop with empty rings.                      *)
LEMMA RunsEmpty ==
  ASSUME TypeOK, CountersOK, MadeOK(depth), Fill(depth), at'[depth] = "run",
         NEW c \in 1 .. cams[depth]
  PROVE  /\ ring'[<<"depth", c>>].newest = NoFrame
         /\ ring'[<<"det", c>>].newest = NoFrame
<1>1. cams[depth] \in 1 .. 2  BY DEF TypeOK
<1>2. c \in 1 .. Count(depth) /\ cams[depth] + c \in 1 .. Count(depth)  BY <1>1 DEF Count
<1>3. \A p \in 1 .. Count(depth) : ring'[Makes(depth)[p]] = Empty
  <2>1. depth \in 1 .. 3  OBVIOUS
  <2> HIDE DEF depth
  <2> QED  BY <2>1, AllMade
<1>4. Makes(depth)[c] = <<"depth", c>> /\ Makes(depth)[cams[depth] + c] = <<"det", c>>
  BY MakesDepth, Zenon
<1> QED  BY <1>2, <1>3, <1>4 DEF Empty

(* After these steps a worker is not in its loop.                          *)
LEMMA NotYet ==
  ASSUME TypeOK, CountersOK, NEW w \in Workers,
         \/ Ending(w) \/ Starting(w) \/ Zero(w) \/ Resolve(w) \/ OpenReader(w)
         \/ Fill(w) /\ at'[w] # "run"
  PROVE  at'[w] \notin Looping
<1> USE DEF Looping
<1>1. CASE Ending(w)  BY <1>1, EndingIs DEF TypeOK
<1>2. CASE Starting(w)  BY <1>2, StartingIs DEF First, TypeOK
<1>3. CASE Zero(w)  BY <1>3, ZeroIs DEF TypeOK
<1>4. CASE Resolve(w)  BY <1>4 DEF Resolve, TypeOK
<1>5. CASE OpenReader(w)
  <2>1. (at[w] = "open" /\ at' = at) \/ at' = [at EXCEPT ![w] = "zero"]
    BY <1>5 DEF OpenReader
  <2> QED  BY <2>1 DEF TypeOK
<1>6. CASE Fill(w) /\ at'[w] # "run"
  <2>1. at' = [at EXCEPT ![w] = "zero"] \/ at' = [at EXCEPT ![w] = "run"]  BY <1>6, FillIs
  <2> QED  BY <1>6, <2>1 DEF TypeOK
<1> QED  BY <1>1, <1>2, <1>3, <1>4, <1>5, <1>6

(* What a worker publishes is what it holds.                               *)
LEMMA HandStep ==
  ASSUME TypeOK, CountersOK, ScriptOK, [Next]_vars, NEW w \in Workers, HandOK(w)
  PROVE  HandOK(w)'
<1>1. CASE Aside  BY <1>1 DEF Aside, HandOK, Output
<1>2. ASSUME NEW s \in Stages \ {w}, Only(s) PROVE HandOK(w)'
  <2> SUFFICES ASSUME at'[w] = "publish"
               PROVE  ring'[Output(w, turn'[w])[k'[w]]].ahead = hand'[w]
    BY DEF HandOK, Output
  <2>1. at'[w] = at[w] /\ k'[w] = k[w] /\ turn'[w] = turn[w] /\ hand'[w] = hand[w]
    BY <1>2 DEF Only
  <2> DEFINE r == Output(w, turn[w])[k[w]]
  <2>2. r \in Rings /\ r[1] \in Own(w)  BY <2>1, Writing
  <2>3. r[1] \notin Own(s)  BY <1>2, <2>2 DEF Own
  <2> HIDE DEF r
  <2>4. ring'[r] = ring[r]  BY <1>2, <2>2, <2>3 DEF Only
  <2>5. ring[r].ahead = hand[w]  BY <2>1 DEF HandOK, r
  <2> QED  BY <2>1, <2>4, <2>5 DEF r
<1>3. CASE at'[w] # "publish"  BY <1>3 DEF HandOK
<1>4. CASE Write(w)
  <2> DEFINE r == Output(w, turn[w])[k[w]]
  <2>1. ring'[r].ahead = hand[w] /\ UNCHANGED <<k, turn, hand>>  BY <1>4, WriteIs
  <2>2. Output(w, turn[w])' = Output(w, turn[w])  BY <2>1 DEF Output
  <2> QED  BY <2>1, <2>2 DEF HandOK
<1>5. CASE Acting(w) /\ ~Write(w)
  <2>1. CASE Ending(w) \/ Starting(w) \/ Zero(w) \/ Resolve(w) \/ OpenReader(w) \/ Fill(w)
    <3>1. at'[w] \notin Looping \/ at'[w] = "run"  BY <2>1, NotYet
    <3> QED  BY <1>3, <3>1 DEF Looping
  <2>2. CASE Reads(w)
    <3>1. at'[w] = "check"  BY <2>2, ReadsIs DEF TypeOK
    <3> QED  BY <1>3, <3>1
  <2>3. CASE NothingNew(w)
    <3>1. at[w] = "run" /\ at' = at  BY <2>3 DEF NothingNew
    <3> QED  BY <1>3, <3>1
  <2>4. CASE CheckHeader(w)
    <3>1. at'[w] = "write"  BY <2>4 DEF CheckHeader, TypeOK
    <3> QED  BY <1>3, <3>1
  <2>5. CASE Publish(w)
    <3>1. at' = [at EXCEPT ![w] = "write"] \/ at' = [at EXCEPT ![w] = "run"]
      BY <2>5, PublishIs
    <3>2. at'[w] # "publish"  BY <3>1 DEF TypeOK
    <3> QED  BY <1>3, <3>2
  <2> QED  BY <1>5, <2>1, <2>2, <2>3, <2>4, <2>5 DEF Acting, Working
<1> QED
  <2>1. ASSUME NEW s \in Stages, Acting(s) PROVE HandOK(w)'
    BY <1>2, <1>4, <1>5, <2>1, Stays
  <2> QED  BY <1>1, <2>1, Sorts

(* Every step keeps the two outputs of the depth worker together.          *)
LEMMA PairStep ==
  ASSUME TypeOK, CountersOK, ScriptOK, [Next]_vars, MadeOK(depth), HandOK(depth), PairOK
  PROVE  PairOK'
<1> DEFINE w == depth
<1>1. CASE Aside  BY <1>1 DEF Aside, PairOK, PairAt
<1>2. ASSUME NEW s \in Stages \ {w}, Only(s) PROVE PairOK'
  <2> SUFFICES ASSUME at'[w] \in Looping, NEW c \in 1 .. cams'[w] PROVE PairAt(c)'
    BY DEF PairOK
  <2>1. /\ at'[w] = at[w] /\ k'[w] = k[w] /\ cams'[w] = cams[w] /\ turn'[w] = turn[w]
        /\ hand'[w] = hand[w]
    BY <1>2 DEF Only
  <2>2. c \in Cameras  BY <2>1 DEF TypeOK
  <2>3. \A name \in {"depth", "det"} : <<name, c>> \in Rings /\ <<name, c>>[1] \notin Own(s)
    BY <1>2, <2>2 DEF Rings, Own
  <2>4. ring'[<<"depth", c>>] = ring[<<"depth", c>>] /\ ring'[<<"det", c>>] = ring[<<"det", c>>]
    BY <1>2, <2>3 DEF Only
  <2>5. PairAt(c)  BY <2>1 DEF PairOK
  <2> QED  BY <2>1, <2>4, <2>5 DEF PairAt
<1>3. CASE at'[w] \notin Looping  BY <1>3 DEF PairOK
<1>4. CASE Fill(w) /\ at'[w] = "run"
  <2>1. k'[w] = 1 /\ cams' = cams
    <3>1. at' # [at EXCEPT ![w] = "zero"]  BY <1>4 DEF TypeOK
    <3>2. k' = [k EXCEPT ![w] = 1] /\ cams' = cams  BY <1>4, <3>1, FillIs
    <3> QED  BY <3>2 DEF TypeOK
  <2>2. \A c \in 1 .. cams[w] : /\ ring'[<<"depth", c>>].newest = NoFrame
                                /\ ring'[<<"det", c>>].newest = NoFrame
    BY <1>4, RunsEmpty
  <2> SUFFICES ASSUME NEW c \in 1 .. cams'[w] PROVE PairAt(c)'
    BY DEF PairOK
  <2>3. k'[depth] # 2  BY <2>1
  <2>4. ring'[<<"det", c>>].newest = ring'[<<"depth", c>>].newest  BY <2>1, <2>2
  <2> QED  BY <2>3, <2>4 DEF PairAt
<1>5. CASE Reads(w) \/ NothingNew(w) \/ CheckHeader(w)
  <2>1. /\ UNCHANGED <<ring, k, cams>> /\ at[w] \in {"run", "check"}
    <3>1. CASE Reads(w)  BY <3>1, ReadsIs
    <3>2. CASE NothingNew(w) \/ CheckHeader(w)
      BY <3>2 DEF NothingNew, CheckHeader, worker
    <3> QED  BY <1>5, <3>1, <3>2
  <2>2. k[w] = 1 /\ at[w] \in Looping  BY <2>1 DEF CountersOK, Top, Looping
  <2> SUFFICES ASSUME NEW c \in 1 .. cams'[w] PROVE PairAt(c)'
    BY DEF PairOK
  <2>3. PairAt(c)  BY <2>1, <2>2 DEF PairOK
  <2> QED  BY <2>1, <2>2, <2>3 DEF PairAt
<1>6. CASE Write(w)
  <2> DEFINE r == Output(w, turn[w])[k[w]]
  <2>1. /\ UNCHANGED <<k, cams, turn, hand>> /\ at[w] = "write" /\ Others(r) /\ r \in Rings
        /\ ring'[r].newest = ring[r].newest
    BY <1>6, WriteIs
  <2> HIDE DEF r
  <2>2. \A q \in Rings : ring'[q].newest = ring[q].newest  BY <2>1 DEF Others
  <2> SUFFICES ASSUME NEW c \in 1 .. cams'[w] PROVE PairAt(c)'
    BY DEF PairOK
  <2>3. PairAt(c) /\ c \in Cameras  BY <2>1 DEF PairOK, Looping, TypeOK
  <2>4. <<"depth", c>> \in Rings /\ <<"det", c>> \in Rings  BY <2>3 DEF Rings
  <2> QED  BY <2>1, <2>2, <2>3, <2>4 DEF PairAt
<1>7. CASE Publish(w)
  <2> DEFINE t == turn[w]
             r == Output(w, t)[k[w]]
             f == hand[w]
  <2>1. /\ UNCHANGED cams /\ at[w] = "publish" /\ Others(r) /\ r \in Rings
        /\ ring'[r].newest = ring[r].ahead
    BY <1>7, PublishIs
  <2>2. t \in Cameras /\ t \in 1 .. cams[w] /\ k[w] \in 1 .. 2 /\ Top(w) = 2 /\ at[w] \in Looping
    <3>1. Top(w) = 2 /\ at[w] \in Looping  BY <2>1 DEF Top, Looping
    <3>2. k[w] \in 1 .. Top(w)  BY DEF CountersOK
    <3> QED  BY <3>1, <3>2 DEF CountersOK, TypeOK
  <2>3. /\ k[w] = 1 => r = <<"depth", t>>
        /\ k[w] # 1 => r = <<"det", t>>
    <3>1. Output(w, t) = << <<"depth", t>>, <<"det", t>> >>  BY DEF Output
    <3>2. k[w] = 1 \/ k[w] = 2  BY <2>2
    <3> HIDE DEF t
    <3> QED  BY <3>1, <3>2
  <2>4. ring[r].ahead = f  BY <2>1 DEF HandOK
  <2>5. PairAt(t)  BY <2>2 DEF PairOK
  <2> SUFFICES ASSUME NEW c \in 1 .. cams'[w] PROVE PairAt(c)'
    BY DEF PairOK
  <2>6. c \in Cameras /\ c \in 1 .. cams[w]  BY <2>1 DEF TypeOK
  <2>7. <<"depth", c>> \in Rings /\ <<"det", c>> \in Rings  BY <2>6 DEF Rings
  <2>8. \A q \in Rings : ring'[q].newest = IF q = r THEN f ELSE ring[q].newest
    BY <2>1, <2>4 DEF Others
  <2>9. \/ k[w] = 1 /\ k'[w] = 2 /\ UNCHANGED <<turn, hand>>
        \/ k[w] = 2 /\ k'[w] = 1
    <3>1. CASE k[w] < Top(w) /\ k' = [k EXCEPT ![w] = k[w] + 1] /\ UNCHANGED <<turn, hand>>
      BY <2>2, <3>1 DEF TypeOK
    <3>2. CASE k[w] = Top(w) /\ k' = [k EXCEPT ![w] = 1]
      BY <2>2, <3>2 DEF TypeOK
    <3> QED  BY <1>7, <3>1, <3>2, PublishIs
  <2> HIDE DEF r
  <2>10. CASE c # t
    <3>1. UNCHANGED <<ring[<<"depth", c>>].newest, ring[<<"det", c>>].newest>>
      BY <2>2, <2>3, <2>7, <2>8, <2>10
    <3>2. ring[<<"det", c>>].newest = ring[<<"depth", c>>].newest
      BY <2>2, <2>6, <2>10 DEF PairOK, PairAt
    <3>3. ~(turn'[w] = c /\ k'[w] = 2)  BY <2>9, <2>10
    <3> QED  BY <3>1, <3>2, <3>3 DEF PairAt
  <2>11. CASE c = t /\ k[w] = 1
    <3>1. ring'[<<"depth", c>>].newest = f  BY <2>3, <2>7, <2>8, <2>11
    <3>2. hand'[w] = f /\ turn'[w] = c /\ k'[w] = 2  BY <2>9, <2>11
    <3> HIDE DEF f, t
    <3> QED  BY <3>1, <3>2 DEF PairAt
  <2>12. CASE c = t /\ k[w] # 1
    <3>1. ring'[<<"det", c>>].newest = f /\ ring'[<<"depth", c>>].newest = ring[<<"depth", c>>].newest
      BY <2>3, <2>7, <2>8, <2>12
    <3>2. ring[<<"depth", t>>].newest = f  BY <2>2, <2>5, <2>12 DEF PairAt
    <3>3. k'[w] = 1  BY <2>9, <2>12
    <3> HIDE DEF f, t
    <3> QED  BY <2>12, <3>1, <3>2, <3>3 DEF PairAt
  <2> QED  BY <2>10, <2>11, <2>12
<1> QED
  <2>1. CASE Acting(w)
    <3>1. CASE \/ Ending(w) \/ Starting(w) \/ Zero(w) \/ Resolve(w) \/ OpenReader(w)
               \/ Fill(w) /\ at'[w] # "run"
      <4>1. w \in Workers  OBVIOUS
      <4> HIDE DEF w
      <4>2. at'[w] \notin Looping  BY <3>1, <4>1, NotYet
      <4> QED  BY <1>3, <4>2 DEF w
    <3> QED  BY <1>4, <1>5, <1>6, <1>7, <2>1, <3>1 DEF Acting, Working
  <2>2. ASSUME NEW s \in Stages, Acting(s) PROVE PairOK'
    BY <1>2, <2>1, <2>2, Stays
  <2> QED  BY <1>1, <2>2, Sorts

-----------------------------------------------------------------------------
(* The frames of the running daemon.                                       *)

(* What the daemon's rings may hold.                                       *)
LEMMA RunsStep ==
  ASSUME TypeOK, CountersOK, ScriptOK, [Next]_vars, MadeOK(capture), RunsOK
  PROVE  RunsOK'
<1> USE DEF Cam
<1>0. \A c \in Cameras : /\ <<"cam", c>> \in Rings
                         /\ Cam(c).newest.run \in Nat /\ Cam(c).ahead.run \in Nat
  <2> SUFFICES ASSUME NEW c \in Cameras
               PROVE  <<"cam", c>> \in Rings /\ Cam(c).newest.run \in Nat /\ Cam(c).ahead.run \in Nat
    OBVIOUS
  <2>1. <<"cam", c>> \in Rings  BY DEF Rings
  <2>2. Cam(c).newest \in Frames /\ Cam(c).ahead \in Frames  BY <2>1, RingParts DEF TypeOK
  <2> QED  BY <2>1, <2>2 DEF Frames, NoFrame
<1>1. CASE Aside  BY <1>1 DEF Aside, RunsOK
<1>2. ASSUME NEW s \in Stages \ {capture}, Only(s) PROVE RunsOK'
  <2>1. at'[capture] = at[capture] /\ starts'[capture] = starts[capture] /\ setup' = setup
    BY <1>2 DEF Only
  <2>2. \A c \in Cameras : Cam(c)' = Cam(c)
    <3>1. \A c \in Cameras : <<"cam", c>>[1] \notin Own(s)  BY <1>2 DEF Own
    <3> QED  BY <1>0, <1>2, <3>1 DEF Only
  <2>3. 1 .. setup.cameras \subseteq Cameras  BY SetupsAssumption DEF TypeOK
  <2> HIDE DEF Cam
  <2> QED  BY <2>1, <2>2, <2>3 DEF RunsOK
<1>3. CASE Ending(capture)
  <2>1. at'[capture] = "dead" /\ UNCHANGED <<ring, starts>>  BY <1>3, EndingIs DEF TypeOK
  <2> QED  BY <2>1 DEF RunsOK
<1>4. CASE Starting(capture)
  <2>1. /\ at'[capture] = "zero" /\ starts'[capture] = starts[capture] + 1
        /\ starts[capture] \in Nat /\ UNCHANGED <<ring, setup>>
    BY <1>4, StartingIs DEF TypeOK, First
  <2> QED  BY <1>0, <2>1 DEF RunsOK
<1>5. CASE Zero(capture)
  <2> DEFINE r == Makes(capture)[k[capture]]
  <2>1. /\ at[capture] = "zero" /\ at'[capture] = "fill" /\ UNCHANGED <<setup, starts>>
        /\ r \in Rings /\ Others(r)
        /\ ring'[r] = [st |-> "blank", newest |-> ring[r].newest, ahead |-> ring[r].ahead]
    BY <1>5, ZeroIs DEF TypeOK
  <2> HIDE DEF r
  <2>2. \A q \in Rings : /\ ring'[q].newest = ring[q].newest /\ ring'[q].ahead = ring[q].ahead
                         /\ ring'[q].st \in {ring[q].st, "blank"}
    BY <2>1 DEF Others
  <2> QED  BY <1>0, <2>1, <2>2 DEF RunsOK
<1>6. CASE Fill(capture)
  <2> DEFINE r == Makes(capture)[k[capture]]
  <2>1. /\ at[capture] = "fill" /\ UNCHANGED <<setup, starts>>
        /\ r \in Rings /\ Others(r) /\ ring'[r] = Empty
        /\ at'[capture] \in {"zero", "run"}
    <3>1. at' = [at EXCEPT ![capture] = "zero"] \/ at' = [at EXCEPT ![capture] = "run"]
      BY <1>6, FillIs
    <3>2. at'[capture] \in {"zero", "run"}  BY <3>1 DEF TypeOK
    <3> QED  BY <1>6, <3>2, FillIs
  <2>2. at'[capture] = "run" => \A c \in 1 .. setup.cameras : ring'[<<"cam", c>>].st = "made"
    <3> SUFFICES ASSUME at'[capture] = "run", NEW c \in 1 .. setup.cameras
                 PROVE  ring'[<<"cam", c>>].st = "made"
      OBVIOUS
    <3>1. Makes(capture)[c] = <<"cam", c>> /\ c \in 1 .. Count(capture)
      BY MakesCapture DEF Count
    <3>2. capture \in 1 .. 3  OBVIOUS
    <3>3. ring'[Makes(capture)[c]] = Empty
      <4> HIDE DEF capture
      <4> QED  BY <1>6, <3>1, <3>2, AllMade
    <3> QED  BY <3>1, <3>3 DEF Empty
  <2> HIDE DEF r
  <2>3. starts[capture] > 0 /\ starts[capture] \in Nat  BY <2>1 DEF RunsOK, TypeOK
  <2>4. ASSUME NEW c \in Cameras
        PROVE  /\ Cam(c)'.newest.run < starts[capture] /\ Cam(c)'.ahead.run < starts[capture]
               /\ Cam(c)'.ahead # NoFrame => Cam(c)'.ahead.idx = Cam(c)'.newest.idx + 1
    <3>1. CASE <<"cam", c>> = r  BY <2>1, <2>3, <3>1 DEF Empty, NoFrame
    <3>2. CASE <<"cam", c>> # r
      <4>1. Cam(c)' = Cam(c)  BY <1>0, <2>1, <3>2 DEF Others
      <4> HIDE DEF Cam
      <4> QED  BY <2>1, <4>1 DEF RunsOK
    <3> QED  BY <3>1, <3>2
  <2>5. \A c \in Cameras : Cam(c)'.newest.run \in Nat /\ Cam(c)'.ahead.run \in Nat
    <3> SUFFICES ASSUME NEW c \in Cameras
                 PROVE  Cam(c)'.newest.run \in Nat /\ Cam(c)'.ahead.run \in Nat
      OBVIOUS
    <3>1. CASE <<"cam", c>> = r  BY <2>1, <3>1 DEF Empty, NoFrame
    <3>2. CASE <<"cam", c>> # r
      <4>1. Cam(c)' = Cam(c)  BY <1>0, <2>1, <3>2 DEF Others
      <4> HIDE DEF Cam
      <4> QED  BY <1>0, <4>1
    <3> QED  BY <3>1, <3>2
  <2>6. at'[capture] = "run" => \A c \in 1 .. setup.cameras : Cam(c)'.st = "made"  BY <2>2
  <2>7. \A c \in Cameras :
          Cam(c)'.newest.run <= starts[capture] /\ Cam(c)'.ahead.run <= starts[capture]
    <3> HIDE DEF Cam
    <3> QED  BY <2>3, <2>4, <2>5
  <2> HIDE DEF Cam
  <2> QED  BY <2>1, <2>3, <2>4, <2>6, <2>7 DEF RunsOK
<1>7. ASSUME NEW d \in Cameras, Capturing(d) PROVE RunsOK'
  <2> DEFINE r == <<"cam", d>>
             n == starts[capture]
             f == [run |-> n, idx |-> Cam(d).newest.idx + 1]
  <2>1. /\ at[capture] = "run" /\ UNCHANGED <<setup, at, starts>> /\ d \in 1 .. setup.cameras
        /\ r \in Rings /\ Others(r)
        /\ \/ ring'[r] = [st |-> ring[r].st, newest |-> ring[r].newest, ahead |-> f]
           \/ /\ ring[r].ahead # NoFrame
              /\ ring'[r] = [st |-> ring[r].st, newest |-> ring[r].ahead, ahead |-> NoFrame]
    BY <1>7, CapturingIs
  <2>2. /\ n > 0 /\ n \in Nat /\ Cam(d).st = "made"
        /\ Cam(d).newest.run <= n /\ Cam(d).ahead.run <= n
    BY <2>1 DEF RunsOK, TypeOK
  <2>3. /\ Cam(d)'.st = "made" /\ Cam(d)'.newest.run <= n /\ Cam(d)'.ahead.run <= n
        /\ Cam(d)'.ahead # NoFrame => Cam(d)'.ahead.idx = Cam(d)'.newest.idx + 1
    <3> HIDE DEF n
    <3>1. CASE ring'[r] = [st |-> ring[r].st, newest |-> ring[r].newest, ahead |-> f]
      BY <2>2, <3>1
    <3>2. CASE ring'[r] = [st |-> ring[r].st, newest |-> ring[r].ahead, ahead |-> NoFrame]
      BY <2>2, <3>2 DEF NoFrame
    <3> QED  BY <2>1, <3>1, <3>2
  <2>4. \A c \in Cameras : c # d => Cam(c)' = Cam(c)
    <3>1. \A c \in Cameras : c # d => <<"cam", c>> # r  OBVIOUS
    <3> HIDE DEF r
    <3> QED  BY <1>0, <2>1, <3>1 DEF Others
  <2>5. 1 .. setup.cameras \subseteq Cameras  BY SetupsAssumption DEF TypeOK
  <2> HIDE DEF Cam, f
  <2>6. at'[capture] = "run" /\ starts'[capture] = n /\ setup' = setup  BY <2>1
  <2>7. \A c \in 1 .. setup.cameras : Cam(c)'.st = "made"
    BY <2>1, <2>3, <2>4, <2>5 DEF RunsOK
  <2>8. \A c \in Cameras :
          /\ Cam(c)'.newest.run <= n /\ Cam(c)'.ahead.run <= n
          /\ Cam(c)'.st = "blank" => Cam(c)'.newest.run < n
          /\ Cam(c)'.ahead # NoFrame => Cam(c)'.ahead.idx = Cam(c)'.newest.idx + 1
    <3> SUFFICES ASSUME NEW c \in Cameras
                 PROVE  /\ Cam(c)'.newest.run <= n /\ Cam(c)'.ahead.run <= n
                        /\ Cam(c)'.st = "blank" => Cam(c)'.newest.run < n
                        /\ Cam(c)'.ahead # NoFrame => Cam(c)'.ahead.idx = Cam(c)'.newest.idx + 1
      OBVIOUS
    <3>1. CASE c = d  BY <2>3, <3>1
    <3>2. CASE c # d  BY <2>4, <3>2 DEF RunsOK
    <3> QED  BY <3>1, <3>2
  <2> QED  BY <2>2, <2>6, <2>7, <2>8 DEF RunsOK
<1> QED
  <2>1. ASSUME NEW s \in Stages, Acting(s) PROVE RunsOK'
    <3>1. CASE s # capture  BY <1>2, <2>1, <3>1, Stays
    <3>2. CASE s = capture  BY <1>3, <1>4, <1>5, <1>6, <1>7, <2>1, <3>2 DEF Acting
    <3> QED  BY <3>1, <3>2
  <2> QED  BY <1>1, <2>1, Sorts

(* Nothing is always within the bounds.                                    *)
LEMMA BoundNone ==
  ASSUME TypeOK, RunsOK, NEW c \in Cameras
  PROVE  Bound(NoFrame, c)
<1>1. <<"cam", c>> \in Rings  BY DEF Rings
<1>2. Cam(c).newest \in Frames  BY <1>1, RingParts DEF TypeOK, Cam
<1>3. Cam(c).newest # NoFrame => Cam(c).newest.idx \in Nat  BY <1>2 DEF Frames
<1>4. starts[capture] \in Nat  BY DEF TypeOK
<1>5. NoFrame.run = 0 /\ NoFrame.idx = -1  BY DEF NoFrame, None
<1>6. at[capture] \in {"zero", "fill"} => starts[capture] > 0  BY DEF RunsOK
<1> QED  BY <1>3, <1>4, <1>5, <1>6 DEF Bound

(* What the daemon does keeps a frame within its bounds.                   *)
LEMMA BoundStays ==
  ASSUME TypeOK, CountersOK, RunsOK, NEW f \in Frames, NEW c \in Cameras, Bound(f, c),
         Acting(capture)
  PROVE  /\ Bound(f, c)'
         /\ starts'[capture] = starts[capture] \/ f.run < starts'[capture]
<1> DEFINE n == starts[capture]
<1>0. /\ f.run \in Nat /\ f.idx \in Int /\ n \in Nat /\ <<"cam", c>> \in Rings
      /\ Cam(c).newest \in Frames /\ Cam(c).ahead \in Frames
  <2>1. <<"cam", c>> \in Rings  BY DEF Rings
  <2>2. Cam(c).newest \in Frames /\ Cam(c).ahead \in Frames
    BY <2>1, RingParts DEF TypeOK, Cam
  <2>3. n \in Nat  BY DEF TypeOK
  <2> HIDE DEF n
  <2> QED  BY <2>1, <2>2, <2>3 DEF Frames, NoFrame, None
<1>1. CASE Ending(capture)
  <2>1. at'[capture] = "dead" /\ UNCHANGED <<ring, starts>>  BY <1>1, EndingIs DEF TypeOK
  <2> QED  BY <2>1 DEF Bound, Cam
<1>2. CASE Starting(capture)
  <2>1. starts'[capture] = n + 1  BY <1>2, StartingIs DEF TypeOK
  <2>2. f.run < starts'[capture]  BY <1>0, <2>1 DEF Bound
  <2> QED  BY <1>0, <2>1, <2>2 DEF Bound
<1>3. CASE Zero(capture)
  <2> DEFINE r == Makes(capture)[k[capture]]
  <2>1. /\ at[capture] = "zero" /\ starts' = starts /\ Others(r) /\ r \in Rings
        /\ ring'[r].newest = ring[r].newest
    BY <1>3, ZeroIs
  <2> HIDE DEF r
  <2>2. Cam(c)'.newest = Cam(c).newest  BY <1>0, <2>1 DEF Others, Cam
  <2> QED  BY <2>1, <2>2 DEF Bound
<1>4. CASE Fill(capture)
  <2>1. at[capture] = "fill" /\ starts' = starts  BY <1>4, FillIs
  <2>2. f.run < n  BY <2>1 DEF Bound
  <2> QED  BY <1>0, <2>1, <2>2 DEF Bound
<1>5. ASSUME NEW d \in Cameras, Capturing(d)
      PROVE  Bound(f, c)' /\ starts'[capture] = starts[capture]
  <2> DEFINE r == <<"cam", d>>
             g == [run |-> n, idx |-> Cam(d).newest.idx + 1]
  <2>1. /\ at[capture] = "run" /\ UNCHANGED <<at, starts>> /\ r \in Rings /\ Others(r)
        /\ \/ ring'[r] = [st |-> ring[r].st, newest |-> ring[r].newest, ahead |-> g]
           \/ /\ ring[r].ahead # NoFrame
              /\ ring'[r] = [st |-> ring[r].st, newest |-> ring[r].ahead, ahead |-> NoFrame]
    BY <1>5, CapturingIs DEF Cam
  <2>2. \/ Cam(c)'.newest = Cam(c).newest
        \/ Cam(c).ahead # NoFrame /\ Cam(c)'.newest = Cam(c).ahead
    <3> HIDE DEF g
    <3>1. CASE c = d  BY <2>1, <3>1 DEF Cam
    <3>2. CASE c # d
      <4>1. <<"cam", c>> # r  BY <3>2
      <4> HIDE DEF r
      <4> QED  BY <1>0, <2>1, <4>1 DEF Others, Cam
    <3> QED  BY <3>1, <3>2
  <2>3. CASE Cam(c)'.newest = Cam(c).newest  BY <2>1, <2>3 DEF Bound
  <2>4. CASE Cam(c).ahead # NoFrame /\ Cam(c)'.newest = Cam(c).ahead
    <3>1. n > 0 /\ Cam(c).ahead.idx = Cam(c).newest.idx + 1  BY <2>1, <2>4 DEF RunsOK
    <3>2. f.run = n => f.idx <= Cam(c).ahead.idx + 1
      <4>1. CASE Cam(c).newest = NoFrame  BY <1>0, <3>1, <4>1 DEF Bound
      <4>2. CASE Cam(c).newest # NoFrame
        <5>1. f.run = n => f.idx <= Cam(c).newest.idx + 1  BY <4>2 DEF Bound
        <5>2. Cam(c).newest.idx \in Nat  BY <1>0, <4>2 DEF Frames
        <5> QED  BY <1>0, <3>1, <5>1, <5>2
      <4> QED  BY <4>1, <4>2
    <3> QED  BY <1>0, <2>1, <2>4, <3>2 DEF Bound
  <2> QED  BY <2>1, <2>2, <2>3, <2>4
<1>6. CASE \E d \in Cameras : Capturing(d)  BY <1>5, <1>6
<1>7. capture \notin Workers  OBVIOUS
<1> HIDE DEF n
<1> QED  BY <1>1, <1>2, <1>3, <1>4, <1>6, <1>7 DEF Acting, n

(* A frame that the undistort worker is given.                             *)
LEMMA BoundGiven ==
  ASSUME TypeOK, RunsOK, NEW f \in Frames \ {NoFrame}, Given(f),
         NEW old \in Frames, Bound(old, turn[undistort])
  PROVE  Bound(f, turn[undistort]) /\ Behind(old, f)
<1> DEFINE c == turn[undistort]
           n == Cam(c).newest
           a == Cam(c).ahead
           s == starts[capture]
<1>1. c \in Cameras /\ Reading(undistort) = Cam(c)  BY DEF TypeOK, Reading, Input, Cam
<1>2. n \in Frames /\ a \in Frames /\ s \in Nat
  <2>1. <<"cam", c>> \in Rings  BY <1>1 DEF Rings
  <2>2. s \in Nat  BY DEF TypeOK
  <2>3. ring \in RingTypes  BY DEF TypeOK
  <2> HIDE DEF c, s
  <2> QED  BY <2>1, <2>2, <2>3, RingParts DEF Cam
<1>3. /\ f.run \in Nat /\ f.idx \in Nat /\ old.run \in Nat /\ old.idx \in Int
      /\ n.run \in Nat /\ n.idx \in Int /\ a.run \in Nat /\ a.idx \in Int
  BY <1>2 DEF Frames, NoFrame, None
<1>4. /\ n.run <= s /\ a.run <= s /\ (Cam(c).st = "blank" => n.run < s)
      /\ at[capture] \in {"zero", "fill"} => n.run < s /\ a.run < s
      /\ a # NoFrame => a.idx = n.idx + 1
  BY <1>1 DEF RunsOK
<1>5. /\ s > 0 /\ n = NoFrame => old.run < s
      /\ old.run = s /\ n # NoFrame => old.idx <= n.idx + 1
  BY DEF Bound
<1>6. \/ f = n \/ (f = a /\ n # NoFrame) \/ (f.run <= n.run /\ Cam(c).st = "blank")
  BY <1>1 DEF Given
<1> SUFFICES Bound(f, c) /\ Behind(old, f)
  OBVIOUS
<1>7. CASE f = n
  <2> HIDE DEF n, a, s, c
  <2> QED  BY <1>2, <1>3, <1>4, <1>5, <1>7 DEF Bound, Behind, n, s
<1>8. CASE f = a /\ n # NoFrame
  <2>1. f.run <= s /\ f.idx = n.idx + 1 /\ (at[capture] \in {"zero", "fill"} => f.run < s)
    BY <1>4, <1>8
  <2>2. old.run = s => old.idx <= f.idx + 1
    <3> HIDE DEF n, a, s
    <3> QED  BY <1>3, <1>5, <1>8, <2>1
  <2>3. f.idx <= n.idx + 1
    <3> HIDE DEF n
    <3> QED  BY <1>3, <2>1
  <2> QED  BY <1>8, <2>1, <2>2, <2>3 DEF Bound, Behind
<1>9. CASE f.run <= n.run /\ Cam(c).st = "blank"
  <2>1. f.run < s
    <3> HIDE DEF n, s
    <3> QED  BY <1>2, <1>3, <1>4, <1>9
  <2> QED  BY <1>2, <1>3, <2>1 DEF Bound, Behind
<1> QED  BY <1>6, <1>7, <1>8, <1>9

(* Every step keeps what the undistort worker holds and has published      *)
(* within the bounds.                                                      *)
LEMMA BoundStep ==
  ASSUME TypeOK, CountersOK, ScriptOK, [Next]_vars, HandOK(undistort), RunsOK, BoundOK
  PROVE  BoundOK'
<1> DEFINE Rect(c) == <<"rect", c>>
           u == undistort
<1>0. ASSUME NEW c \in Cameras
      PROVE  /\ Rect(c) \in Rings /\ <<"cam", c>> \in Rings
             /\ ring[Rect(c)].newest \in Frames /\ hand[u] \in Frames
  <2>1. Rect(c) \in Rings /\ <<"cam", c>> \in Rings  BY DEF Rings
  <2>2. ring \in RingTypes /\ hand[u] \in Frames  BY DEF TypeOK
  <2> HIDE DEF Rect
  <2> QED  BY <2>1, <2>2, RingParts
<1>1. CASE Aside  BY <1>1 DEF Aside, BoundOK, BoundAt, Bound, Behind, Holds, Cam
(* The bounds are those of the capture daemon.                             *)
<1>2. ASSUME NEW s \in Stages \ {capture}, Only(s)
      PROVE  /\ starts'[capture] = starts[capture]
             /\ \A f : \A c \in Cameras : Bound(f, c)' <=> Bound(f, c)
  <2>1. \A c \in Cameras : ring'[<<"cam", c>>] = ring[<<"cam", c>>]
    <3>1. \A c \in Cameras : <<"cam", c>>[1] \notin Own(s)  BY <1>2 DEF Own
    <3> QED  BY <1>0, <1>2, <3>1 DEF Only
  <2>2. starts'[capture] = starts[capture] /\ at'[capture] = at[capture]  BY <1>2 DEF Only
  <2> HIDE DEF capture
  <2> QED  BY <2>1, <2>2 DEF Bound, Cam
<1>3. ASSUME NEW s \in Stages \ {u}, Only(s), NEW c \in Cameras
      PROVE  /\ ring'[Rect(c)] = ring[Rect(c)]
             /\ at'[u] = at[u] /\ turn'[u] = turn[u] /\ hand'[u] = hand[u]
  <2>1. Rect(c)[1] \notin Own(s)  BY <1>3 DEF Own
  <2> QED  BY <1>0, <1>3, <2>1 DEF Only
<1>4. ASSUME NEW s \in Stages \ {capture, u}, Only(s) PROVE BoundOK'
  <2> SUFFICES ASSUME NEW c \in Cameras PROVE BoundAt(c)'
    BY DEF BoundOK
  <2>1. /\ ring'[Rect(c)] = ring[Rect(c)]
        /\ at'[u] = at[u] /\ turn'[u] = turn[u] /\ hand'[u] = hand[u]
    BY <1>3, <1>4
  <2>2. PICK f \in Frames : f = ring[Rect(c)].newest  BY <1>0
  <2>3. PICK h \in Frames : h = hand[u]  BY <1>0
  <2>4. /\ Bound(f, c)' <=> Bound(f, c)
        /\ Bound(h, c)' <=> Bound(h, c)
        /\ starts'[capture] = starts[capture]
    BY <1>2, <1>4
  <2>5. BoundAt(c)  BY DEF BoundOK
  <2> QED  BY <2>1, <2>2, <2>3, <2>4, <2>5 DEF BoundAt, Bound, Behind, Holds
<1>5. ASSUME Acting(capture), Only(capture) PROVE BoundOK'
  <2> SUFFICES ASSUME NEW c \in Cameras PROVE BoundAt(c)'
    BY DEF BoundOK
  <2>1. /\ ring'[Rect(c)] = ring[Rect(c)]
        /\ at'[u] = at[u] /\ turn'[u] = turn[u] /\ hand'[u] = hand[u]
    BY <1>3, <1>5
  <2>2. PICK f \in Frames : f = ring[Rect(c)].newest  BY <1>0
  <2>3. PICK h \in Frames : h = hand[u]  BY <1>0
  <2>4. BoundAt(c)  BY DEF BoundOK
  <2>5. Bound(f, c)' /\ (starts'[capture] = starts[capture] \/ f.run < starts'[capture])
    <3>1. Bound(f, c)  BY <2>2, <2>4 DEF BoundAt
    <3> QED  BY <1>5, <3>1, BoundStays
  <2>6. Holds(c) => Bound(h, c)'
    <3>1. Holds(c) => Bound(h, c)  BY <2>3, <2>4 DEF BoundAt
    <3> QED  BY <1>5, <3>1, BoundStays
  <2>7. Holds(c)' <=> Holds(c)  BY <2>1 DEF Holds
  <2>8. Holds(c) => Behind(f, h)'
    <3>1. CASE starts'[capture] = starts[capture]
      BY <2>2, <2>3, <2>4, <3>1 DEF BoundAt, Behind
    <3>2. CASE f.run < starts'[capture]
      <4>1. f.run # starts'[capture]
        <5>1. f.run \in Nat  BY DEF Frames, NoFrame
        <5> QED  BY <3>2, <5>1
      <4> QED  BY <4>1 DEF Behind
    <3> QED  BY <2>5, <3>1, <3>2
  <2> QED  BY <2>1, <2>2, <2>3, <2>5, <2>6, <2>7, <2>8 DEF BoundAt, Bound, Behind
<1>6. ASSUME Acting(u), Only(u) PROVE BoundOK'
  <2>0. /\ starts'[capture] = starts[capture]
        /\ \A f : \A c \in Cameras : Bound(f, c)' <=> Bound(f, c)
    BY <1>2, <1>6
  <2>1. ASSUME \A c \in Cameras : ring'[Rect(c)].newest \in {ring[Rect(c)].newest, NoFrame},
               at'[u] \notin {"check", "write", "publish"}
        PROVE  BoundOK'
    <3> SUFFICES ASSUME NEW c \in Cameras PROVE BoundAt(c)'
      BY DEF BoundOK
    <3>1. PICK f \in {ring[Rect(c)].newest, NoFrame} : f = ring'[Rect(c)].newest  BY <2>1
    <3>2. Bound(f, c)  BY BoundNone DEF BoundOK, BoundAt
    <3>3. Bound(f, c)'  BY <2>0, <3>2
    <3>4. ~Holds(c)'  BY <2>1 DEF Holds
    <3> QED  BY <3>1, <3>3, <3>4 DEF BoundAt, Bound
  <2>2. CASE Ending(u)
    <3>1. ring' = ring /\ at'[u] = "dead"  BY <2>2, EndingIs DEF TypeOK
    <3> QED  BY <2>1, <3>1
  <2>3. CASE Starting(u)
    <3>1. ring' = ring /\ at'[u] = "wait"  BY <2>3, StartingIs DEF TypeOK, First
    <3> QED  BY <2>1, <3>1
  <2>4. CASE Zero(u)
    <3> DEFINE r == Makes(u)[k[u]]
    <3>1. /\ at'[u] = "fill" /\ r \in Rings /\ Others(r) /\ ring'[r].newest = ring[r].newest
      BY <2>4, ZeroIs DEF TypeOK
    <3> HIDE DEF r
    <3>2. \A c \in Cameras : ring'[Rect(c)].newest = ring[Rect(c)].newest
      BY <1>0, <3>1 DEF Others
    <3> QED  BY <2>1, <3>1, <3>2
  <2>5. CASE Fill(u)
    <3> DEFINE r == Makes(u)[k[u]]
    <3>1. /\ r \in Rings /\ Others(r) /\ ring'[r] = Empty
          /\ (at' = [at EXCEPT ![u] = "zero"] \/ at' = [at EXCEPT ![u] = "run"])
      BY <2>5, FillIs
    <3>2. at'[u] \in {"zero", "run"}  BY <3>1 DEF TypeOK
    <3> HIDE DEF r
    <3>3. \A c \in Cameras : ring'[Rect(c)].newest \in {ring[Rect(c)].newest, NoFrame}
      BY <1>0, <3>1 DEF Others, Empty
    <3> QED  BY <2>1, <3>2, <3>3
  <2>6. CASE Resolve(u) \/ OpenReader(u) \/ NothingNew(u)
    <3>1. ring' = ring /\ at'[u] \in {"open", "zero", "run"}
      BY <2>6 DEF Resolve, OpenReader, NothingNew, TypeOK
    <3> QED  BY <2>1, <3>1
  <2>7. CASE Reads(u)
    <3>1. PICK f \in Frames \ {NoFrame} :
            /\ Given(f) /\ hand' = [hand EXCEPT ![u] = f] /\ UNCHANGED <<ring, turn>>
      BY <2>7, ReadsIs
    <3>2. hand'[u] = f  BY <3>1 DEF TypeOK
    <3> SUFFICES ASSUME NEW c \in Cameras PROVE BoundAt(c)'
      BY DEF BoundOK
    <3>3. PICK old \in Frames : old = ring[Rect(c)].newest  BY <1>0
    <3>4. Bound(old, c)  BY <3>3 DEF BoundOK, BoundAt
    <3>5. turn[u] = c => Bound(f, c) /\ Behind(old, f)
      <4>1. ASSUME turn[u] = c PROVE Bound(f, c) /\ Behind(old, f)
        BY <3>1, <3>4, <4>1, BoundGiven
      <4> QED  BY <4>1
    <3>6. Bound(old, c)' /\ (turn[u] = c => Bound(f, c)')  BY <2>0, <3>4, <3>5
    <3>7. turn[u] = c => Behind(old, f)'  BY <2>0, <3>5 DEF Behind
    <3>8. Holds(c)' => turn[u] = c  BY <3>1 DEF Holds
    <3> QED  BY <3>1, <3>2, <3>3, <3>6, <3>7, <3>8 DEF BoundAt, Bound, Behind
  <2>8. CASE CheckHeader(u) \/ Write(u)
    <3>1. /\ at[u] \in {"check", "write"} /\ UNCHANGED <<turn, hand>>
          /\ \A c \in Cameras : ring'[Rect(c)].newest = ring[Rect(c)].newest
      <4>1. CASE CheckHeader(u)  BY <4>1 DEF CheckHeader, worker
      <4>2. CASE Write(u)
        <5> DEFINE r == Output(u, turn[u])[k[u]]
        <5>1. /\ at[u] = "write" /\ UNCHANGED <<turn, hand>> /\ r \in Rings /\ Others(r)
              /\ ring'[r].newest = ring[r].newest
          BY <4>2, WriteIs
        <5> HIDE DEF r
        <5> QED  BY <1>0, <5>1 DEF Others
      <4> QED  BY <2>8, <4>1, <4>2
    <3> SUFFICES ASSUME NEW c \in Cameras PROVE BoundAt(c)'
      BY DEF BoundOK
    <3>2. PICK f \in Frames : f = ring[Rect(c)].newest  BY <1>0
    <3>3. PICK h \in Frames : h = hand[u]  BY <1>0
    <3>4. Bound(f, c) /\ (Holds(c) => Bound(h, c) /\ Behind(f, h))
      BY <3>2, <3>3 DEF BoundOK, BoundAt
    <3>5. Bound(f, c)' /\ (Holds(c) => Bound(h, c)')  BY <2>0, <3>4
    <3>6. Holds(c)' => Holds(c)  BY <3>1 DEF Holds
    <3>7. Holds(c) => Behind(f, h)'  BY <2>0, <3>4 DEF Behind
    <3> QED  BY <3>1, <3>2, <3>3, <3>5, <3>6, <3>7 DEF BoundAt, Bound, Behind
  <2>9. CASE Publish(u)
    <3> DEFINE r == Output(u, turn[u])[k[u]]
    <3>1. /\ at[u] = "publish" /\ k[u] \in 1 .. Top(u) /\ r \in Rings /\ Others(r)
          /\ ring'[r].newest = ring[r].ahead
          /\ \/ k[u] < Top(u)
             \/ at' = [at EXCEPT ![u] = "run"]
      BY <2>9, PublishIs
    <3>2. Top(u) = 1  BY <3>1 DEF Top
    <3>3. k[u] = 1 /\ at'[u] = "run"
      <4>1. k[u] = 1  BY <3>1, <3>2
      <4> QED  BY <3>1, <3>2, <4>1 DEF TypeOK
    <3>4. r = Rect(turn[u])  BY <3>3 DEF Output
    <3>5. ring[r].ahead = hand[u]  BY <3>1 DEF HandOK
    <3> HIDE DEF r
    <3> SUFFICES ASSUME NEW c \in Cameras PROVE BoundAt(c)'
      BY DEF BoundOK
    <3>6. ~Holds(c)'  BY <3>3 DEF Holds
    <3>7. CASE turn[u] = c
      <4>1. PICK h \in Frames : h = hand[u]  BY <1>0
      <4>2. Holds(c)  BY <3>1, <3>7 DEF Holds
      <4>3. Bound(h, c)'  BY <2>0, <4>1, <4>2 DEF BoundOK, BoundAt
      <4>4. ring'[Rect(c)].newest = h  BY <3>1, <3>4, <3>5, <3>7, <4>1
      <4> QED  BY <3>6, <4>3, <4>4 DEF BoundAt, Bound
    <3>8. CASE turn[u] # c
      <4>1. PICK f \in Frames : f = ring[Rect(c)].newest  BY <1>0
      <4>2. Bound(f, c)'  BY <2>0, <4>1 DEF BoundOK, BoundAt
      <4>3. Rect(c) # r  BY <3>4, <3>8
      <4>4. ring'[Rect(c)] = ring[Rect(c)]  BY <1>0, <3>1, <4>3 DEF Others
      <4> QED  BY <3>6, <4>1, <4>2, <4>4 DEF BoundAt, Bound
    <3> QED  BY <3>7, <3>8
  <2> QED
    BY <1>6, <2>2, <2>3, <2>4, <2>5, <2>6, <2>7, <2>8, <2>9 DEF Acting, Working
<1> QED
  <2>1. ASSUME NEW s \in Stages, Acting(s) PROVE BoundOK'
    BY <1>4, <1>5, <1>6, <2>1, Stays
  <2> QED  BY <1>1, <2>1, Sorts
-----------------------------------------------------------------------------
(* The rings there are.                                                    *)

(* A ring that exists stays, and only its creation makes one.              *)
LEMMA RingsStep ==
  ASSUME TypeOK, CountersOK, ScriptOK, [Next]_vars, \A s \in 1 .. 3 : MadeOK(s),
         NEW r \in Rings
  PROVE  (ring'[r].st # "none") <=>
           (Exists(r) \/ \E s \in 1 .. 3 : Zero(s) /\ r = Makes(s)[k[s]])
<1> DEFINE Made == \E s \in 1 .. 3 : Zero(s) /\ r = Makes(s)[k[s]]
           Goal == (ring'[r].st # "none") <=> (Exists(r) \/ Made)
<1>1. ASSUME NEW s \in Stages, Zero(s)
      PROVE  ring'[r].st = IF r = Makes(s)[k[s]] THEN "blank" ELSE ring[r].st
  BY <1>1, ZeroIs DEF Others
<1>2. ASSUME ring'[r].st = ring[r].st PROVE Goal
  <2>1. Made => ring'[r].st = "blank"  BY <1>1
  <2> QED  BY <1>2, <2>1 DEF Exists
<1>3. ASSUME ring' = ring PROVE Goal  BY <1>2, <1>3
<1>4. ASSUME NEW s \in Stages, Zero(s) PROVE Goal
  <2>1. s \in 1 .. 3  BY <1>4, ZeroIs
  <2>2. CASE r = Makes(s)[k[s]]  BY <1>1, <1>4, <2>1, <2>2
  <2>3. CASE r # Makes(s)[k[s]]  BY <1>1, <1>2, <1>4, <2>3
  <2> QED  BY <2>2, <2>3
<1>5. ASSUME NEW s \in Stages, Fill(s) PROVE Goal
  <2> DEFINE q == Makes(s)[k[s]]
  <2>1. s # audio /\ at[s] = "fill" /\ q \in Rings /\ Others(q) /\ ring'[q] = Empty
    BY <1>5, FillIs
  <2>2. Exists(q)  BY <2>1 DEF MadeOK
  <2> HIDE DEF q
  <2>3. CASE r = q  BY <2>1, <2>2, <2>3 DEF Empty
  <2>4. CASE r # q  BY <1>2, <2>1, <2>4 DEF Others
  <2> QED  BY <2>3, <2>4
<1>6. ASSUME NEW c \in Cameras, Capturing(c) PROVE Goal
  <2>1. PICK q \in Rings : Others(q) /\ ring'[q].st = ring[q].st  BY <1>6, CapturingIs
  <2> QED  BY <1>2, <2>1 DEF Others
<1>7. ASSUME NEW w \in Workers, Write(w) \/ Publish(w) PROVE Goal
  <2>1. PICK q \in Rings : Others(q) /\ ring'[q].st = ring[q].st
    BY <1>7, WriteIs, PublishIs
  <2> QED  BY <1>2, <2>1 DEF Others
<1>8. ASSUME NEW w \in Workers, Working(w), ~Write(w), ~Publish(w) PROVE Goal
  <2>1. CASE Reads(w)  BY <1>3, <2>1, ReadsIs
  <2>2. CASE Resolve(w) \/ OpenReader(w) \/ NothingNew(w) \/ CheckHeader(w)
    <3>1. ring' = ring  BY <2>2 DEF Resolve, OpenReader, NothingNew, CheckHeader
    <3> QED  BY <1>3, <3>1
  <2> QED  BY <1>8, <2>1, <2>2 DEF Working
<1>9. ASSUME Aside PROVE Goal  BY <1>3, <1>9 DEF Aside
<1>10. ASSUME NEW s \in Stages, Ending(s) \/ Starting(s) PROVE Goal
  BY <1>3, <1>10 DEF Ending, Starting
<1> HIDE DEF Goal
<1>11. ASSUME NEW w \in Workers, Working(w) PROVE Goal  BY <1>7, <1>8, <1>11
<1>12. ASSUME NEW s \in Stages, Acting(s) PROVE Goal
  BY <1>4, <1>5, <1>6, <1>10, <1>11, <1>12 DEF Acting
<1>13. Goal  BY <1>9, <1>12, Sorts
<1> QED  BY <1>13 DEF Goal

(* A ring is created after the one it is made from.                        *)
LEMMA MadeFrom ==
  ASSUME TypeOK, CountersOK, NEW s \in 1 .. 3, MadeOK(s), s \in Workers => ServedOK(s),
         Zero(s), NEW c \in Cameras
  PROVE  LET r == Makes(s)[k[s]] IN
         /\ r = <<"det", c>> => Exists(<<"depth", c>>)
         /\ r = <<"depth", c>> => Exists(<<"rect", c>>)
         /\ r = <<"rect", c>> => Exists(<<"cam", c>>)
<1> DEFINE r == Makes(s)[k[s]]
<1>1. at[s] = "zero" /\ r[1] \in Own(s) /\ k[s] \in 1 .. Count(s)  BY ZeroIs
<1>2. CASE s = capture
  <2>1. r[1] = "cam"  BY <1>1, <1>2 DEF Own
  <2> HIDE DEF r
  <2>2. r # <<"det", c>> /\ r # <<"depth", c>> /\ r # <<"rect", c>>  BY <2>1
  <2> QED  BY <2>2 DEF r
<1>3. CASE s = undistort
  <2>1. k[s] \in 1 .. cams[s] /\ r = <<"rect", k[s]>>  BY <1>1, <1>3, MakesUndistort DEF Count
  <2>2. Exists(<<"cam", k[s]>>)  BY <1>1, <1>3, <2>1 DEF ServedOK, Input
  <2> HIDE DEF r
  <2>3. r = <<"rect", c>> => k[s] = c  BY <2>1
  <2>4. r # <<"det", c>> /\ r # <<"depth", c>>  BY <2>1
  <2> QED  BY <2>2, <2>3, <2>4 DEF r
<1>4. CASE s = depth
  <2> DEFINE n == cams[s]
  <2>1. n \in 1 .. 2 /\ k[s] \in 1 .. 2 * n  BY <1>1, <1>4 DEF Count, TypeOK
  <2>2. /\ \A m \in 1 .. n : Makes(s)[m] = <<"depth", m>>
        /\ \A m \in 1 .. n : Makes(s)[n + m] = <<"det", m>>
    BY <1>4, MakesDepth
  <2>3. \A m \in 1 .. n : Exists(<<"rect", m>>)
    <3>1. \A m \in 1 .. n : Exists(Input(s, m))  BY <1>1, <1>4 DEF ServedOK
    <3>2. \A m : Input(s, m) = <<"rect", m>>  BY <1>4 DEF Input
    <3> HIDE DEF n
    <3> QED  BY <3>1, <3>2
  <2> HIDE DEF n
  <2>4. CASE k[s] <= n
    <3>1. k[s] \in 1 .. n  BY <2>1, <2>4
    <3>2. r = <<"depth", k[s]>>  BY <2>2, <3>1
    <3> HIDE DEF r
    <3>3. (r = <<"depth", c>> => k[s] = c) /\ r # <<"det", c>> /\ r # <<"rect", c>>  BY <3>2
    <3> QED  BY <2>3, <3>1, <3>3 DEF r
  <2>5. CASE ~(k[s] <= n)
    <3>1. PICK m \in 1 .. n : k[s] = n + m
      <4>1. k[s] - n \in 1 .. n /\ k[s] = n + (k[s] - n)  BY <2>1, <2>5
      <4> QED  BY <4>1
    <3>2. r = <<"det", m>>  BY <2>2, <3>1
    <3>3. m \in 1 .. k[s] /\ m < k[s]  BY <2>1, <3>1
    <3>4. ring[<<"depth", m>>] = Empty  BY <1>1, <2>2, <3>3 DEF MadeOK
    <3>5. Exists(<<"depth", m>>)  BY <3>4 DEF Exists, Empty
    <3> HIDE DEF r
    <3>6. (r = <<"det", c>> => m = c) /\ r # <<"depth", c>> /\ r # <<"rect", c>>  BY <3>2
    <3> QED  BY <3>5, <3>6 DEF r
  <2> QED  BY <2>4, <2>5
<1> QED  BY <1>2, <1>3, <1>4

(* From a clean start no ring is there before the one it is made from.     *)
LEMMA InTurnStep ==
  ASSUME TypeOK, CountersOK, ScriptOK, [Next]_vars, \A s \in 1 .. 3 : MadeOK(s),
         \A w \in Workers : ServedOK(w), InTurn
  PROVE  InTurn'
<1>1. setup' = setup
  <2>1. CASE Aside  BY <2>1 DEF Aside
  <2>2. ASSUME NEW s \in Stages, Acting(s) PROVE setup' = setup  BY <2>2, Stays DEF Only
  <2> QED  BY <2>1, <2>2, Sorts
<1> SUFFICES ASSUME setup.old = {}, NEW c \in Cameras
             PROVE  /\ Exists(<<"det", c>>)' => Exists(<<"depth", c>>)'
                    /\ Exists(<<"depth", c>>)' => Exists(<<"rect", c>>)'
                    /\ Exists(<<"rect", c>>)' => Exists(<<"cam", c>>)'
  BY <1>1 DEF InTurn
<1>2. \A name \in {"cam", "rect", "depth", "det"} : <<name, c>> \in Rings  BY DEF Rings
<1>3. \A r \in Rings : Exists(r) => ring'[r].st # "none"  BY RingsStep
<1>4. \A r \in Rings : ring'[r].st # "none" =>
        Exists(r) \/ \E s \in 1 .. 3 : Zero(s) /\ r = Makes(s)[k[s]]
  BY RingsStep
<1>5. /\ Exists(<<"det", c>>) => Exists(<<"depth", c>>)
      /\ Exists(<<"depth", c>>) => Exists(<<"rect", c>>)
      /\ Exists(<<"rect", c>>) => Exists(<<"cam", c>>)
  BY DEF InTurn
<1>6. ASSUME NEW s \in 1 .. 3, Zero(s)
      PROVE  /\ <<"det", c>> = Makes(s)[k[s]] => Exists(<<"depth", c>>)
             /\ <<"depth", c>> = Makes(s)[k[s]] => Exists(<<"rect", c>>)
             /\ <<"rect", c>> = Makes(s)[k[s]] => Exists(<<"cam", c>>)
  BY <1>6, MadeFrom
<1>7. /\ ring'[<<"det", c>>].st # "none" => ring'[<<"depth", c>>].st # "none"
      /\ ring'[<<"depth", c>>].st # "none" => ring'[<<"rect", c>>].st # "none"
      /\ ring'[<<"rect", c>>].st # "none" => ring'[<<"cam", c>>].st # "none"
  BY <1>2, <1>3, <1>4, <1>5, <1>6
<1> QED  BY <1>7 DEF Exists

(* The rings a worker was given stay.                                      *)
LEMMA ServedStep ==
  ASSUME TypeOK, CountersOK, ScriptOK, [Next]_vars, \A s \in 1 .. 3 : MadeOK(s),
         NEW w \in Workers, ServedOK(w)
  PROVE  ServedOK(w)'
<1> DEFINE Served == {"open", "zero", "fill"} \cup Looping
<1>1. ASSUME NEW c \in Cameras, Exists(Input(w, c)) PROVE ring'[Input(w, c)].st # "none"
  <2>1. Input(w, c) \in Rings  BY DEF Input, Rings
  <2> QED  BY <1>1, <2>1, RingsStep
<1>2. ASSUME at'[w] \in Served => at[w] \in Served /\ cams'[w] = cams[w] PROVE ServedOK(w)'
  <2> SUFFICES ASSUME at'[w] \in Served, NEW c \in 1 .. cams'[w]
               PROVE  ring'[Input(w, c)].st # "none"
    BY DEF ServedOK, Exists, Input
  <2>1. at[w] \in Served /\ c \in 1 .. cams[w]  BY <1>2
  <2>2. c \in Cameras  BY <2>1 DEF TypeOK
  <2>3. Exists(Input(w, c))  BY <2>1 DEF ServedOK
  <2> QED  BY <1>1, <2>2, <2>3
<1>3. CASE Resolve(w)
  <2> SUFFICES ASSUME NEW c \in 1 .. cams'[w] PROVE ring'[Input(w, c)].st # "none"
    BY DEF ServedOK, Exists, Input
  <2>1. Exists(Input(w, 1)) /\ cams'[w] = IF Exists(Input(w, 2)) THEN 2 ELSE 1
    BY <1>3 DEF Resolve, TypeOK
  <2>2. c \in Cameras /\ Exists(Input(w, c))  BY <2>1
  <2> QED  BY <1>1, <2>2
<1>4. CASE Aside  BY <1>2, <1>4 DEF Aside
<1>5. ASSUME NEW s \in Stages \ {w}, Only(s) PROVE ServedOK(w)'
  BY <1>2, <1>5 DEF Only
<1>6. CASE Ending(w)
  <2>1. at'[w] = "dead"  BY <1>6, EndingIs DEF TypeOK
  <2> QED  BY <1>2, <2>1 DEF Looping
<1>7. CASE Starting(w)
  <2>1. at'[w] = "wait"  BY <1>7, StartingIs DEF TypeOK, First
  <2> QED  BY <1>2, <2>1 DEF Looping
<1>8. CASE Zero(w) \/ Fill(w)
  <2>1. at[w] \in {"zero", "fill"} /\ cams' = cams  BY <1>8, ZeroIs, FillIs
  <2> QED  BY <1>2, <2>1
<1>9. CASE Working(w) /\ ~Resolve(w)
  <2>1. at[w] \in Served /\ cams' = cams
    <3>1. CASE Reads(w)  BY <3>1, ReadsIs DEF Looping
    <3>2. CASE Write(w) \/ Publish(w)  BY <3>2, WriteIs, PublishIs DEF Looping
    <3>3. CASE OpenReader(w) \/ NothingNew(w) \/ CheckHeader(w)
      BY <3>3 DEF OpenReader, NothingNew, CheckHeader, worker, Looping
    <3> QED  BY <1>9, <3>1, <3>2, <3>3 DEF Working
  <2> QED  BY <1>2, <2>1
<1> QED
  <2>1. CASE Acting(w)  BY <1>3, <1>6, <1>7, <1>8, <1>9, <2>1 DEF Acting
  <2>2. ASSUME NEW s \in Stages, Acting(s) PROVE ServedOK(w)'  BY <1>5, <2>1, <2>2, Stays
  <2> QED  BY <1>4, <2>2, Sorts

-----------------------------------------------------------------------------
(* run.sh.                                                                 *)

(* What is not a step of run.sh leaves it where it is and starts nothing.  *)
Trapped == \E interrupt \in BOOLEAN : Trap(interrupt) \/ TrapAgain(interrupt)
LEMMA NotScript ==
  ASSUME TypeOK, CountersOK, [Next]_vars, ~Script, ~Trapped
  PROVE  /\ UNCHANGED <<setup, script>>
         /\ setup.byHand \/ \A s \in Stages : at[s] = "off" => at'[s] = "off"
<1> DEFINE Goal == /\ UNCHANGED <<setup, script>>
                   /\ setup.byHand \/ \A s \in Stages : at[s] = "off" => at'[s] = "off"
<1>1. ASSUME NEW s \in Stages, Dies(s), Alive(s) PROVE Goal
  <2>1. UNCHANGED <<setup, script>> /\ at' = [at EXCEPT ![s] = "dead"]
    BY <1>1 DEF Dies, Clean, launcher
  <2> QED  BY <1>1, <2>1 DEF Alive, TypeOK
<1>2. ASSUME NEW s \in Stages, Ends(s) \/ Kill(s) PROVE Goal
  BY <1>1, <1>2 DEF Ends, Kill
<1>3. ASSUME NEW s \in Stages, StartByHand(s) PROVE Goal
  BY <1>3 DEF StartByHand, launcher
<1>4. ASSUME UNCHANGED <<setup, script>>, NEW s \in Stages, at[s] # "off",
             at' = at \/ \E p \in {"zero", "fill", "open", "run", "check", "write", "publish"} :
                           at' = [at EXCEPT ![s] = p]
      PROVE  Goal
  BY <1>4 DEF TypeOK
<1>5. ASSUME NEW s \in Stages, Zero(s) \/ Fill(s) PROVE Goal
  <2>1. CASE Zero(s)  BY <1>4, <2>1, ZeroIs
  <2>2. CASE Fill(s)
    <3>1. /\ at[s] = "fill" /\ UNCHANGED <<setup, script>>
          /\ (at' = [at EXCEPT ![s] = "zero"] \/ at' = [at EXCEPT ![s] = "run"])
      BY <2>2, FillIs
    <3> QED  BY <1>4, <3>1
  <2> QED  BY <1>5, <2>1, <2>2
<1>6. ASSUME NEW w \in Workers, Reads(w) PROVE Goal
  <2>1. at[w] = "run" /\ UNCHANGED <<setup, script>> /\ at' = [at EXCEPT ![w] = "check"]
    BY <1>6, ReadsIs
  <2> QED  BY <1>4, <2>1
<1>7. ASSUME NEW w \in Workers,
             Raises(w) \/ HeaderRaises(w) \/ TimesOut(w) \/ EmptyFrame(w)
      PROVE  Goal
  <2>1. Dies(w) /\ Alive(w)
    BY <1>7 DEF Raises, HeaderRaises, TimesOut, EmptyFrame, Overtaken, Lapped, MayLook, Alive
  <2> QED  BY <1>1, <2>1
<1>8. ASSUME NEW w \in Workers, Work(w) PROVE Goal
  <2>1. CASE Resolve(w)
    <3>1. UNCHANGED <<setup, script>> /\ at[w] = "wait" /\ at' = [at EXCEPT ![w] = "open"]
      BY <2>1 DEF Resolve, Still, launcher
    <3> QED  BY <1>4, <3>1
  <2>2. CASE OpenReader(w)
    <3>1. /\ UNCHANGED <<setup, script>> /\ at[w] = "open"
          /\ at' = at \/ at' = [at EXCEPT ![w] = "zero"]
      BY <2>2 DEF OpenReader, Still, launcher
    <3> QED  BY <1>4, <3>1
  <2>3. CASE NothingNew(w)  BY <1>4, <2>3 DEF NothingNew, Still, launcher
  <2>4. CASE CheckHeader(w)
    <3>1. UNCHANGED <<setup, script>> /\ at[w] = "check" /\ at' = [at EXCEPT ![w] = "write"]
      BY <2>4 DEF CheckHeader, Still, launcher
    <3> QED  BY <1>4, <3>1
  <2>5. CASE Write(w)  BY <1>4, <2>5, WriteIs
  <2>6. CASE Publish(w)
    <3>1. /\ at[w] = "publish" /\ UNCHANGED <<setup, script>>
          /\ (at' = [at EXCEPT ![w] = "write"] \/ at' = [at EXCEPT ![w] = "run"])
      BY <2>6, PublishIs
    <3> QED  BY <1>4, <3>1
  <2> QED  BY <1>6, <1>7, <1>8, <2>1, <2>2, <2>3, <2>4, <2>5, <2>6 DEF Work, Reads
<1>9. ASSUME NEW c \in Cameras, Capture(c) \/ PublishFrame(c) \/ Due(c) PROVE Goal
  BY <1>9 DEF Capture, PublishFrame, Due, Still, launcher
<1>10. ASSUME UNCHANGED vars PROVE Goal  BY <1>10 DEF vars
<1> HIDE DEF Goal
<1>11. ASSUME NEW s \in Stages, Process(s) PROVE Goal
  BY <1>5, <1>8, <1>9, <1>11 DEF Process
<1>12. ASSUME NEW w \in Workers, Raced(w) PROVE Goal
  BY <1>6, <1>7, <1>12 DEF Raced, Reads
<1>13. Goal
  <2>1. CASE Next
    BY <1>2, <1>3, <1>7, <1>9, <1>11, <1>12, <2>1 DEF Next, Trapped
  <2> QED  BY <1>10, <2>1
<1> QED  BY <1>13 DEF Goal
(* run.sh starts the stages in order, each when it was not started before. *)
LEMMA ScriptStep ==
  ASSUME TypeOK, CountersOK, ScriptOK, [Next]_vars
  PROVE  ScriptOK'
<1>1. CASE StartStage
  <2> DEFINE s == script[2]
  <2>1. /\ s \in Stages /\ ~setup.byHand /\ setup' = setup /\ script' = <<"record", s>>
        /\ at' = [at EXCEPT ![s] = First(s)] /\ \A j \in Stages : j >= s => at[j] = "off"
    BY <1>1 DEF StartStage, Step, Launch, Outside, ScriptOK
  <2>2. script'[1] = "record" /\ script'[2] = s  BY <2>1
  <2> HIDE DEF s
  <2>3. \A j \in Stages : j > s => at'[j] = "off"  BY <2>1 DEF TypeOK
  <2> QED  BY <2>1, <2>2, <2>3 DEF ScriptOK
<1>2. CASE Record
  <2>1. /\ script[2] \in Stages /\ ~setup.byHand /\ setup' = setup /\ at' = at
        /\ \A j \in Stages : j > script[2] => at[j] = "off"
    BY <1>2 DEF Record, Step, Outside, ScriptOK
  <2>2. CASE script[2] = audio
    <3>1. script' = <<"up", audio>>  BY <1>2, <2>2 DEF Record
    <3>2. script'[1] = "up"  BY <3>1
    <3> QED  BY <2>1, <3>2 DEF ScriptOK
  <2>3. CASE script[2] # audio
    <3>1. script' = <<"await", script[2]>>  BY <1>2, <2>3 DEF Record
    <3>2. script'[1] = "await" /\ script'[2] = script[2]  BY <3>1
    <3> QED  BY <2>1, <2>3, <3>2 DEF ScriptOK
  <2> QED  BY <2>2, <2>3
<1>3. CASE RingAppears
  <2> DEFINE s == script[2]
  <2>1. /\ s \in Stages /\ s # audio /\ ~setup.byHand /\ setup' = setup /\ at' = at
        /\ \A j \in Stages : j > s => at[j] = "off"
        /\ script' = <<"start", s + 1>>
    BY <1>3 DEF RingAppears, Step, Outside, ScriptOK
  <2>2. script'[1] = "start" /\ script'[2] = s + 1  BY <2>1
  <2> HIDE DEF s
  <2>3. s + 1 \in Stages /\ \A j \in Stages : j >= s + 1 => j > s  BY <2>1
  <2> QED  BY <2>1, <2>2, <2>3 DEF ScriptOK
<1>4. CASE LookAgain \/ KillAll \/ Reap \/ Trapped
  <2>1. script[1] # "none" /\ UNCHANGED <<setup, at>>
    BY <1>4 DEF LookAgain, KillAll, Reap, Trapped, Trap, TrapAgain, Step, Outside
  <2>2. script' = script \/ script'[1] \in {"kill", "reap", "exited", "aborted"}
    BY <1>4 DEF LookAgain, KillAll, Reap, Trapped, Trap, TrapAgain
  <2> QED  BY <2>1, <2>2 DEF ScriptOK
<1>5. CASE ~Script /\ ~Trapped
  BY <1>5, NotScript DEF ScriptOK
<1> QED  BY <1>1, <1>2, <1>3, <1>4, <1>5 DEF Script

(* The rings run.sh waits for.                                             *)
LEMMA AwaitedIs ==
  /\ Awaited(capture) = <<"cam", 1>> /\ Awaited(undistort) = <<"rect", 1>>
  /\ Awaited(depth) = <<"det", 1>>
  /\ \A s \in 1 .. 3 : Awaited(s) \in Rings
BY DEF Awaited, Rings

(* run.sh goes on from what it has found, and nothing takes it away.       *)
LEMMA FoundStep ==
  ASSUME TypeOK, CountersOK, ScriptOK, [Next]_vars, \A s \in 1 .. 3 : MadeOK(s), Found
  PROVE  Found'
<1> DEFINE Waits == {"start", "record", "await", "up"}
<1>1. \A s \in 1 .. 3 : Exists(Awaited(s)) => Exists(Awaited(s))'
  <2> SUFFICES ASSUME NEW s \in 1 .. 3, Exists(Awaited(s)) PROVE Exists(Awaited(s))'
    OBVIOUS
  <2>1. Awaited(s) \in Rings /\ Awaited(s)' = Awaited(s)  BY AwaitedIs DEF Awaited
  <2>2. ring'[Awaited(s)].st # "none"  BY <2>1, RingsStep
  <2> QED  BY <2>1, <2>2 DEF Exists
<1>2. CASE script' = script \/ script'[1] \notin Waits  BY <1>1, <1>2 DEF Found
<1>3. CASE StartStage
  <2>1. script' = <<"record", script[2]>> /\ script[1] = "start"  BY <1>3 DEF StartStage, Step
  <2>2. script'[1] = "record" /\ script'[2] = script[2]  BY <2>1
  <2> QED  BY <1>1, <2>1, <2>2 DEF Found
<1>4. CASE Record
  <2>1. /\ script[1] = "record"
        /\ script' = IF script[2] = audio THEN <<"up", audio>> ELSE <<"await", script[2]>>
    BY <1>4 DEF Record, Step
  <2>2. script'[2] = script[2] /\ (script'[1] = "up" => script[2] = audio)  BY <2>1
  <2> QED  BY <1>1, <2>1, <2>2 DEF Found
<1>5. CASE RingAppears
  <2> DEFINE s == script[2]
  <2>1. /\ script[1] = "await" /\ script' = <<"start", s + 1>> /\ Exists(Awaited(s))
        /\ s \in Stages /\ s # audio
    BY <1>5 DEF RingAppears, Step, ScriptOK
  <2>2. script'[1] = "start" /\ script'[2] = s + 1  BY <2>1
  <2>3. \A j \in 1 .. 3 : j < s => Exists(Awaited(j))  BY <2>1 DEF Found
  <2> HIDE DEF s
  <2>4. s + 1 \in Stages /\ \A j \in 1 .. 3 : j < s + 1 => j < s \/ j = s  BY <2>1
  <2> QED  BY <1>1, <2>1, <2>2, <2>3, <2>4 DEF Found
<1>6. CASE LookAgain \/ KillAll \/ Reap \/ Trapped
  <2>1. script' = script \/ script'[1] \notin Waits
    BY <1>6 DEF LookAgain, KillAll, Reap, Trapped, Trap, TrapAgain
  <2> QED  BY <1>2, <2>1
<1>7. CASE ~Script /\ ~Trapped
  BY <1>2, <1>7, NotScript
<1> QED  BY <1>3, <1>4, <1>5, <1>6, <1>7 DEF Script

-----------------------------------------------------------------------------
(* Where it all starts.                                                    *)
LEMMA InitInv == Init => Inv
<1> SUFFICES ASSUME Init PROVE Inv
  OBVIOUS
<1>1. setup \in Setups /\ setup.maxIdx \in Nat \cup {None}  BY SetupsAssumption DEF Init
<1>2. NoFrame \in Frames /\ Absent \in RingType
  BY DEF Absent, NoFrame, Frames, RingType, Statuses
<1>3. Old \in RingType
  <2>1. Old.newest \in Frames
    <3>1. CASE setup.maxIdx \in Nat  BY <3>1 DEF Old, Frames
    <3>2. CASE setup.maxIdx = None  BY <3>2 DEF Old, Frames, NoFrame
    <3> QED  BY <1>1, <3>1, <3>2
  <2> QED  BY <1>2, <2>1 DEF Old, RingType, Statuses
<1>4. \A s \in Stages : at[s] = "off" /\ k[s] = 1 /\ starts[s] = 0  BY DEF Init
<1>5. TypeOK
  <2>1. ring \in RingTypes  BY <1>2, <1>3 DEF Init, RingTypes
  <2>2. DOMAIN at = Stages /\ \A s \in Stages : at[s] \in Places(s)
    BY <1>4 DEF Init, Places
  <2>3. hand \in [Workers -> Frames]  BY <1>2 DEF Init
  <2> QED  BY <1>1, <2>1, <2>2, <2>3 DEF Init, TypeOK
<1>6. CountersOK
  <2>1. \A s \in Stages : Top(s) = 1  BY <1>4 DEF Top
  <2>2. \A w \in Workers : turn[w] = 1 /\ cams[w] = 1  BY DEF Init
  <2> QED  BY <1>4, <2>1, <2>2 DEF CountersOK
<1>7. script[1] = "none" \/ (~setup.byHand /\ script[1] = "start" /\ script[2] = 1)
  <2>1. script = <<"none", 1>> \/ (~setup.byHand /\ script = <<"start", 1>>)  BY DEF Init
  <2> QED  BY <2>1
<1>8. ScriptOK /\ Found  BY <1>4, <1>7 DEF ScriptOK, Found
<1>9. \A r \in Rings : /\ ring[r] = Old \/ ring[r] = Absent
                       /\ setup.old = {} => ring[r] = Absent
  BY DEF Init
<1>10. InTurn
  <2>1. setup.old = {} => \A r \in Rings : ~Exists(r)  BY <1>9 DEF Absent, Exists
  <2>2. \A c \in Cameras, name \in {"cam", "rect", "depth", "det"} : <<name, c>> \in Rings
    BY DEF Rings
  <2> QED  BY <2>1, <2>2 DEF InTurn
<1>11. \A s \in 1 .. 3 : MadeOK(s)  BY <1>4 DEF MadeOK
<1>12. \A w \in Workers : HandOK(w) /\ ServedOK(w)
  BY <1>4 DEF HandOK, ServedOK, Looping
<1>13. PairOK  BY <1>4 DEF PairOK, Looping
<1>14. \A r \in Rings : ring[r].newest.run = 0 /\ ring[r].ahead = NoFrame /\ ring[r].st # "blank"
  BY <1>9 DEF Old, Absent, NoFrame
<1>15. \A c \in Cameras : <<"cam", c>> \in Rings /\ <<"rect", c>> \in Rings  BY DEF Rings
<1>16. RunsOK
  BY <1>4, <1>14, <1>15 DEF RunsOK, Cam, NoFrame
<1>17. BoundOK
  <2> SUFFICES ASSUME NEW c \in Cameras PROVE BoundAt(c)
    BY DEF BoundOK
  <2> DEFINE f == ring[<<"rect", c>>].newest
  <2>1. ~Holds(c)  BY <1>4 DEF Holds
  <2>2. f.run = 0 /\ (Cam(c).newest # NoFrame => f.idx <= Cam(c).newest.idx + 1)
    <3>1. f = NoFrame \/ f = [run |-> 0, idx |-> setup.maxIdx]
      BY <1>9, <1>15 DEF Old, Absent
    <3>2. Cam(c).newest = NoFrame \/ Cam(c).newest = [run |-> 0, idx |-> setup.maxIdx]
      BY <1>9, <1>15 DEF Old, Absent, Cam
    <3> HIDE DEF f
    <3> QED  BY <1>1, <3>1, <3>2 DEF NoFrame, None
  <2> QED  BY <1>4, <2>1, <2>2 DEF BoundAt, Bound
<1> QED
  BY <1>5, <1>6, <1>8, <1>10, <1>11, <1>12, <1>13, <1>16, <1>17 DEF Inv

(* Every step keeps all of it.                                             *)
LEMMA NextInv == Inv /\ [Next]_vars => Inv'
<1> SUFFICES ASSUME Inv, [Next]_vars PROVE Inv'
  OBVIOUS
<1>1. /\ TypeOK /\ CountersOK /\ ScriptOK /\ Found /\ InTurn /\ PairOK /\ RunsOK /\ BoundOK
      /\ \A s \in 1 .. 3 : MadeOK(s)
      /\ \A w \in Workers : HandOK(w) /\ ServedOK(w)
  BY DEF Inv
<1>2. TypeOK' /\ CountersOK' /\ ScriptOK'  BY <1>1, TypeStep, CountersStep, ScriptStep
<1>3. Found' /\ InTurn'  BY <1>1, FoundStep, InTurnStep
<1>4. \A s \in 1 .. 3 : MadeOK(s)'  BY <1>1, MadeStep
<1>5. \A w \in Workers : HandOK(w)' /\ ServedOK(w)'  BY <1>1, HandStep, ServedStep
<1>6. PairOK' /\ RunsOK' /\ BoundOK'  BY <1>1, PairStep, RunsStep, BoundStep
<1> QED  BY <1>2, <1>3, <1>4, <1>5, <1>6 DEF Inv

(* The invariant of the pipeline: what each process knows of the rings it  *)
(* writes and reads, and how far the undistort worker's frames are from    *)
(* the newest of the camera's, whatever is killed, restarted or told to    *)
(* end, and wherever a reader meets a writer.                              *)
THEOREM Invariance == Spec => []Inv
<1> QED  BY InitInv, NextInv, PTL DEF Spec

(* depth_worker.py:222-247: the detections of a camera are those of its    *)
(* depth map, but while those of that very map are being written, also if  *)
(* a read is lapped and frames are given out of order.                     *)
THEOREM PairTheorem == Spec => []Paired
<1>1. Inv => Paired
  <2> SUFFICES ASSUME TypeOK, PairOK, NEW c \in Cameras, at[depth] \in Looping, c <= cams[depth]
               PROVE  LET map == ring[<<"depth", c>>].newest
                          det == ring[<<"det", c>>].newest
                      IN det = map \/ (turn[depth] = c /\ k[depth] = 2 /\ hand[depth] = map)
    BY DEF Inv, Paired
  <2>1. c \in 1 .. cams[depth]  BY DEF TypeOK
  <2>2. PairAt(c)  BY <2>1 DEF PairOK
  <2> QED  BY <2>2 DEF PairAt
<1> QED  BY <1>1, Invariance, PTL

(* undistort_worker.py:117-132: of the frames of the running daemon the    *)
(* worker never publishes one more than one behind the frame on its ring,  *)
(* through lapped reads, re-initialised rings and restarts of either side. *)
THEOREM BackTheorem == Spec => []BackByAtMostOne
<1>1. Inv => BackByAtMostOne
  <2> SUFFICES ASSUME TypeOK, CountersOK, BoundOK, at[undistort] = "write",
                      hand[undistort].run = starts[capture]
               PROVE  LET old == ring[Output(undistort, turn[undistort])[k[undistort]]].newest
                      IN old.run = starts[capture] => old.idx <= hand[undistort].idx + 1
    BY DEF Inv, BackByAtMostOne
  <2> DEFINE c == turn[undistort]
  <2>1. k[undistort] = 1 /\ c \in Cameras  BY DEF TypeOK, CountersOK, Top
  <2>2. Output(undistort, c)[k[undistort]] = <<"rect", c>>  BY <2>1 DEF Output
  <2>3. Behind(ring[<<"rect", c>>].newest, hand[undistort])
    BY <2>1 DEF BoundOK, BoundAt, Holds
  <2> QED  BY <2>2, <2>3 DEF Behind
<1> QED  BY <1>1, Invariance, PTL

(* run.sh:5-14, 72-91: from a clean start no ring of a camera is there     *)
(* before the one it is made from, and when run.sh says that all stages    *)
(* are up the detections of the first camera have their ring.              *)
THEOREM UpTheorem == Spec => []UpMeansUp
<1>1. Inv => UpMeansUp
  <2> SUFFICES ASSUME Found, InTurn, setup.old = {} PROVE UpMeansUp
    BY DEF Inv, UpMeansUp
  <2>1. Step("up") => Exists(<<"det", 1>>)
    <3>1. Step("up") => Exists(Awaited(depth))  BY DEF Found, Step
    <3> QED  BY <3>1, AwaitedIs
  <2> QED  BY <2>1 DEF InTurn, UpMeansUp
<1> QED  BY <1>1, Invariance, PTL
===============================================================================
