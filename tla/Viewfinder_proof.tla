--------------------------- MODULE Viewfinder_proof ---------------------------
(***************************************************************************)
(* The threads of the viewfinder, for any command lines, bounds and        *)
(* surroundings.  LifeOK ties the life of a camera to where main() is:     *)
(* CallbackSafe is not inductive without it, because what makes a late     *)
(* callback harmless is that main() stops the camera before it takes away  *)
(* what the callback uses.  PanelOK says who holds a slot's mutex and what *)
(* is whole in the meantime; PanelWhole follows.  FreshOK orders the ages  *)
(* of a detection in the ring, in the view and as last drawn, for          *)
(* CirclesFresh.                                                           *)
(***************************************************************************)
EXTENDS Viewfinder, TLAPS

(* No callback without a camera, no camera before its turn or after main() *)
(* stopped it, a ring and a slot for whoever runs.                         *)
NotYetA == {"rings", "startA"}
NotYetB == {"rings", "startA", "tuneA", "startB"}
GoneA   == {"stopB", "shutdown", "destroy", "exited"}
GoneB   == {"shutdown", "unwindA", "destroy", "exited"}

LifeOK ==
  /\ \A c \in Cameras :
       /\ cb[c] # "idle" => delivering[c]
       /\ delivering[c] => handle[c] # "none"
       /\ cb[c] = "ring" => ringUp[c]
       /\ pc # "exited" => slot[c].alive
  /\ handle["A"] = "open" => pc = "tuneA"
  /\ handle["B"] = "open" => pc = "tuneB"
  /\ pc \in NotYetA \cup GoneA => handle["A"] = "none"
  /\ pc \in NotYetB \cup GoneB => handle["B"] = "none"

Chroma(c) == IF c = "A" THEN "chromaA" ELSE "chromaB"
FrameOK(c) ==
  /\ slot[c].holder = "callback" <=> cb[c] = "copy"
  /\ slot[c].holder = "main" <=> pc = Chroma(c)
  /\ slot[c].holder = "callback" => slot[c].y = Raw(raw[c])
  /\ slot[c].holder # "callback" => slot[c].y = slot[c].uv
  /\ pc = Chroma(c) /\ slot[c].valid => screen[c].panel.y = slot[c].y
  /\ ~(pc = Chroma(c) /\ slot[c].valid) => screen[c].panel.y = screen[c].panel.uv

Tiles   == \A s \in Streams : view[s].tile.y = view[s].tile.uv
PanelOK == Tiles /\ \A c \in Cameras : FrameOK(c)

Inv == TypeOK /\ LifeOK /\ PanelOK

-----------------------------------------------------------------------------
LEMMA LifeInit == Init => LifeOK
<1> SUFFICES ASSUME Init PROVE LifeOK  OBVIOUS
<1>1. \A c \in Cameras : /\ cb[c] = "idle" /\ ~delivering[c] /\ handle[c] = "none"
                         /\ slot[c].alive
  BY DEF Init, NewSlot
<1> QED  BY <1>1 DEF Init, LifeOK, Cameras

(* A step within the loop, or before it, that touches no camera.           *)
Between == {"display", "poll", "begin", "panelA", "chromaA", "panelB", "chromaB",
            "overlays", "sleep", "stopA", "unwindB"}
Quiet ==
  /\ UNCHANGED <<ringUp, handle, delivering, cb>>
  /\ \A c \in Cameras : slot'[c].alive = slot[c].alive
  /\ \/ pc' = pc
     \/ pc \in Between /\ pc' \in Between

LEMMA QuietKeeps == ASSUME LifeOK, Quiet PROVE LifeOK'
<1>1. CASE pc' = pc
  BY <1>1 DEF LifeOK, Quiet
<1>2. CASE pc \in Between /\ pc' \in Between
  <2>1. handle["A"] # "open" /\ handle["B"] # "open" /\ pc # "exited"
    BY <1>2 DEF LifeOK, Between
  <2>2. pc' \notin NotYetA \cup GoneA /\ pc' \notin NotYetB \cup GoneB
    BY <1>2 DEF Between, NotYetA, NotYetB, GoneA, GoneB
  <2> QED  BY <2>1, <2>2 DEF LifeOK, Quiet
<1> QED  BY <1>1, <1>2 DEF Quiet

LEMMA LoopQuiet ==
  ASSUME TypeOK,
         \/ OpenDisplay \/ NoDisplay \/ Poll \/ BeginFrame \/ SkipFrame \/ Overlays
         \/ Sleep \/ Leave \/ Signal \/ Exited \/ UNCHANGED vars
         \/ \E c \in Cameras : PlaceRect(c) \/ TakeSlot(c) \/ PlaceChroma(c) \/ NoPanel(c)
         \/ \E s \in Streams : Create(s) \/ Publish(s)
  PROVE  Quiet
<1> USE DEF Quiet, camera, callback, Main, Inside, outside
<1>1. CASE OpenDisplay \/ NoDisplay  BY <1>1 DEF OpenDisplay, NoDisplay, Between
<1>2. CASE Poll \/ BeginFrame \/ SkipFrame \/ Overlays \/ Sleep \/ Leave
  BY <1>2 DEF Poll, BeginFrame, SkipFrame, Overlays, Sleep, Leave, Between
<1>3. CASE Signal \/ Exited \/ UNCHANGED vars
  <2>1. UNCHANGED <<pc, ringUp, handle, delivering, cb, slot>>
    BY <1>3, Zenon DEF Signal, Exited, vars
  <2>2. \A c \in Cameras : slot'[c].alive = slot[c].alive  BY <2>1
  <2> QED  BY <2>1, <2>2, Zenon
<1>4. ASSUME NEW c \in Cameras, PlaceRect(c) \/ PlaceChroma(c) \/ TakeSlot(c) \/ NoPanel(c)
      PROVE  Quiet
  <2>1. pc \in Between /\ pc' \in Between
    BY <1>4 DEF PlaceRect, TakeSlot, PlaceChroma, NoPanel, PanelOf, AfterPanel, Between
  <2>2. UNCHANGED <<ringUp, handle, delivering, cb>>
    BY <1>4 DEF PlaceRect, TakeSlot, PlaceChroma, NoPanel
  <2>3. \A e \in Cameras : slot'[e].alive = slot[e].alive
    BY <1>4 DEF PlaceRect, TakeSlot, PlaceChroma, NoPanel, TypeOK, SlotType
  <2> QED  BY <2>1, <2>2, <2>3
<1>5. ASSUME NEW s \in Streams, Create(s) \/ Publish(s) PROVE Quiet
  <2>1. UNCHANGED <<pc, ringUp, handle, delivering, cb, slot>>
    BY <1>5, Zenon DEF Create, Publish
  <2>2. \A c \in Cameras : slot'[c].alive = slot[c].alive  BY <2>1
  <2> QED  BY <2>1, <2>2, Zenon
<1> QED  BY <1>1, <1>2, <1>3, <1>4, <1>5

LEMMA StartingLife ==
  ASSUME TypeOK, LifeOK, NEW c \in Cameras, StartStream(c) \/ Tune(c) \/ StartFailsOn(c)
  PROVE  LifeOK'
<1>1. c = "A" \/ c = "B"  BY DEF Cameras
<1>2. /\ UNCHANGED <<ringUp, cb, slot>> /\ pc \in {"startA", "tuneA", "startB", "tuneB"}
      /\ pc' \in {"tuneA", "startB", "tuneB", "display", "unwindB"}
  BY DEF StartStream, Tune, StartFailsOn, callback
<1>3. CASE StartStream(c)
  <2>1. /\ handle' = [handle EXCEPT ![c] = "open"]
        /\ delivering' = [delivering EXCEPT ![c] = TRUE]
        /\ \/ c = "A" /\ pc = "startA" /\ pc' = "tuneA"
           \/ c = "B" /\ pc = "startB" /\ pc' = "tuneB"
    BY <1>1, <1>3, Zenon DEF StartStream
  <2> QED  BY <1>2, <2>1 DEF LifeOK, TypeOK, Cameras, NotYetA, NotYetB, GoneA, GoneB
<1>4. CASE Tune(c)
  <2>1. /\ handle' = [handle EXCEPT ![c] = "streaming"] /\ UNCHANGED delivering
        /\ \/ c = "A" /\ pc = "tuneA" /\ pc' = "startB"
           \/ c = "B" /\ pc = "tuneB" /\ pc' = "display"
    BY <1>1, <1>4, Zenon DEF Tune
  <2> QED  BY <1>2, <2>1 DEF LifeOK, TypeOK, Cameras, NotYetA, NotYetB, GoneA, GoneB
<1>5. CASE StartFailsOn(c)
  <2>1. /\ UNCHANGED <<handle, delivering>>
        /\ pc \in {"startA", "startB"} /\ pc' \in {"display", "unwindB"}
    BY <1>5 DEF StartFailsOn, camera
  <2> QED  BY <1>2, <2>1 DEF LifeOK, TypeOK, Cameras, NotYetA, NotYetB, GoneA, GoneB
<1> QED  BY <1>3, <1>4, <1>5

LEMMA StoppingLife ==
  ASSUME TypeOK, LifeOK, NEW c \in Cameras, StopCamera(c)
  PROVE  LifeOK'
<1>1. c = "A" \/ c = "B"  BY DEF Cameras
<1>2. /\ UNCHANGED <<ringUp, cb, slot>>
      /\ handle[c] = "streaming" => cb[c] = "idle"
      /\ delivering' = [delivering EXCEPT ![c] = @ /\ handle[c] # "streaming"]
      /\ handle' = [handle EXCEPT ![c] = "none"]
      /\ \/ c = "A" /\ pc = "stopA" /\ pc' = "stopB"
         \/ c = "A" /\ pc = "unwindA" /\ pc' = "destroy"
         \/ c = "B" /\ pc = "stopB" /\ pc' = "shutdown"
         \/ c = "B" /\ pc = "unwindB" /\ pc' = "unwindA"
  BY <1>1 DEF StopCamera, callback
<1>3. handle[c] # "open"
  BY <1>1, <1>2 DEF LifeOK
<1>4. ~delivering'[c] /\ cb[c] = "idle" /\ handle'[c] = "none"
  BY <1>2, <1>3 DEF LifeOK, TypeOK
<1>5. \A e \in Cameras \ {c} : UNCHANGED <<delivering[e], handle[e]>>
  BY <1>2 DEF TypeOK
<1> QED
  BY <1>1, <1>2, <1>4, <1>5 DEF LifeOK, Cameras, NotYetA, NotYetB, GoneA, GoneB

LEMMA EndsLife ==
  ASSUME TypeOK, LifeOK, CreateRings \/ Shutdown \/ Destroy
  PROVE  LifeOK'
<1>1. UNCHANGED <<handle, delivering, cb>>
  BY Zenon DEF CreateRings, Shutdown, Destroy, camera, callback, Main
<1>2. \A c \in Cameras : handle[c] = "none" /\ ~delivering[c] /\ cb[c] = "idle"
  BY DEF LifeOK, CreateRings, Shutdown, Destroy, Cameras, NotYetA, NotYetB, GoneA, GoneB
<1>3. \/ pc = "rings" /\ pc' = "startA"
      \/ pc = "shutdown" /\ pc' = "destroy"
      \/ pc' = "exited"
  BY DEF CreateRings, Shutdown, Destroy
<1>4. pc # "exited" /\ (pc' # "exited" => UNCHANGED slot)
  <2>1. CASE CreateRings  BY <2>1 DEF CreateRings, callback
  <2>2. CASE Shutdown  BY <2>2 DEF Shutdown, callback
  <2>3. CASE Destroy  BY <2>3 DEF Destroy
  <2> QED  BY <2>1, <2>2, <2>3
<1> QED  BY <1>1, <1>2, <1>3, <1>4 DEF LifeOK, Cameras

LEMMA CallbackLife ==
  ASSUME TypeOK, LifeOK, NEW c \in Cameras, Arrive(c) \/ Callback(c)
  PROVE  LifeOK'
<1>1. UNCHANGED <<pc, ringUp, handle, delivering>>
  BY DEF Arrive, Callback, PublishRaw, LockSlot, CopyChroma, Rest, camera
<1>2. \A e \in Cameras : slot'[e].alive = slot[e].alive
  <2>1. UNCHANGED slot \/ LockSlot(c) \/ CopyChroma(c)
    BY Zenon DEF Arrive, Callback, PublishRaw
  <2>2. CASE LockSlot(c)  BY <2>2 DEF LockSlot, TypeOK, SlotType
  <2>3. CASE CopyChroma(c)  BY <2>3 DEF CopyChroma, TypeOK, SlotType
  <2> QED  BY <2>1, <2>2, <2>3
<1>3. \A e \in Cameras \ {c} : cb'[e] = cb[e]
  BY DEF Arrive, Callback, PublishRaw, LockSlot, CopyChroma, TypeOK
<1>4. delivering[c] /\ (cb'[c] = "ring" => ringUp[c])
  BY DEF Arrive, Callback, PublishRaw, LockSlot, CopyChroma, TypeOK, LifeOK, ToRing
<1> QED  BY <1>1, <1>2, <1>3, <1>4 DEF LifeOK

LEMMA LifeStep == ASSUME TypeOK, LifeOK, [Next]_vars PROVE LifeOK'
BY LoopQuiet, QuietKeeps, StartingLife, StoppingLife, EndsLife, CallbackLife
   DEF Next, MainStep

-----------------------------------------------------------------------------
USE BoundsAssumption

LEMMA FrameTypes ==
  /\ NoFrame \in Frames /\ Black \in Pictures /\ Expired \in Ages /\ 0 \in Ages
  /\ \A n \in Nat : Raw(n) \in Frames
  /\ \A f \in Frames, from \in Kinds \cup {"none", "raw"} : Whole(from, f) \in Pictures
  /\ NewSlot \in SlotType /\ Closed \in ViewType
  /\ NoRing \in RingType /\ OldRing \in RingType
<1>1. NoFrame \in Frames /\ \A n \in Nat : Raw(n) \in Frames
  BY DEF NoFrame, Raw, Frames
<1>2. Expired \in Ages /\ 0 \in Ages /\ 0 \in 0 .. OpenRetry
  BY DEF Ages, Expired
<1>3. \A f \in Frames, from \in Kinds \cup {"none", "raw"} : Whole(from, f) \in Pictures
  BY DEF Whole, Pictures
<1>4. Black \in Pictures  BY <1>1 DEF Black, Pictures
<1>5. NewSlot \in SlotType  BY <1>1 DEF NewSlot, SlotType, Holders
<1>6. Closed \in ViewType  BY <1>2, <1>4 DEF Closed, ViewType
<1>7. [run |-> 0, idx |-> MaxIdx, finite |-> TRUE] \in Frames  BY DEF Frames
<1>8. NoRing \in RingType /\ OldRing \in RingType
  BY <1>1, <1>2, <1>7 DEF NoRing, OldRing, RingType
<1> QED  BY <1>1, <1>2, <1>3, <1>4, <1>5, <1>6, <1>8

LEMMA TypeInit == Init => TypeOK
<1> SUFFICES ASSUME Init PROVE TypeOK  OBVIOUS
<1>1. slot \in [Cameras -> SlotType]  BY FrameTypes DEF Init
<1>2. screen \in [Cameras -> ScreenType]  BY FrameTypes DEF Init, ScreenType
<1>3. view \in [Streams -> ViewType]  BY FrameTypes DEF Init
<1>4. ring \in [Streams -> RingType]  BY FrameTypes DEF Init
<1> QED  BY <1>1, <1>2, <1>3, <1>4 DEF Init, TypeOK, Places

LEMMA SlotTypes ==
  ASSUME TypeOK, [Next]_vars
  PROVE  slot' \in [Cameras -> SlotType]
<1>1. CASE UNCHANGED slot  BY <1>1 DEF TypeOK
<1>2. ASSUME NEW c \in Cameras, LockSlot(c) PROVE slot' \in [Cameras -> SlotType]
  <2>1. Raw(raw[c]) \in Frames  BY FrameTypes DEF TypeOK
  <2> DEFINE f == Raw(raw[c])
             s1 == [slot EXCEPT ![c].holder = "callback"]
  <2>2. s1 \in [Cameras -> SlotType]  BY DEF TypeOK, SlotType, Holders
  <2>3. [s1 EXCEPT ![c].y = f] \in [Cameras -> SlotType]
    <3> HIDE DEF s1, f
    <3> QED  BY <2>2, <2>1 DEF SlotType, f
  <2>4. slot' = [s1 EXCEPT ![c].y = f]  BY <1>2 DEF LockSlot
  <2> QED  BY <2>3, <2>4
<1>3. ASSUME NEW c \in Cameras, CopyChroma(c) PROVE slot' \in [Cameras -> SlotType]
  <2>1. Raw(raw[c]) \in Frames  BY FrameTypes DEF TypeOK
  <2> DEFINE f == Raw(raw[c])
             h == IF slot[c].holder = "callback" THEN "nobody" ELSE slot[c].holder
  <2>2. h \in Holders  BY DEF TypeOK, SlotType, Holders
  <2>3. slot' = [slot EXCEPT ![c] = [slot[c] EXCEPT !.holder = h, !.uv = f, !.valid = TRUE]]
    <3>1. slot[c] \in SlotType  BY DEF TypeOK
    <3> QED  BY <1>3, <3>1 DEF CopyChroma, TypeOK, SlotType
  <2> HIDE DEF f, h
  <2>4. [slot[c] EXCEPT !.holder = h, !.uv = f, !.valid = TRUE] \in SlotType
    <3>1. slot[c] \in SlotType /\ f \in Frames  BY <2>1 DEF TypeOK, f
    <3> QED  BY <2>2, <3>1 DEF SlotType
  <2> QED  BY <2>3, <2>4 DEF TypeOK
<1>4. ASSUME NEW c \in Cameras, TakeSlot(c) PROVE slot' \in [Cameras -> SlotType]
  BY <1>4 DEF TakeSlot, TypeOK, SlotType, Holders
<1>5. ASSUME NEW c \in Cameras, PlaceChroma(c) PROVE slot' \in [Cameras -> SlotType]
  BY <1>5 DEF PlaceChroma, TypeOK, SlotType, Holders
<1>6. CASE Destroy  BY <1>6 DEF Destroy, TypeOK, SlotType
<1>7. \/ UNCHANGED slot \/ Destroy
      \/ \E c \in Cameras : LockSlot(c) \/ CopyChroma(c) \/ TakeSlot(c) \/ PlaceChroma(c)
  BY Zenon DEF Next, MainStep, vars, callback, Inside, Rest, CreateRings, OpenDisplay, NoDisplay,
     StartStream, StartFailsOn, Tune, StopCamera, PlaceRect, NoPanel, Poll, BeginFrame,
     SkipFrame, Overlays, Sleep, Leave, Shutdown, Signal, Exited, Arrive, Callback,
     PublishRaw, Create, Publish
<1> QED  BY <1>1, <1>2, <1>3, <1>4, <1>5, <1>6, <1>7

(* Which actions draw, poll and publish.                                   *)
LEMMA WhoChanges ==
  ASSUME [Next]_vars
  PROVE  /\ \/ UNCHANGED screen \/ Overlays \/ Sleep
            \/ \E c \in Cameras : PlaceRect(c) \/ TakeSlot(c) \/ PlaceChroma(c)
         /\ UNCHANGED view \/ Poll \/ Sleep
         /\ UNCHANGED ring \/ Sleep \/ \E s \in Streams : Create(s) \/ Publish(s)
BY Zenon DEF Next, MainStep, vars, outside, Inside, Rest, Main, CreateRings, OpenDisplay,
   NoDisplay, StartStream, StartFailsOn, Tune, StopCamera, PlaceRect, TakeSlot, PlaceChroma,
   NoPanel, Poll, BeginFrame, SkipFrame, Overlays, Leave, Shutdown, Destroy,
   Signal, Exited, Arrive, Callback, PublishRaw, LockSlot, CopyChroma, Create, Publish

LEMMA OlderType == \A a \in Ages : Older(a) \in Ages
BY DEF Older, Ages, Expired

LEMMA ScreenTypes ==
  ASSUME TypeOK, [Next]_vars
  PROVE  screen' \in [Cameras -> ScreenType]
<1>1. \A c \in Cameras : screen[c] \in ScreenType  BY DEF TypeOK
<1>2. \A s \in Streams : view[s] \in ViewType  BY DEF TypeOK
<1>3. ASSUME NEW c \in Cameras, PlaceRect(c) PROVE screen' \in [Cameras -> ScreenType]
  <2> DEFINE p == view[<<"rect", c>>].tile
  <2>1. p \in Pictures /\ Expired \in Ages
    BY <1>2, FrameTypes DEF ViewType, Streams, Kinds
  <2>2. screen' = [screen EXCEPT ![c] = [screen[c] EXCEPT !.panel = p, !.circles = Expired]]
    BY <1>3, <1>1 DEF PlaceRect, TypeOK, ScreenType
  <2> HIDE DEF p
  <2>3. [screen[c] EXCEPT !.panel = p, !.circles = Expired] \in ScreenType
    BY <1>1, <2>1 DEF ScreenType
  <2> QED  BY <2>2, <2>3 DEF TypeOK
<1>4. ASSUME NEW c \in Cameras, TakeSlot(c) PROVE screen' \in [Cameras -> ScreenType]
  <2> DEFINE p == [from |-> "raw", y |-> slot[c].y, uv |-> screen[c].panel.uv]
  <2>1. slot[c].y \in Frames /\ screen[c].panel.uv \in Frames /\ Expired \in Ages
    BY <1>1, FrameTypes DEF TypeOK, SlotType, ScreenType, Pictures
  <2>2. p \in Pictures  BY <2>1 DEF Pictures
  <2>3. \/ screen' = screen
        \/ screen' = [screen EXCEPT ![c] = [screen[c] EXCEPT !.panel = p, !.circles = Expired]]
    BY <1>4, <1>1 DEF TakeSlot, TypeOK, ScreenType
  <2> HIDE DEF p
  <2>4. [screen[c] EXCEPT !.panel = p, !.circles = Expired] \in ScreenType
    BY <1>1, <2>1, <2>2 DEF ScreenType
  <2> QED  BY <2>3, <2>4 DEF TypeOK
<1>5. ASSUME NEW c \in Cameras, PlaceChroma(c) PROVE screen' \in [Cameras -> ScreenType]
  <2> DEFINE p == [screen[c].panel EXCEPT !.uv = slot[c].uv]
  <2>1. slot[c].uv \in Frames /\ screen[c].panel \in Pictures
    BY <1>1 DEF TypeOK, SlotType, ScreenType
  <2>2. p \in Pictures  BY <2>1 DEF Pictures
  <2>3. screen' = screen \/ screen' = [screen EXCEPT ![c] = [screen[c] EXCEPT !.panel = p]]
    BY <1>5, <1>1 DEF PlaceChroma, TypeOK, ScreenType
  <2> HIDE DEF p
  <2>4. [screen[c] EXCEPT !.panel = p] \in ScreenType
    BY <1>1, <2>2 DEF ScreenType
  <2> QED  BY <2>3, <2>4 DEF TypeOK
<1>6. CASE Overlays
  <2> SUFFICES ASSUME NEW c \in Cameras PROVE Overlaid(c) \in ScreenType
    BY <1>6 DEF Overlays
  <2> DEFINE p == IF Valid(<<"depth", c>>) THEN view[<<"depth", c>>].tile ELSE screen[c].depth
             a == IF Valid(<<"det", c>>) /\ view[<<"det", c>>].age <= FreshFor
                  THEN view[<<"det", c>>].age ELSE screen[c].circles
  <2>1. p \in Pictures /\ a \in Ages
    BY <1>1, <1>2 DEF ViewType, ScreenType, Streams, Kinds
  <2>2. Overlaid(c) = [screen[c] EXCEPT !.depth = p, !.circles = a]
    BY <1>1 DEF Overlaid, ScreenType
  <2> HIDE DEF p, a
  <2> QED  BY <1>1, <2>1, <2>2 DEF ScreenType
<1>7. CASE Sleep
  <2> SUFFICES ASSUME NEW c \in Cameras
               PROVE  [screen[c] EXCEPT !.circles = Older(@)] \in ScreenType
    BY <1>7 DEF Sleep
  <2>1. Older(screen[c].circles) \in Ages  BY <1>1, OlderType DEF ScreenType
  <2> QED  BY <1>1, <2>1 DEF ScreenType
<1> QED  BY <1>3, <1>4, <1>5, <1>6, <1>7, WhoChanges DEF TypeOK

LEMMA TriedType ==
  ASSUME TypeOK, NEW s \in Streams
  PROVE  Tried(s) \in ViewType /\ Tried(s).tile = view[s].tile
<1>1. view[s] \in ViewType /\ ring[s] \in RingType  BY DEF TypeOK
<1>2. CASE view[s].open  BY <1>2, <1>1 DEF Tried
<1>3. CASE ~view[s].open /\ view[s].wait > 0
  <2>1. view[s].wait - 1 \in 0 .. OpenRetry  BY <1>3, <1>1 DEF ViewType
  <2>2. Tried(s) = [view[s] EXCEPT !.wait = view[s].wait - 1]
    BY <1>3, <1>1 DEF Tried, ViewType
  <2> QED  BY <1>1, <2>1, <2>2 DEF ViewType
<1>4. CASE ~view[s].open /\ ~(view[s].wait > 0)
  <2>1. OpenRetry \in 0 .. OpenRetry /\ ring[s].up \in BOOLEAN  BY <1>1 DEF RingType
  <2>2. Tried(s) = [view[s] EXCEPT !.wait = OpenRetry, !.open = ring[s].up]
    BY <1>4, <1>1 DEF Tried, ViewType
  <2> QED  BY <1>1, <2>1, <2>2 DEF ViewType
<1> QED  BY <1>2, <1>3, <1>4

LEMMA PolledType ==
  ASSUME TypeOK, NEW s \in Streams
  PROVE  Polled(s) \in ViewType
<1>1. view[s] \in ViewType /\ ring[s] \in RingType  BY DEF TypeOK
<1>2. Tried(s) \in ViewType  BY TriedType
<1> DEFINE v == Tried(s)
           t == Tile(s, v, ring[s].newest)
<1>3. ring[s].newest \in Frames /\ ring[s].age \in Ages /\ ring[s].newest.idx \in Nat
  BY <1>1 DEF RingType, Frames
<1>4. t \in Pictures
  <2>1. s[1] \in Kinds  BY DEF Streams
  <2> QED  BY <2>1, <1>2, <1>3, FrameTypes DEF Tile, ViewType
<1>5. Polled(s) \in {view[s], v,
        [v EXCEPT !.have = TRUE, !.idx = ring[s].newest.idx, !.tile = t, !.age = ring[s].age]}
  BY DEF Polled
<1>6. v \in ViewType  BY <1>2
<1> HIDE DEF v, t
<1>7. [v EXCEPT !.have = TRUE, !.idx = ring[s].newest.idx, !.tile = t, !.age = ring[s].age]
        \in ViewType
  BY <1>3, <1>4, <1>6 DEF ViewType
<1> QED  BY <1>1, <1>5, <1>6, <1>7

LEMMA ViewTypes ==
  ASSUME TypeOK, [Next]_vars
  PROVE  view' \in [Streams -> ViewType]
<1>1. CASE Poll  BY <1>1, PolledType DEF Poll
<1>2. CASE Sleep
  <2> SUFFICES ASSUME NEW s \in Streams PROVE [view[s] EXCEPT !.age = Older(@)] \in ViewType
    BY <1>2 DEF Sleep
  <2>1. view[s] \in ViewType  BY DEF TypeOK
  <2>2. Older(view[s].age) \in Ages  BY <2>1, OlderType DEF ViewType
  <2> QED  BY <2>1, <2>2 DEF ViewType
<1> QED  BY <1>1, <1>2, WhoChanges DEF TypeOK

LEMMA RingTypes ==
  ASSUME TypeOK, [Next]_vars
  PROVE  ring' \in [Streams -> RingType]
<1>1. ASSUME NEW s \in Streams, Create(s) PROVE ring' \in [Streams -> RingType]
  <2>1. [up |-> TRUE, newest |-> NoFrame, age |-> Age0(s)] \in RingType
    BY FrameTypes DEF Age0, RingType
  <2> QED  BY <1>1, <2>1 DEF Create, TypeOK
<1>2. ASSUME NEW s \in Streams, Publish(s) PROVE ring' \in [Streams -> RingType]
  <2> DEFINE last == IF ring[s].newest.run = 1 THEN ring[s].newest.idx ELSE 0
             entry(finite) ==
               [up |-> TRUE, age |-> Age0(s),
                newest |-> [run |-> 1, idx |-> last + 1, finite |-> finite]]
  <2>1. last \in Nat  BY DEF TypeOK, RingType, Frames
  <2>2. PICK finite \in BOOLEAN : ring' = [ring EXCEPT ![s] = entry(finite)]
    BY <1>2 DEF Publish
  <2> HIDE DEF last
  <2>3. entry(finite) \in RingType
    BY <2>1, FrameTypes DEF Age0, RingType, Frames
  <2> QED  BY <2>2, <2>3 DEF TypeOK
<1>3. CASE Sleep
  <2> SUFFICES ASSUME NEW s \in Streams PROVE [ring[s] EXCEPT !.age = Older(@)] \in RingType
    BY <1>3 DEF Sleep
  <2>1. ring[s] \in RingType  BY DEF TypeOK
  <2>2. Older(ring[s].age) \in Ages  BY <2>1, OlderType DEF RingType
  <2> QED  BY <2>1, <2>2 DEF RingType
<1> QED  BY <1>1, <1>2, <1>3, WhoChanges DEF TypeOK

LEMMA ScalarTypes ==
  ASSUME TypeOK, [Next]_vars
  PROVE  /\ pc' \in Places /\ window' \in {"none", "up", "broken"}
         /\ haveB' \in BOOLEAN /\ changed' \in BOOLEAN /\ quit' \in BOOLEAN
<1>1. pc' \in Places
  <2>1. ASSUME NEW c \in Cameras, StopCamera(c) PROVE pc' \in Places
    BY <2>1 DEF StopCamera, Places
  <2>2. ASSUME NEW c \in Cameras, \/ StartStream(c) \/ StartFailsOn(c) \/ Tune(c)
                                 \/ PlaceRect(c) \/ TakeSlot(c) \/ PlaceChroma(c) \/ NoPanel(c)
        PROVE  pc' \in Places
    BY <2>2 DEF StartStream, StartFailsOn, Tune, PlaceRect, TakeSlot, PlaceChroma, NoPanel,
       AfterPanel, Places
  <2>3. CASE \/ CreateRings \/ OpenDisplay \/ NoDisplay \/ Poll \/ BeginFrame
             \/ SkipFrame \/ Overlays \/ Sleep \/ Leave \/ Shutdown \/ Destroy
    BY <2>3 DEF CreateRings, OpenDisplay, NoDisplay, Poll, BeginFrame, SkipFrame,
       Overlays, Sleep, Leave, Shutdown, Destroy, Places
  <2>4. CASE \/ Signal \/ Exited \/ UNCHANGED vars
             \/ \E c \in Cameras : Arrive(c) \/ Callback(c)
             \/ \E s \in Streams : Create(s) \/ Publish(s)
    <3>1. UNCHANGED pc
      BY <2>4, Zenon DEF Signal, Exited, vars, Arrive, Callback, PublishRaw, LockSlot,
         CopyChroma, Create, Publish, Inside, Rest
    <3> QED  BY <3>1 DEF TypeOK
  <2> QED  BY <2>1, <2>2, <2>3, <2>4, Zenon DEF Next, MainStep
<1>2. UNCHANGED window \/ window' \in {"none", "up", "broken"}
  BY DEF Next, MainStep, vars, Inside, Rest, Main, CreateRings, OpenDisplay,
     NoDisplay, StartStream, StartFailsOn, Tune, StopCamera, PlaceRect, TakeSlot,
     PlaceChroma, NoPanel, Poll, BeginFrame, SkipFrame, Overlays, Sleep, Leave,
     Shutdown, Destroy, Signal, Exited, Arrive, Callback, PublishRaw, LockSlot,
     CopyChroma, Create, Publish
<1>3. UNCHANGED haveB \/ haveB' \in BOOLEAN
  BY DEF Next, MainStep, vars, Inside, Rest, Main, CreateRings, OpenDisplay,
     NoDisplay, StartStream, StartFailsOn, Tune, StopCamera, PlaceRect, TakeSlot,
     PlaceChroma, NoPanel, Poll, BeginFrame, SkipFrame, Overlays, Sleep, Leave,
     Shutdown, Destroy, Signal, Exited, Arrive, Callback, PublishRaw, LockSlot,
     CopyChroma, Create, Publish
<1>4. UNCHANGED changed \/ changed' \in BOOLEAN
  BY DEF Next, MainStep, vars, Inside, Rest, Main, CreateRings, OpenDisplay,
     NoDisplay, StartStream, StartFailsOn, Tune, StopCamera, PlaceRect, TakeSlot,
     PlaceChroma, NoPanel, Poll, BeginFrame, SkipFrame, Overlays, Sleep, Leave,
     Shutdown, Destroy, Signal, Exited, Arrive, Callback, PublishRaw, LockSlot,
     CopyChroma, Create, Publish
<1>5. UNCHANGED quit \/ quit' \in BOOLEAN
  BY DEF Next, MainStep, vars, outside, Inside, Rest, Main, CreateRings, OpenDisplay,
     NoDisplay, StartStream, StartFailsOn, Tune, StopCamera, PlaceRect, TakeSlot,
     PlaceChroma, NoPanel, Poll, BeginFrame, SkipFrame, Overlays, Sleep, Leave,
     Shutdown, Destroy, Signal, Exited, Arrive, Callback, PublishRaw, LockSlot,
     CopyChroma, Create, Publish
<1> QED  BY <1>1, <1>2, <1>3, <1>4, <1>5, Zenon DEF TypeOK

LEMMA CameraTypes ==
  ASSUME TypeOK, [Next]_vars
  PROVE  /\ ringUp' \in [Cameras -> BOOLEAN] /\ delivering' \in [Cameras -> BOOLEAN]
         /\ handle' \in [Cameras -> {"none", "open", "streaming"}]
         /\ cb' \in [Cameras -> {"idle", "ring", "lock", "copy"}]
         /\ raw' \in [Cameras -> Nat]
<1>1. \/ UNCHANGED <<ringUp, handle, delivering, cb, raw>>
      \/ CreateRings \/ Shutdown
      \/ \E c \in Cameras : \/ StartStream(c) \/ Tune(c) \/ StopCamera(c)
                           \/ Arrive(c) \/ Callback(c)
  BY Zenon DEF Next, MainStep, vars, camera, callback, Inside, Main, OpenDisplay, NoDisplay,
     StartFailsOn, PlaceRect, TakeSlot, PlaceChroma, NoPanel, Poll, BeginFrame, SkipFrame,
     Overlays, Sleep, Leave, Destroy, Signal, Exited, Create, Publish
<1>2. CASE UNCHANGED <<ringUp, handle, delivering, cb, raw>>  BY <1>2 DEF TypeOK
<1>3. CASE CreateRings \/ Shutdown
  BY <1>3 DEF CreateRings, Shutdown, camera, callback, TypeOK
<1>4. ASSUME NEW c \in Cameras, StartStream(c) \/ Tune(c) \/ StopCamera(c)
      PROVE  /\ UNCHANGED <<ringUp, cb, raw>> /\ delivering' \in [Cameras -> BOOLEAN]
             /\ handle' \in [Cameras -> {"none", "open", "streaming"}]
  BY <1>4 DEF StartStream, Tune, StopCamera, callback, TypeOK
<1>5. ASSUME NEW c \in Cameras, Arrive(c) \/ Callback(c)
      PROVE  /\ UNCHANGED <<ringUp, handle, delivering>> /\ raw' \in [Cameras -> Nat]
             /\ cb' \in [Cameras -> {"idle", "ring", "lock", "copy"}]
  BY <1>5 DEF Arrive, Callback, PublishRaw, LockSlot, CopyChroma, Rest, camera, TypeOK
<1> QED  BY <1>1, <1>2, <1>3, <1>4, <1>5 DEF TypeOK

LEMMA TypeStep == ASSUME TypeOK, [Next]_vars PROVE TypeOK'
BY ScalarTypes, CameraTypes, SlotTypes, ScreenTypes, ViewTypes, RingTypes, Zenon DEF TypeOK

-----------------------------------------------------------------------------
(* The pictures.                                                           *)
LEMMA TilesStep == ASSUME TypeOK, Tiles, [Next]_vars PROVE Tiles'
<1>1. ASSUME Poll, NEW s \in Streams PROVE view'[s].tile.y = view'[s].tile.uv
  <2>1. view[s] \in ViewType /\ Tried(s).tile = view[s].tile /\ Tried(s) \in ViewType
    BY TriedType DEF TypeOK
  <2> DEFINE t == Tile(s, Tried(s), ring[s].newest)
  <2>2. t.y = t.uv  BY <2>1 DEF Tile, Whole, Tiles
  <2>3. Polled(s).tile \in {view[s].tile, t}  BY <2>1 DEF Polled, ViewType
  <2>4. view'[s] = Polled(s)  BY <1>1 DEF Poll
  <2> QED  BY <2>2, <2>3, <2>4 DEF Tiles
<1>2. ASSUME Sleep, NEW s \in Streams PROVE view'[s].tile = view[s].tile
  BY <1>2 DEF Sleep, TypeOK, ViewType
<1> QED  BY <1>1, <1>2, WhoChanges DEF Tiles

(* A step that leaves the slot, the panel and the callback of c alone.     *)
Aside(c) ==
  /\ slot'[c].holder = slot[c].holder /\ slot'[c].valid = slot[c].valid
  /\ slot'[c].y = slot[c].y /\ slot'[c].uv = slot[c].uv
  /\ screen'[c].panel = screen[c].panel
  /\ UNCHANGED <<cb[c], raw[c]>>
  /\ pc' = Chroma(c) <=> pc = Chroma(c)

LEMMA AsideKeeps == ASSUME NEW c \in Cameras, FrameOK(c), Aside(c) PROVE FrameOK(c)'
BY DEF FrameOK, Aside

LEMMA ChromaNames ==
  /\ Chroma("A") = "chromaA" /\ Chroma("B") = "chromaB"
  /\ \A c \in Cameras : /\ AfterPanel(c) \notin {"chromaA", "chromaB"}
                       /\ PanelOf(c) \notin {"chromaA", "chromaB"}
                       /\ Chroma(c) \in {"chromaA", "chromaB"}
                       /\ \A e \in Cameras : e # c => Chroma(e) # Chroma(c)
BY DEF Chroma, AfterPanel, PanelOf, Cameras

LEMMA MainAside ==
  ASSUME TypeOK,
         \/ CreateRings \/ OpenDisplay \/ NoDisplay \/ Poll \/ BeginFrame \/ SkipFrame
         \/ Overlays \/ Sleep \/ Leave \/ Shutdown \/ Destroy
         \/ Signal \/ Exited \/ UNCHANGED vars
         \/ \E e \in Cameras : StartStream(e) \/ StartFailsOn(e) \/ Tune(e) \/ StopCamera(e)
                            \/ NoPanel(e)
         \/ \E s \in Streams : Create(s) \/ Publish(s),
         NEW c \in Cameras
  PROVE  Aside(c)
<1>1. UNCHANGED <<cb, raw>>
  BY Zenon DEF vars, callback, Inside, Main, CreateRings, OpenDisplay, NoDisplay, StartStream,
     StartFailsOn, Tune, StopCamera, NoPanel, Poll, BeginFrame, SkipFrame, Overlays,
     Sleep, Leave, Shutdown, Destroy, Signal, Exited, Create, Publish
<1>2. UNCHANGED slot \/ Destroy
  BY Zenon DEF vars, callback, Inside, Main, CreateRings, OpenDisplay, NoDisplay, StartStream,
     StartFailsOn, Tune, StopCamera, NoPanel, Poll, BeginFrame, SkipFrame, Overlays,
     Sleep, Leave, Shutdown, Signal, Exited, Create, Publish
<1>3. UNCHANGED screen \/ Overlays \/ Sleep
  BY Zenon DEF vars, callback, Inside, Main, CreateRings, OpenDisplay, NoDisplay, StartStream,
     StartFailsOn, Tune, StopCamera, NoPanel, Poll, BeginFrame, SkipFrame,
     Leave, Shutdown, Destroy, Signal, Exited, Create, Publish
<1>4. /\ slot'[c].holder = slot[c].holder /\ slot'[c].valid = slot[c].valid
      /\ slot'[c].y = slot[c].y /\ slot'[c].uv = slot[c].uv
  BY <1>2 DEF Destroy, TypeOK, SlotType
<1>5. screen'[c].panel = screen[c].panel
  <2>1. screen[c] \in ScreenType  BY DEF TypeOK
  <2>2. CASE Overlays  BY <2>1, <2>2 DEF Overlays, Overlaid, ScreenType
  <2>3. CASE Sleep  BY <2>1, <2>3 DEF Sleep, ScreenType
  <2> QED  BY <1>3, <2>2, <2>3
<1>6. pc' = Chroma(c) <=> pc = Chroma(c)
  <2>1. CASE \/ Signal \/ Exited \/ UNCHANGED vars
             \/ \E s \in Streams : Create(s) \/ Publish(s)
    <3>1. UNCHANGED pc  BY <2>1, Zenon DEF Signal, Exited, vars, Create, Publish, Inside
    <3> QED  BY <3>1
  <2>2. CASE \/ CreateRings \/ OpenDisplay \/ NoDisplay \/ Poll \/ BeginFrame \/ SkipFrame
             \/ Overlays \/ Sleep \/ Leave \/ Shutdown \/ Destroy
    BY <2>2, ChromaNames DEF CreateRings, OpenDisplay, NoDisplay, Poll, BeginFrame, SkipFrame,
       Overlays, Sleep, Leave, Shutdown, Destroy
  <2>3. ASSUME NEW e \in Cameras, StartStream(e) \/ StartFailsOn(e) \/ Tune(e) \/ NoPanel(e)
        PROVE  pc' # Chroma(c) /\ pc # Chroma(c)
    BY <2>3, ChromaNames DEF StartStream, StartFailsOn, Tune, NoPanel
  <2>4. ASSUME NEW e \in Cameras, StopCamera(e)
        PROVE  pc' # Chroma(c) /\ pc # Chroma(c)
    BY <2>4, ChromaNames DEF StopCamera
  <2> QED  BY <2>1, <2>2, <2>3, <2>4
<1> QED  BY <1>1, <1>4, <1>5, <1>6 DEF Aside

LEMMA CallbackPanel ==
  ASSUME TypeOK, NEW e \in Cameras, Arrive(e) \/ Callback(e), NEW c \in Cameras, FrameOK(c)
  PROVE  FrameOK(c)'
<1>1. UNCHANGED <<pc, screen>>
  BY Zenon DEF Arrive, Callback, PublishRaw, LockSlot, CopyChroma, Rest
<1>2. slot[c] \in SlotType  BY DEF TypeOK
<1>3. CASE c # e
  <2>1. UNCHANGED <<slot[c], cb[c], raw[c]>>
    BY <1>3 DEF Arrive, Callback, PublishRaw, LockSlot, CopyChroma, TypeOK
  <2> QED  BY <1>1, <2>1 DEF FrameOK
<1>4. CASE c = e /\ (Arrive(e) \/ PublishRaw(e))
  <2>1. cb[c] # "copy" /\ cb'[c] # "copy" /\ UNCHANGED slot
    BY <1>4 DEF Arrive, PublishRaw, TypeOK
  <2> QED  BY <1>1, <2>1 DEF FrameOK
<1>5. CASE c = e /\ LockSlot(e)
  <2>1. /\ slot[c].holder = "nobody" /\ cb'[c] = "copy" /\ UNCHANGED raw
        /\ slot'[c].holder = "callback" /\ slot'[c].y = Raw(raw[c])
        /\ slot'[c].valid = slot[c].valid
    BY <1>5, <1>2 DEF LockSlot, TypeOK, SlotType
  <2> QED  BY <1>1, <2>1 DEF FrameOK
<1>6. CASE c = e /\ CopyChroma(e)
  <2>1. /\ cb[c] = "copy" /\ cb'[c] = "idle" /\ UNCHANGED raw
        /\ slot[c].holder = "callback" => slot'[c].holder = "nobody"
        /\ slot'[c].y = slot[c].y /\ slot'[c].uv = Raw(raw[c])
    BY <1>6, <1>2 DEF CopyChroma, TypeOK, SlotType
  <2> QED  BY <1>1, <2>1 DEF FrameOK
<1> QED  BY <1>3, <1>4, <1>5, <1>6 DEF Callback

LEMMA DrawPanel ==
  ASSUME TypeOK, Tiles, NEW e \in Cameras, PlaceRect(e) \/ TakeSlot(e) \/ PlaceChroma(e),
         NEW c \in Cameras, FrameOK(c)
  PROVE  FrameOK(c)'
<1>1. UNCHANGED <<cb, raw>>  BY Zenon DEF PlaceRect, TakeSlot, PlaceChroma, Main
<1>2. slot[c] \in SlotType /\ screen[c] \in ScreenType  BY DEF TypeOK
<1>3. CASE c # e
  <2>1. UNCHANGED <<slot[c], screen[c]>>
    BY <1>3 DEF PlaceRect, TakeSlot, PlaceChroma, TypeOK
  <2>2. pc # Chroma(c) /\ pc' # Chroma(c)
    BY <1>3, ChromaNames DEF PlaceRect, TakeSlot, PlaceChroma, Chroma
  <2> QED  BY <1>1, <2>1, <2>2 DEF FrameOK
<1>4. CASE c = e /\ PlaceRect(e)
  <2>1. /\ UNCHANGED slot /\ pc # Chroma(c) /\ pc' # Chroma(c)
        /\ screen'[c].panel = view[<<"rect", c>>].tile
    BY <1>4, <1>2, ChromaNames DEF PlaceRect, TypeOK, ScreenType
  <2>2. <<"rect", c>> \in Streams  BY DEF Streams, Kinds
  <2> QED  BY <1>1, <2>1, <2>2 DEF FrameOK, Tiles
<1>5. CASE c = e /\ TakeSlot(e)
  <2>1. /\ pc # Chroma(c) /\ pc' = Chroma(c) /\ slot[c].holder = "nobody"
        /\ slot'[c].holder = "main" /\ slot'[c].y = slot[c].y
        /\ slot'[c].uv = slot[c].uv /\ slot'[c].valid = slot[c].valid
    BY <1>5, <1>2, ChromaNames DEF TakeSlot, Chroma, TypeOK, SlotType
  <2>2. IF slot[c].valid THEN screen'[c].panel.y = slot[c].y ELSE screen' = screen
    BY <1>5, <1>2 DEF TakeSlot, TypeOK, ScreenType
  <2> QED  BY <1>1, <2>1, <2>2 DEF FrameOK
<1>6. CASE c = e /\ PlaceChroma(e)
  <2>1. /\ pc = Chroma(c) /\ pc' # Chroma(c)
        /\ slot'[c].holder = "nobody" /\ slot'[c].y = slot[c].y
        /\ slot'[c].uv = slot[c].uv /\ slot'[c].valid = slot[c].valid
    BY <1>6, <1>2, ChromaNames DEF PlaceChroma, Chroma, TypeOK, SlotType
  <2>2. IF slot[c].valid THEN /\ screen'[c].panel.uv = slot[c].uv
                              /\ screen'[c].panel.y = screen[c].panel.y
                         ELSE screen' = screen
    BY <1>6, <1>2 DEF PlaceChroma, TypeOK, ScreenType, Pictures
  <2> QED  BY <1>1, <2>1, <2>2 DEF FrameOK
<1> QED  BY <1>3, <1>4, <1>5, <1>6

LEMMA PanelStep == ASSUME TypeOK, PanelOK, [Next]_vars PROVE PanelOK'
<1> SUFFICES ASSUME NEW c \in Cameras PROVE FrameOK(c)'
  BY TilesStep DEF PanelOK
<1>1. FrameOK(c) /\ Tiles  BY DEF PanelOK
<1> QED
  BY <1>1, AsideKeeps, MainAside, CallbackPanel, DrawPanel DEF Next, MainStep

LEMMA PanelInit == Init => PanelOK
<1> SUFFICES ASSUME Init PROVE PanelOK  OBVIOUS
<1>1. Tiles  BY DEF Init, Closed, Black, Tiles
<1>2. ASSUME NEW c \in Cameras PROVE FrameOK(c)
  <2>1. slot[c] = NewSlot /\ cb[c] = "idle" /\ pc = "rings" /\ screen[c].panel = Black
    BY DEF Init
  <2> QED  BY <2>1, ChromaNames DEF FrameOK, NewSlot, Black
<1> QED  BY <1>1, <1>2 DEF PanelOK

-----------------------------------------------------------------------------
(* The ages of detections: what was read of a ring is at least as old as   *)
(* what is in it, and the circles last drawn are at least as old as what   *)
(* was read.  (The age of circles that have expired is no longer kept; it  *)
(* says nothing of their pixels.)                                          *)
FreshRing(c) ==
  LET o == <<"det", c>> IN view[o].have => ring[o].age <= view[o].age
FreshScreen(c) ==
  LET o == <<"det", c>> IN
  screen[c].circles # Expired => view[o].have /\ view[o].age <= screen[c].circles
FreshOK == \A c \in Cameras : FreshRing(c) /\ FreshScreen(c)

LEMMA FreshInit == Init => FreshOK
BY DEF Init, FreshOK, FreshRing, FreshScreen, Closed, Streams, Kinds

LEMMA DetStreams == \A c \in Cameras : <<"det", c>> \in Streams
BY DEF Streams, Kinds

LEMMA OlderMonotone ==
  ASSUME NEW a \in Ages, NEW b \in Ages
  PROVE  /\ a <= b => Older(a) <= Older(b)
         /\ Older(a) # Expired => a # Expired
         /\ a <= Expired
BY DEF Older, Ages, Expired

(* An attempt to open a ring reads nothing of it.                          *)
LEMMA TriedReadsNothing ==
  ASSUME TypeOK, NEW s \in Streams
  PROVE  Tried(s).have = view[s].have /\ Tried(s).age = view[s].age
BY DEF Tried, TypeOK, ViewType

(* A poll takes the age of the ring or none.                               *)
LEMMA PolledAge ==
  ASSUME TypeOK, NEW s \in Streams
  PROVE  \/ Polled(s).have = view[s].have /\ Polled(s).age = view[s].age
         \/ Polled(s).have = TRUE /\ Polled(s).age = ring[s].age
<1>1. CASE ~Exists(s) \/ ~News(s)  BY <1>1, TriedReadsNothing DEF Polled
<1>2. CASE Exists(s) /\ News(s)
  <2> DEFINE v == Tried(s)
             t == Tile(s, v, ring[s].newest)
             yes == TRUE
  <2>1. v \in ViewType  BY TriedType
  <2>2. Polled(s) = [v EXCEPT !.have = yes, !.idx = ring[s].newest.idx, !.tile = t,
                              !.age = ring[s].age]
    BY <1>2 DEF Polled
  <2> HIDE DEF v, t, yes
  <2>3. Polled(s).have = yes /\ Polled(s).age = ring[s].age  BY <2>1, <2>2 DEF ViewType
  <2> QED  BY <2>3 DEF yes
<1> QED  BY <1>1, <1>2

LEMMA FreshRingStep ==
  ASSUME TypeOK, NEW c \in Cameras, FreshRing(c), [Next]_vars
  PROVE  FreshRing(c)'
<1> DEFINE o == <<"det", c>>
<1>1. o \in Streams  BY DetStreams
<1>2. /\ view[o] \in ViewType /\ ring[o] \in RingType
      /\ view[o].age \in Ages /\ ring[o].age \in Ages
  BY <1>1 DEF TypeOK, ViewType, RingType
<1>3. view[o].have => ring[o].age <= view[o].age  BY DEF FreshRing
<1>a. FreshRing(c)' <=> (view'[o].have => ring'[o].age <= view'[o].age)
  BY DEF FreshRing
<1>b. o[1] = "det"  OBVIOUS
<1> HIDE DEF o
<1>4. CASE Poll
  <2>1. view'[o] = Polled(o) /\ ring' = ring  BY <1>1, <1>4 DEF Poll, Main, outside
  <2>2. ring[o].age <= ring[o].age  BY <1>2 DEF Ages, Expired
  <2> QED  BY <2>1, <2>2, <1>a, <1>1, <1>3, PolledAge
<1>5. CASE Sleep
  <2>1. /\ view'[o] = [view[o] EXCEPT !.age = Older(view[o].age)]
        /\ ring'[o] = [ring[o] EXCEPT !.age = Older(ring[o].age)]
    BY <1>1, <1>5 DEF Sleep
  <2>2. /\ view'[o].have = view[o].have /\ view'[o].age = Older(view[o].age)
        /\ ring'[o].age = Older(ring[o].age)
    BY <2>1, <1>2 DEF ViewType, RingType
  <2> QED  BY <2>2, <1>a, <1>2, <1>3, OlderMonotone
<1>6. ASSUME NEW s \in Streams, Create(s) \/ Publish(s) PROVE FreshRing(c)'
  <2>1. view' = view  BY <1>6 DEF Create, Publish, Inside
  <2>2. CASE s # o
    <3>1. ring'[o] = ring[o]  BY <1>6, <2>2, <1>1 DEF Create, Publish, TypeOK
    <3> QED  BY <3>1, <2>1, <1>a, <1>3
  <2>3. CASE s = o
    <3>1. ring'[o].age = Age0(o)  BY <1>6, <2>3, <1>1 DEF Create, Publish, TypeOK
    <3>2. Age0(o) = 0  BY <1>b DEF Age0
    <3> QED  BY <3>1, <3>2, <2>1, <1>a, <1>2 DEF Ages, Expired
  <2> QED  BY <2>2, <2>3
<1>7. CASE UNCHANGED view /\ UNCHANGED ring  BY <1>7, <1>a, <1>3
<1>8. Poll => UNCHANGED ring  BY DEF Poll, Main, outside
<1> QED  BY <1>4, <1>5, <1>6, <1>7, WhoChanges

(* What a drawing step makes of the circles of a camera.                   *)
LEMMA CirclesDrawn ==
  ASSUME TypeOK, NEW c \in Cameras, [Next]_vars, ~Sleep
  PROVE  \/ screen'[c].circles \in {screen[c].circles, Expired}
         \/ LET o == <<"det", c>> IN
            /\ Valid(o) /\ view[o].age <= FreshFor
            /\ screen'[c].circles = view[o].age
<1>1. screen[c] \in ScreenType /\ \A d \in Cameras : screen[d] \in ScreenType  BY DEF TypeOK
<1>2. ASSUME NEW d \in Cameras, PlaceRect(d) \/ TakeSlot(d) \/ PlaceChroma(d)
      PROVE  screen'[c].circles \in {screen[c].circles, Expired}
  <2>1. CASE d # c  BY <1>2, <2>1 DEF PlaceRect, TakeSlot, PlaceChroma, TypeOK
  <2>2. CASE d = c /\ PlaceRect(d)
    <3>1. screen'[c].circles = Expired  BY <2>2, <1>1 DEF PlaceRect, TypeOK, ScreenType
    <3> QED  BY <3>1
  <2>3. CASE d = c /\ TakeSlot(d)
    BY <2>3, <1>1 DEF TakeSlot, TypeOK, ScreenType
  <2>4. CASE d = c /\ PlaceChroma(d)
    BY <2>4, <1>1 DEF PlaceChroma, TypeOK, ScreenType
  <2> QED  BY <1>2, <2>1, <2>2, <2>3, <2>4
<1>3. CASE Overlays
  <2> DEFINE o == <<"det", c>>
             p == IF Valid(<<"depth", c>>) THEN view[<<"depth", c>>].tile ELSE screen[c].depth
             a == IF Valid(o) /\ view[o].age <= FreshFor
                  THEN view[o].age ELSE screen[c].circles
  <2>1. screen'[c] = [screen[c] EXCEPT !.depth = p, !.circles = a]
    BY <1>3, <1>1 DEF Overlays, Overlaid, ScreenType
  <2> HIDE DEF p, a
  <2>2. screen'[c].circles = a  BY <2>1, <1>1 DEF ScreenType
  <2> QED  BY <2>2 DEF a
<1> QED  BY <1>2, <1>3, WhoChanges

LEMMA FreshScreenStep ==
  ASSUME TypeOK, NEW c \in Cameras, FreshRing(c), FreshScreen(c), [Next]_vars
  PROVE  FreshScreen(c)'
<1> DEFINE o == <<"det", c>>
<1>1. o \in Streams  BY DetStreams
<1>2. /\ view[o] \in ViewType /\ ring[o] \in RingType /\ screen[c] \in ScreenType
      /\ view[o].age \in Ages /\ ring[o].age \in Ages /\ screen[c].circles \in Ages
  BY <1>1 DEF TypeOK, ViewType, RingType, ScreenType
<1>3. screen[c].circles # Expired => view[o].have /\ view[o].age <= screen[c].circles
  BY DEF FreshScreen
<1>4. view[o].have => ring[o].age <= view[o].age  BY DEF FreshRing
<1>a. FreshScreen(c)' <=>
        (screen'[c].circles # Expired =>
           view'[o].have /\ view'[o].age <= screen'[c].circles)
  BY DEF FreshScreen, Expired
<1>5. CASE Sleep
  <2>1. /\ view'[o] = [view[o] EXCEPT !.age = Older(view[o].age)]
        /\ screen'[c] = [screen[c] EXCEPT !.circles = Older(screen[c].circles)]
    BY <1>1, <1>5 DEF Sleep
  <2>2. /\ view'[o].have = view[o].have /\ view'[o].age = Older(view[o].age)
        /\ screen'[c].circles = Older(screen[c].circles)
    BY <2>1, <1>2 DEF ViewType, ScreenType
  <2> QED  BY <2>2, <1>a, <1>2, <1>3, OlderMonotone
<1>6. CASE Poll
  <2>1. view'[o] = Polled(o) /\ screen' = screen  BY <1>1, <1>6 DEF Poll
  <2>2. CASE screen[c].circles # Expired
    <3>1. view[o].have /\ view[o].age <= screen[c].circles /\ ring[o].age <= view[o].age
      BY <2>2, <1>3, <1>4
    <3>2. ring[o].age <= screen[c].circles  BY <3>1, <1>2 DEF Ages, Expired
    <3> QED  BY <3>1, <3>2, <2>1, <1>a, <1>1, PolledAge
  <2>3. CASE screen[c].circles = Expired  BY <2>3, <2>1, <1>a
  <2> QED  BY <2>2, <2>3
<1>7. CASE ~Sleep /\ UNCHANGED view
  <2>1. CASE screen'[c].circles \in {screen[c].circles, Expired}
    BY <2>1, <1>7, <1>a, <1>3
  <2>2. CASE Valid(o) /\ screen'[c].circles = view[o].age
    <3>1. view[o].age <= view[o].age  BY <1>2 DEF Ages, Expired
    <3> QED  BY <2>2, <3>1, <1>7, <1>a DEF Valid
  <2> QED  BY <1>7, <2>1, <2>2, CirclesDrawn
<1> QED  BY <1>5, <1>6, <1>7, WhoChanges

LEMMA FreshStep == ASSUME TypeOK, FreshOK, [Next]_vars PROVE FreshOK'
BY FreshRingStep, FreshScreenStep DEF FreshOK

-----------------------------------------------------------------------------
(* The types, the lives of the cameras and the pictures, together.         *)
THEOREM Invariance == Spec => []Inv
<1>1. Init => Inv  BY TypeInit, LifeInit, PanelInit DEF Inv
<1>2. Inv /\ [Next]_vars => Inv'  BY TypeStep, LifeStep, PanelStep DEF Inv
<1> QED  BY <1>1, <1>2, PTL DEF Spec

(* main.cpp:114-117 and :276-281: no callback without its ring and its     *)
(* slot, and no camera is left running, on any way out of main().          *)
THEOREM CallbacksSafe == Spec => []CallbackSafe
<1>1. Inv => CallbackSafe
  BY DEF Inv, LifeOK, CallbackSafe, NotYetA, NotYetB, GoneA, GoneB, Cameras
<1> QED  BY Invariance, <1>1, PTL

(* frameslot.h:16-18: no panel mixes two frames.                           *)
THEOREM PanelsWhole == Spec => []PanelWhole
<1>1. Inv => PanelWhole
  BY ChromaNames DEF Inv, PanelOK, FrameOK, PanelWhole
<1> QED  BY Invariance, <1>1, PTL

(* detview.h:33-36: a pass draws no circle of a detection published more   *)
(* than FreshFor ago.  Circles of an earlier pass, whose pixels stay until *)
(* the panel under them is painted again, are not in it.                   *)
THEOREM Circles == Spec => CirclesFresh
<1> DEFINE Fresh == \A c \in Cameras :
      LET o == <<"det", c>> IN
      screen'[c].circles # Expired /\ Valid(o) /\ view[o].tile.y = ring[o].newest
        => ring[o].age <= FreshFor
<1>1. ASSUME TypeOK, FreshOK, FreshOK', [Next]_vars, pc = "overlays",
             NEW c \in Cameras, screen'[c].circles # Expired, Valid(<<"det", c>>)
      PROVE  ring[<<"det", c>>].age <= FreshFor
  <2> DEFINE o == <<"det", c>>
  <2>0. screen[c] \in ScreenType /\ view[o] \in ViewType /\ ring[o] \in RingType
    BY <1>1, DetStreams DEF TypeOK
  <2>1. screen[c].circles \in Ages /\ view[o].age \in Ages /\ ring[o].age \in Ages
    BY <2>0 DEF ScreenType, ViewType, RingType
  <2>2. view[o].have /\ ring[o].age <= view[o].age
    BY <1>1 DEF Valid, FreshOK, FreshRing
  <2>3. ~Sleep  BY <1>1 DEF Sleep
  <2>4. CASE screen'[c].circles = screen[c].circles
    <3>1. view[o].age <= screen[c].circles /\ screen[c].circles # Expired
      BY <2>4, <1>1 DEF FreshOK, FreshScreen
    <3> QED  BY <3>1, <2>1, <2>2 DEF Ages, Expired
  <2>5. CASE view[o].age <= FreshFor  BY <2>5, <2>1, <2>2 DEF Ages, Expired
  <2> QED  BY <1>1, <2>3, <2>4, <2>5, CirclesDrawn
<1>2. TypeOK /\ FreshOK /\ FreshOK' /\ [Next]_vars => [pc = "overlays" => Fresh]_vars
  BY <1>1
<1>3. Spec => [](TypeOK /\ FreshOK)
  <2>1. Init => TypeOK /\ FreshOK  BY TypeInit, FreshInit
  <2>2. TypeOK /\ FreshOK /\ [Next]_vars => (TypeOK /\ FreshOK)'  BY TypeStep, FreshStep
  <2> QED  BY <2>1, <2>2, PTL DEF Spec
<1> QED  BY <1>2, <1>3, PTL DEF Spec, CirclesFresh
===============================================================================
