------------------------------ MODULE Viewfinder ------------------------------
(***************************************************************************)
(* bathat (src/main.cpp): it starts the cameras, whose callbacks publish   *)
(* each frame to a ring and copy it into a FrameSlot, and shows on one     *)
(* window the rectified or the raw frames, the depth maps and the circles  *)
(* of up to two cameras.                                                   *)
(*                                                                         *)
(* The threads are main() and one callback thread per camera.  A ring is   *)
(* the register of its newest frame (FrameRegister); the workers' rings    *)
(* change between two passes of the loop, where a change has the same      *)
(* effect as anywhere between two polls.  Time is counted in passes.       *)
(***************************************************************************)
EXTENDS Integers, FiniteSets

CONSTANTS
  Options,     (* command lines and surroundings: [display, depth], the    *)
               (* number of cameras, the streams that have a worker        *)
  LeftOver,    (* the streams whose ring an earlier run may have left      *)
  MaxIdx,      (* bound on the index of a worker's frame                   *)
  MaxRaw,      (* per camera: bound on its frames                          *)
  MaxFaults,   (* bound on failing calls of camera and screen              *)
  OpenRetry,   (* passes between two attempts to open a ring: 1 s          *)
  FreshFor     (* passes for which a detection is drawn: 2 s               *)

ASSUME BoundsAssumption ==
  MaxIdx \in Nat /\ MaxFaults \in Nat /\ OpenRetry \in Nat /\ FreshFor \in Nat

VARIABLES
  opts, pc,
  ringUp,      (* per camera: the ring is mapped; ring_a_ok                *)
  handle,      (* per camera: "none", "open", "streaming" (handle_,        *)
               (* streaming_)                                              *)
  delivering,  (* per camera: the framework makes callbacks                *)
  cb,          (* per camera: where the callback is                        *)
  raw,         (* per camera: frames delivered so far                      *)
  slot,        (* per camera: the FrameSlot                                *)
  haveB, window,
  view,        (* per stream: RectView, DepthView, DetView                 *)
  changed,
  screen,      (* per tile: what is in the window's buffer; of circles only *)
               (* the age for as long as they are fresh: their pixels stay *)
               (* until the panel is painted again                         *)
  ring,        (* per stream: the worker's ring                            *)
  quit, faults

vars == <<opts, pc, ringUp, handle, delivering, cb, raw, slot, haveB, window,
          view, changed, screen, ring, quit, faults>>
camera   == <<handle, delivering>>
callback == <<cb, raw, slot>>
outside  == <<ring, quit>>

Cameras == {"A", "B"}
Kinds   == {"rect", "depth", "det"}
Streams == Kinds \X Cameras
Expired == FreshFor + 1
(* Only of detections is the time of publication looked at.                *)
Age0(s) == IF s[1] = "det" THEN 0 ELSE Expired

(* A frame is named for the run of the pipeline that made it and its index *)
(* in that run; a picture is where its Y and its UV plane come from.       *)
NoFrame == [run |-> 0, idx |-> 0, finite |-> TRUE]
Black   == [from |-> "none", y |-> NoFrame, uv |-> NoFrame]
Raw(n)  == [run |-> 1, idx |-> n, finite |-> TRUE]
Whole(from, f) == [from |-> from, y |-> f, uv |-> f]

NoRing   == [up |-> FALSE, newest |-> NoFrame, age |-> Expired]
OldRing  == [up |-> TRUE, newest |-> [run |-> 0, idx |-> MaxIdx, finite |-> TRUE],
             age |-> Expired]
Closed   == [open |-> FALSE, wait |-> 0, have |-> FALSE, idx |-> 0,
             tile |-> Black, age |-> Expired]
NewSlot  == [holder |-> "nobody", alive |-> TRUE, valid |-> FALSE,
             y |-> NoFrame, uv |-> NoFrame]

Init ==
  /\ opts \in Options /\ pc = "rings"
  /\ ringUp = [c \in Cameras |-> FALSE]
  /\ handle = [c \in Cameras |-> "none"]
  /\ delivering = [c \in Cameras |-> FALSE]
  /\ cb = [c \in Cameras |-> "idle"] /\ raw = [c \in Cameras |-> 0]
  /\ slot = [c \in Cameras |-> NewSlot]
  /\ haveB = FALSE /\ window = "none"
  /\ view = [s \in Streams |-> Closed] /\ changed = FALSE
  /\ screen = [c \in Cameras |-> [panel |-> Black, depth |-> Black, circles |-> Expired]]
  /\ \E old \in SUBSET LeftOver :
       ring = [s \in Streams |-> IF s \in old \cap opts.workers THEN OldRing ELSE NoRing]
  /\ quit = FALSE /\ faults = 0

Fails == faults < MaxFaults /\ faults' = faults + 1

-----------------------------------------------------------------------------
(* The sinks: what a callback of camera c does with a frame.               *)
ToRing(c) == ringUp[c]
ToSlot(c) == opts.display

CreateRings ==
  /\ pc = "rings" /\ pc' = "startA"
  /\ \/ /\ ringUp' = [c \in Cameras |-> c = "A" \/ opts.cameras = 2]
        /\ UNCHANGED faults
     \/ \E c \in Cameras : /\ Fails
          /\ ringUp' = [d \in Cameras |-> d # c /\ (d = "A" \/ opts.cameras = 2)]
  /\ UNCHANGED <<opts, camera, callback, haveB, window, view, changed, screen, outside>>

(* CameraStream::start.  Callbacks may come from here on, before the       *)
(* exposure is configured and streaming_ is set.                           *)
StartStream(c) ==
  /\ pc = (IF c = "A" THEN "startA" ELSE "startB")
  /\ (c = "B" => opts.cameras = 2)
  /\ handle' = [handle EXCEPT ![c] = "open"]
  /\ delivering' = [delivering EXCEPT ![c] = TRUE]
  /\ pc' = IF c = "A" THEN "tuneA" ELSE "tuneB"
  /\ UNCHANGED <<opts, ringUp, callback, haveB, window, view, changed, screen,
                 outside, faults>>

(* camera_open, set_vf_property or start_viewfinder fails; the handle is   *)
(* closed again.  Without camera A main() returns, without B it goes on.   *)
StartFailsOn(c) ==
  /\ pc = (IF c = "A" THEN "startA" ELSE "startB")
  /\ \/ opts.cameras = 2 /\ Fails
     \/ c = "A" /\ Fails
     \/ c = "B" /\ opts.cameras = 1 /\ UNCHANGED faults
  /\ pc' = IF c = "A" THEN "unwindB" ELSE "display"
  /\ UNCHANGED <<opts, ringUp, camera, callback, haveB, window, view, changed,
                 screen, outside>>

(* configure_3a, whatever of it succeeds, and streaming_ = true.           *)
Tune(c) ==
  /\ pc = (IF c = "A" THEN "tuneA" ELSE "tuneB")
  /\ handle' = [handle EXCEPT ![c] = "streaming"]
  /\ haveB' = (c = "B")
  /\ pc' = IF c = "A" THEN "startB" ELSE "display"
  /\ UNCHANGED <<opts, ringUp, delivering, callback, window, view, changed,
                 screen, outside, faults>>

(* Display::init; where it fails the window, or the context, is kept.      *)
OpenDisplay ==
  /\ pc = "display" /\ pc' = "poll"
  /\ window' = IF opts.display THEN "up" ELSE "none"
  /\ UNCHANGED <<opts, ringUp, camera, callback, haveB, view, changed, screen,
                 outside, faults>>

NoDisplay ==
  /\ pc = "display" /\ opts.display /\ Fails
  /\ window' \in {"none", "broken"} /\ pc' = "unwindB"
  /\ UNCHANGED <<opts, ringUp, camera, callback, haveB, view, changed, screen, outside>>

-----------------------------------------------------------------------------
(* The callback of camera c.                                               *)
Rest == <<opts, pc, ringUp, camera, haveB, window, view, changed, screen, outside, faults>>

Arrive(c) ==
  /\ delivering[c] /\ cb[c] = "idle" /\ raw[c] < MaxRaw[c]
  /\ raw' = [raw EXCEPT ![c] = @ + 1]
  /\ cb' = [cb EXCEPT ![c] = IF ToRing(c) THEN "ring" ELSE IF ToSlot(c) THEN "lock" ELSE "idle"]
  /\ UNCHANGED <<slot, Rest>>

(* publish_nv12, a ring writer of BatRing.                                 *)
PublishRaw(c) ==
  /\ cb[c] = "ring"
  /\ cb' = [cb EXCEPT ![c] = IF ToSlot(c) THEN "lock" ELSE "idle"]
  /\ UNCHANGED <<raw, slot, Rest>>

(* FrameSlot::write.  Mutant: without the mutex.                           *)
LockSlotNot(c) ==
  /\ cb[c] = "lock"
  /\ slot' = [slot EXCEPT ![c].y = Raw(raw[c])]
  /\ cb' = [cb EXCEPT ![c] = "copy"]
  /\ UNCHANGED <<raw, Rest>>

LockSlot(c) ==
  /\ cb[c] = "lock" /\ slot[c].holder = "nobody"
  /\ slot' = [slot EXCEPT ![c].holder = "callback", ![c].y = Raw(raw[c])]
  /\ cb' = [cb EXCEPT ![c] = "copy"]
  /\ UNCHANGED <<raw, Rest>>

CopyChroma(c) ==
  /\ cb[c] = "copy"
  /\ slot' = [slot EXCEPT ![c].holder = IF @ = "callback" THEN "nobody" ELSE @,
                          ![c].uv = Raw(raw[c]), ![c].valid = TRUE]
  /\ cb' = [cb EXCEPT ![c] = "idle"]
  /\ UNCHANGED <<raw, Rest>>

Callback(c) == PublishRaw(c) \/ LockSlot(c) \/ CopyChroma(c)

-----------------------------------------------------------------------------
(* The workers: a ring is created or emptied, and filled.                  *)
Inside == <<opts, pc, ringUp, camera, callback, haveB, window, view, changed,
            screen, quit, faults>>
Passing == pc = "poll"

Create(s) ==
  /\ Passing /\ s \in opts.workers
  /\ ring' = [ring EXCEPT ![s] = [up |-> TRUE, newest |-> NoFrame, age |-> Age0(s)]]
  /\ ring[s].newest.run = 0 /\ ring[s] # ring'[s]
  /\ UNCHANGED Inside

(* Indices grow within a run.  A depth map may hold a value that is not    *)
(* finite.                                                                 *)
Publish(s) ==
  /\ Passing /\ ring[s].up /\ s \in opts.workers
  /\ LET last == IF ring[s].newest.run = 1 THEN ring[s].newest.idx ELSE 0 IN
     /\ \/ ring[s].newest = NoFrame \/ ring[s].newest.run = 1
     /\ last < MaxIdx
     /\ \E finite \in BOOLEAN :
          /\ s[1] # "depth" => finite
          /\ ring' = [ring EXCEPT ![s] = [up |-> TRUE, age |-> Age0(s),
               newest |-> [run |-> 1, idx |-> last + 1, finite |-> finite]]]
  /\ UNCHANGED Inside

(* SIGINT, SIGTERM; the flag is looked at once per pass.                   *)
Signal ==
  /\ Passing /\ ~quit /\ quit' = TRUE
  /\ UNCHANGED <<opts, pc, ringUp, camera, callback, haveB, window, view, changed,
                 screen, ring, faults>>

-----------------------------------------------------------------------------
(* The views.  Which there are: none without a display, camera B's only    *)
(* when it streams, depth maps unless --no-depth.                          *)
Exists(s) == /\ opts.display
             /\ s[2] = "B" => haveB
             /\ s[1] = "depth" => opts.depth

(* try_open: one attempt per OpenRetry.                                    *)
Tried(s) ==
  LET v == view[s] IN
  IF v.open THEN v
  ELSE IF v.wait > 0 THEN [v EXCEPT !.wait = @ - 1]
  ELSE [v EXCEPT !.wait = OpenRetry, !.open = ring[s].up]

(* Mutant: only a larger index is a new frame.                             *)
IsNewerThan(v, f) == f # NoFrame /\ (~v.have \/ f.idx > v.idx)

IsNewTo(v, f) == f # NoFrame /\ (~v.have \/ f.idx # v.idx)

(* convert, colorize: what the tile shows of frame f; of a depth map that  *)
(* is not finite, nothing.                                                 *)
Tile(s, v, f) == IF f.finite THEN Whole(s[1], f) ELSE v.tile

News(s) == Exists(s) /\ Tried(s).open /\ IsNewTo(Tried(s), ring[s].newest)

(* Mutant: the age is that of the copy, not of the publication.            *)
PolledNow(s) ==
  LET v == Tried(s)
      f == ring[s].newest
  IN  IF ~Exists(s) THEN view[s]
      ELSE IF ~News(s) THEN v
      ELSE [v EXCEPT !.have = TRUE, !.idx = f.idx, !.tile = Tile(s, v, f), !.age = 0]

Polled(s) ==
  LET v == Tried(s)
      f == ring[s].newest
  IN  IF ~Exists(s) THEN view[s]
      ELSE IF ~News(s) THEN v
      ELSE [v EXCEPT !.have = TRUE, !.idx = f.idx, !.tile = Tile(s, v, f),
                     !.age = ring[s].age]

Valid(s) == Exists(s) /\ view[s].have
RawFallback == ~Valid(<<"rect", "A">>)

Main == <<opts, ringUp, camera, cb, raw, haveB, window, outside>>

(* Mutant: the flag is not a condition of the loop.                        *)
PollOn ==
  /\ pc = "poll"
  /\ view' = [s \in Streams |-> Polled(s)]
  /\ changed' = \E s \in Streams : News(s)
  /\ pc' = IF opts.display THEN "begin" ELSE "sleep"
  /\ UNCHANGED <<Main, slot, screen, faults>>

Poll ==
  /\ pc = "poll" /\ ~quit
  /\ view' = [s \in Streams |-> Polled(s)]
  /\ changed' = \E s \in Streams : News(s)
  /\ pc' = IF opts.display THEN "begin" ELSE "sleep"
  /\ UNCHANGED <<Main, slot, screen, faults>>

(* begin_frame is called only when there is something to draw.             *)
BeginFrame ==
  /\ pc = "begin" /\ (changed \/ RawFallback) /\ pc' = "panelA"
  /\ UNCHANGED <<Main, slot, view, changed, screen, faults>>

SkipFrame ==
  /\ pc = "begin" /\ pc' = "sleep"
  /\ \/ ~(changed \/ RawFallback) /\ UNCHANGED faults
     \/ (changed \/ RawFallback) /\ Fails
  /\ UNCHANGED <<Main, slot, view, changed, screen>>

(* The panel of camera c: the rectified tile, or the raw frame, copied     *)
(* plane by plane under the slot's mutex.                                  *)
PanelOf(c) == IF c = "A" THEN "panelA" ELSE "panelB"
AfterPanel(c) == IF c = "A" THEN "panelB" ELSE "overlays"
Needed(c) == c = "A" \/ haveB

PlaceRect(c) ==
  /\ pc = PanelOf(c) /\ Needed(c) /\ Valid(<<"rect", c>>)
  /\ screen' = [screen EXCEPT ![c].panel = view[<<"rect", c>>].tile,
                              ![c].circles = Expired]
  /\ pc' = AfterPanel(c)
  /\ UNCHANGED <<Main, slot, view, changed, faults>>

TakeSlot(c) ==
  /\ pc = PanelOf(c) /\ Needed(c) /\ ~Valid(<<"rect", c>>)
  /\ slot[c].holder = "nobody"
  /\ slot' = [slot EXCEPT ![c].holder = "main"]
  /\ screen' = IF slot[c].valid
               THEN [screen EXCEPT ![c].circles = Expired,
                       ![c].panel = [from |-> "raw", y |-> slot[c].y, uv |-> @.uv]]
               ELSE screen
  /\ pc' = IF c = "A" THEN "chromaA" ELSE "chromaB"
  /\ UNCHANGED <<Main, view, changed, faults>>

PlaceChroma(c) ==
  /\ pc = (IF c = "A" THEN "chromaA" ELSE "chromaB")
  /\ slot' = [slot EXCEPT ![c].holder = "nobody"]
  /\ screen' = IF slot[c].valid THEN [screen EXCEPT ![c].panel.uv = slot[c].uv] ELSE screen
  /\ pc' = AfterPanel(c)
  /\ UNCHANGED <<Main, view, changed, faults>>

NoPanel(c) ==
  /\ pc = PanelOf(c) /\ ~Needed(c) /\ pc' = AfterPanel(c)
  /\ UNCHANGED <<Main, slot, view, changed, screen, faults>>

(* The depth tiles, the circles that are still fresh, and end_frame.       *)
Overlaid(c) ==
  LET d == <<"depth", c>>
      o == <<"det", c>>
  IN  [screen[c] EXCEPT
         !.depth = IF Valid(d) THEN view[d].tile ELSE @,
         !.circles = IF Valid(o) /\ view[o].age <= FreshFor THEN view[o].age ELSE @]

Overlays ==
  /\ pc = "overlays" /\ pc' = "sleep"
  /\ screen' = [c \in Cameras |-> Overlaid(c)]
  /\ UNCHANGED <<Main, slot, view, changed, faults>>

(* usleep: what the rings hold, and what was read of them, grows older.    *)
Older(age) == IF age >= Expired THEN Expired ELSE age + 1

Sleep ==
  /\ pc = "sleep" /\ pc' = "poll" /\ changed' = FALSE
  /\ view' = [s \in Streams |-> [view[s] EXCEPT !.age = Older(@)]]
  /\ ring' = [s \in Streams |-> [ring[s] EXCEPT !.age = Older(@)]]
  /\ screen' = [c \in Cameras |-> [screen[c] EXCEPT !.circles = Older(@)]]
  /\ UNCHANGED <<opts, ringUp, camera, callback, haveB, window, quit, faults>>

-----------------------------------------------------------------------------
(* Mutant: the rings are closed before the cameras are stopped.            *)
LeaveClosing ==
  /\ pc = "poll" /\ quit /\ pc' = "stopA"
  /\ ringUp' = [c \in Cameras |-> FALSE]
  /\ UNCHANGED <<opts, camera, cb, raw, haveB, window, outside, slot, view,
                 changed, screen, faults>>

(* The loop ends.                                                          *)
Leave ==
  /\ pc = "poll" /\ quit /\ pc' = "stopA"
  /\ UNCHANGED <<Main, slot, view, changed, screen, faults>>

(* CameraStream::stop, called by main() and by the destructors.            *)
(* camera_stop_viewfinder returns when no callback is running.             *)
StopCamera(c) ==
  /\ pc \in (IF c = "A" THEN {"stopA", "unwindA"} ELSE {"stopB", "unwindB"})
  /\ handle[c] = "streaming" => cb[c] = "idle"
  /\ delivering' = [delivering EXCEPT ![c] = @ /\ handle[c] # "streaming"]
  /\ handle' = [handle EXCEPT ![c] = "none"]
  /\ pc' = CASE pc = "stopA" -> "stopB"     [] pc = "stopB" -> "shutdown"
             [] pc = "unwindB" -> "unwindA" [] pc = "unwindA" -> "destroy"
  /\ UNCHANGED <<opts, ringUp, callback, haveB, window, view, changed, screen,
                 outside, faults>>

(* disp.shutdown(), bat_ring_close() on both rings.                        *)
Shutdown ==
  /\ pc = "shutdown" /\ pc' = "destroy"
  /\ window' = "none" /\ ringUp' = [c \in Cameras |-> FALSE]
  /\ UNCHANGED <<opts, camera, callback, haveB, view, changed, screen, outside, faults>>

(* The destructors of the sinks and the slots; main() returns.             *)
Destroy ==
  /\ pc = "destroy" /\ pc' = "exited"
  /\ slot' = [c \in Cameras |-> [slot[c] EXCEPT !.alive = FALSE]]
  /\ UNCHANGED <<Main, view, changed, screen, faults>>

Exited == pc = "exited" /\ UNCHANGED vars

MainStep ==
  \/ CreateRings \/ OpenDisplay \/ NoDisplay
  \/ \E c \in Cameras :
       \/ StartStream(c) \/ StartFailsOn(c) \/ Tune(c) \/ StopCamera(c)
       \/ PlaceRect(c) \/ TakeSlot(c) \/ PlaceChroma(c) \/ NoPanel(c)
  \/ Poll \/ BeginFrame \/ SkipFrame \/ Overlays \/ Sleep
  \/ Leave \/ Shutdown \/ Destroy

Next ==
  \/ MainStep \/ Signal \/ Exited
  \/ \E c \in Cameras : Arrive(c) \/ Callback(c)
  \/ \E s \in Streams : Create(s) \/ Publish(s)

Spec == Init /\ [][Next]_vars
(* main() is scheduled, and a callback that was begun ends: main() holds a *)
(* slot's mutex for one copy of each 33 ms, so the callback gets it sooner *)
(* or later (SF).  Nothing makes cameras or workers deliver.               *)
FairSpec == Spec /\ WF_vars(MainStep) /\ \A c \in Cameras : SF_vars(Callback(c))
-----------------------------------------------------------------------------
Frames   == [run : Nat, idx : Nat, finite : BOOLEAN]
Pictures == [from : Kinds \cup {"none", "raw"}, y : Frames, uv : Frames]
Ages     == 0 .. Expired
Holders  == {"nobody", "callback", "main"}
Places   == {"rings", "startA", "tuneA", "startB", "tuneB", "display", "poll",
             "begin", "panelA", "chromaA", "panelB", "chromaB", "overlays", "sleep",
             "stopA", "stopB", "shutdown", "unwindB", "unwindA", "destroy", "exited"}

SlotType   == [holder : Holders, alive : BOOLEAN, valid : BOOLEAN, y : Frames, uv : Frames]
ScreenType == [panel : Pictures, depth : Pictures, circles : Ages]
ViewType   == [open : BOOLEAN, wait : 0 .. OpenRetry, have : BOOLEAN, idx : Nat,
               tile : Pictures, age : Ages]
RingType   == [up : BOOLEAN, newest : Frames, age : Ages]

TypeOK ==
  /\ pc \in Places /\ window \in {"none", "up", "broken"}
  /\ haveB \in BOOLEAN /\ changed \in BOOLEAN /\ quit \in BOOLEAN
  /\ ringUp \in [Cameras -> BOOLEAN] /\ delivering \in [Cameras -> BOOLEAN]
  /\ handle \in [Cameras -> {"none", "open", "streaming"}]
  /\ cb \in [Cameras -> {"idle", "ring", "lock", "copy"}] /\ raw \in [Cameras -> Nat]
  /\ slot \in [Cameras -> SlotType] /\ screen \in [Cameras -> ScreenType]
  /\ view \in [Streams -> ViewType] /\ ring \in [Streams -> RingType]

(* frameslot.h:16-18: the raw panel on the screen is one frame of its      *)
(* camera, never the luma of one and the chroma of the next, although the  *)
(* camera thread may deliver a frame while main() draws.                   *)
PanelWhole ==
  pc \in {"overlays", "sleep", "poll"} =>
    \A c \in Cameras : screen[c].panel.y = screen[c].panel.uv

(* main.cpp:114-117 and :276-281: a callback that runs finds its ring      *)
(* mapped and its slot alive, and every camera that was started is stopped *)
(* when main() returns, on every way out of it, also when a camera or the  *)
(* display failed to start after callbacks had begun.                      *)
CallbackSafe ==
  \A c \in Cameras :
    /\ cb[c] = "ring" => ringUp[c]
    /\ cb[c] # "idle" => slot[c].alive /\ delivering[c]
    /\ pc = "exited" => handle[c] = "none" /\ ~delivering[c]

(* Once no view delivers anything new, each panel shows the newest frame   *)
(* of its rectified stream (or one with the same index), and as long as    *)
(* there has been none, the newest raw one; the stream may have been left  *)
(* by an earlier run with higher indices.  (A frame for which the screen   *)
(* gave no buffer is not drawn again: faults.)                             *)
ShowsRect(c) ==
  LET s == <<"rect", c>> IN
  ring[s].newest # NoFrame =>
    /\ view[s].idx = ring[s].newest.idx
    /\ screen[c].panel = view[s].tile
ShowsRaw(c) ==
  slot[c].valid => screen[c].panel = Whole("raw", Raw(raw[c]))
Running == pc \notin {"stopA", "stopB", "shutdown", "unwindB", "unwindA", "destroy", "exited"}
NewestShown ==
  <>[](Running /\ opts.display /\ faults = 0 =>
         \A c \in {"A", "B"} : Needed(c) =>
           IF Valid(<<"rect", c>>) THEN ShowsRect(c)
           ELSE RawFallback => ShowsRaw(c))

(* detview.h:33-36: a pass draws circles only of detections published at   *)
(* most FreshFor ago, never of those of a worker that has stopped, however *)
(* late its ring was opened.  It says nothing of how long pixels of an     *)
(* earlier pass stay when nothing is drawn over them (main.cpp:196-198).   *)
CirclesFresh ==
  [][ pc = "overlays" => \A c \in Cameras :
        LET o == <<"det", c>> IN
        screen'[c].circles # Expired /\ Valid(o) /\ view[o].tile.y = ring[o].newest
          => ring[o].age <= FreshFor ]_vars

(* A signal ends the program: the loop, the stopping of the cameras and a  *)
(* callback that is waiting for a slot never wait for one another.         *)
ShutdownEnds == quit ~> pc = "exited"

(* main.cpp:41-42 and :161-163: the panel shows the rectified stream while *)
(* its worker runs, otherwise the raw frames.  So where no worker has      *)
(* published anything in this run of the pipeline, the panel comes to show *)
(* the newest frame of the camera.                                         *)
FallsBackToRaw ==
  <>[](Running /\ opts.display /\ faults = 0 /\ ring[<<"rect", "A">>].newest.run = 0
         => ShowsRaw("A"))
===============================================================================
