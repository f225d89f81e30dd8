------------------------------- MODULE Pipeline -------------------------------
(***************************************************************************)
(* The processes of the pipeline and the rings between them: the capture   *)
(* daemon, the undistort worker, the depth worker and the audio process,   *)
(* started by run.sh or by hand.                                           *)
(*                                                                         *)
(* A ring is an object of shared memory that outlives the processes: it is *)
(* absent, left over from an earlier session, blank (a writer is creating  *)
(* or re-initialising it, the magic is 0) or made.  It holds its newest    *)
(* frame and may hold one ahead of it, complete in its slot but not named  *)
(* by latest yet (or ever: the writer died there).  A frame is named for   *)
(* the run of the capture daemon that took it, 0 for an earlier session,   *)
(* and its frame_idx.  Each read is a step, and so are the two stores of a *)
(* write, the zeroing and the filling of a ring; processes may be killed   *)
(* between any two.  What a reader may be given, in the middle of a write  *)
(* and across a re-initialisation, is what the ring modules show of it.    *)
(***************************************************************************)
EXTENDS Integers, Sequences, FiniteSets

CONSTANTS
  Setups,      (* how the pipeline is started: [byHand, cameras, old: the  *)
               (* rings that are there already, maxIdx: None if the cameras *)
               (* deliver nothing, maxStarts]                              *)
  MaxTries,    (* run.sh: looks at /dev/shmem before it gives up: 30       *)
  MaxKills     (* bound on the processes that are killed or fail           *)

VARIABLES
  setup,
  ring,        (* per ring: [st, newest, ahead]                            *)
  at,          (* per stage: where the process is                          *)
  k,           (* per stage: index of the ring it opens, creates, writes   *)
  cams,        (* per worker: the number of its readers                    *)
  turn,        (* per worker: the camera whose turn it is                  *)
  last,        (* per worker and camera: last_idx                          *)
  hand,        (* per worker: the frame that was read (meta)               *)
  due,         (* per camera: next_due of the undistort worker has come    *)
  starts,      (* per stage: how often it was started                      *)
  pending,     (* stages that were sent a signal to end                    *)
  script,      (* where run.sh is, and at which stage                      *)
  tries, pids, kills

vars == <<setup, ring, at, k, cams, turn, last, hand, due, starts, pending,
          script, tries, pids, kills>>

Stages  == 1 .. 4
capture == 1
undistort == 2
depth == 3
audio == 4
Workers == {undistort, depth}
Cameras == 1 .. 2
Rings   == {"cam", "rect", "depth", "det"} \X Cameras

None == -1

ASSUME SetupsAssumption ==
  \A s \in Setups : s.cameras \in Cameras /\ s.old \subseteq Rings /\ s.maxIdx \in Nat \cup {None}

NoFrame == [run |-> 0, idx |-> None]
Absent  == [st |-> "none", newest |-> NoFrame, ahead |-> NoFrame]
Old     == [st |-> "old", newest |-> [run |-> 0, idx |-> setup.maxIdx], ahead |-> NoFrame]
Exists(r) == ring[r].st # "none"
(* RingReader.header() finds the magic, the version and the slot number.   *)
Header(r) == ring[r].st \in {"old", "made"}
Alive(s)  == at[s] \notin {"off", "dead"}

Init ==
  /\ setup \in Setups
  /\ ring = [r \in Rings |-> IF r \in setup.old THEN Old ELSE Absent]
  /\ at = [s \in Stages |-> "off"] /\ k = [s \in Stages |-> 1]
  /\ cams = [w \in Workers |-> 1] /\ turn = [w \in Workers |-> 1]
  /\ last = [w \in Workers |-> [c \in Cameras |-> None]]
  /\ hand = [w \in Workers |-> NoFrame] /\ due = [c \in Cameras |-> TRUE]
  /\ starts = [s \in Stages |-> 0] /\ pending = {}
  /\ script = IF setup.byHand THEN <<"none", 1>> ELSE <<"start", 1>>
  /\ tries = 0 /\ pids = {} /\ kills = 0

launcher == <<script, tries, pids>>
worker   == <<cams, turn, last, hand, due>>

-----------------------------------------------------------------------------
(* Starting and ending.  A process that ends leaves its rings behind, and  *)
(* nothing of its own.                                                     *)
First(s) == CASE s = capture -> "zero" [] s \in Workers -> "wait" [] s = audio -> "run"

Launch(s) ==
  /\ at' = [at EXCEPT ![s] = First(s)]
  /\ starts' = [starts EXCEPT ![s] = @ + 1]

Clean(s) ==
  /\ at' = [at EXCEPT ![s] = "dead"] /\ k' = [k EXCEPT ![s] = 1]
  /\ pending' = pending \ {s}
  /\ IF s \in Workers
     THEN /\ cams' = [cams EXCEPT ![s] = 1] /\ turn' = [turn EXCEPT ![s] = 1]
          /\ last' = [last EXCEPT ![s] = [c \in Cameras |-> None]]
          /\ hand' = [hand EXCEPT ![s] = NoFrame]
          /\ due' = IF s = undistort THEN [c \in Cameras |-> TRUE] ELSE due
     ELSE UNCHANGED worker

Dies(s) == Clean(s) /\ UNCHANGED <<setup, ring, starts, launcher>>

(* A crash, kill -9, or a camera that does not start.                      *)
Kill(s) == Alive(s) /\ kills < MaxKills /\ kills' = kills + 1 /\ Dies(s)

(* A signal reaches a process that does not ignore it.                     *)
Ends(s) == Alive(s) /\ s \in pending /\ Dies(s) /\ UNCHANGED kills

StartByHand(s) ==
  /\ setup.byHand /\ ~Alive(s) /\ starts[s] < setup.maxStarts[s] /\ Launch(s)
  /\ UNCHANGED <<setup, ring, k, worker, pending, launcher, kills>>

-----------------------------------------------------------------------------
(* Creating rings: bat_ring_create, RingWriter.__init__.                   *)
Makes(s) ==
  CASE s = capture   -> [i \in 1 .. setup.cameras |-> <<"cam", i>>]
    [] s = undistort -> [i \in 1 .. cams[s] |-> <<"rect", i>>]
    [] s = depth     -> [i \in 1 .. 2 * cams[s] |->
                          IF i <= cams[s] THEN <<"depth", i>> ELSE <<"det", i - cams[s]>>]
    [] OTHER         -> << >>
Input(w, c) == IF w = undistort THEN <<"cam", c>> ELSE <<"rect", c>>

Still == <<setup, starts, launcher, kills, pending>>

(* The undistort worker asks for the header of its input once more.  The   *)
(* header goes first, and the slots are cleared by the time it is filled.  *)
Zero(s) ==
  /\ at[s] = "zero" /\ (s = undistort => Header(Input(s, k[s])))
  /\ ring' = [ring EXCEPT ![Makes(s)[k[s]]].st = "blank"]
  /\ at' = [at EXCEPT ![s] = "fill"]
  /\ UNCHANGED <<Still, k, worker>>

Fill(s) ==
  /\ at[s] = "fill"
  /\ ring' = [ring EXCEPT ![Makes(s)[k[s]]] = [Absent EXCEPT !.st = "made"]]
  /\ IF k[s] < Len(Makes(s))
     THEN k' = [k EXCEPT ![s] = @ + 1] /\ at' = [at EXCEPT ![s] = "zero"]
     ELSE k' = [k EXCEPT ![s] = 1]     /\ at' = [at EXCEPT ![s] = "run"]
  /\ UNCHANGED <<Still, worker>>

(* bat_ring_write, Python's write: the slot is complete, then latest names *)
(* it.                                                                     *)
Placed(r, f) == [ring EXCEPT ![r].ahead = f]
Published(r) == [ring EXCEPT ![r] = [st |-> @.st, newest |-> @.ahead, ahead |-> NoFrame]]

(* A frame of camera c: the writer's count is its frame_idx.               *)
Capture(c) ==
  LET r == <<"cam", c>> IN
  /\ at[capture] = "run" /\ c <= setup.cameras
  /\ ring[r].ahead = NoFrame /\ ring[r].newest.idx < setup.maxIdx
  /\ ring' = Placed(r, [run |-> starts[capture], idx |-> ring[r].newest.idx + 1])
  /\ UNCHANGED <<Still, at, k, worker>>

PublishFrame(c) ==
  LET r == <<"cam", c>> IN
  /\ at[capture] = "run" /\ c <= setup.cameras /\ ring[r].ahead # NoFrame
  /\ ring' = Published(r)
  /\ UNCHANGED <<Still, at, k, worker>>

-----------------------------------------------------------------------------
(* The workers' start: wait_for_rings for the first camera, one look for   *)
(* the second; then the readers, none of it inside the try.                *)
Resolve(w) ==
  /\ at[w] = "wait" /\ Exists(Input(w, 1))
  /\ cams' = [cams EXCEPT ![w] = IF Exists(Input(w, 2)) THEN 2 ELSE 1]
  /\ at' = [at EXCEPT ![w] = "open"]
  /\ UNCHANGED <<Still, ring, k, turn, last, hand, due>>

TimesOut(w) ==
  /\ at[w] = "wait" /\ ~Exists(Input(w, 1))
  /\ Dies(w) /\ UNCHANGED kills

OpenReader(w) ==
  /\ at[w] = "open" /\ Header(Input(w, k[w]))
  /\ IF k[w] < cams[w]
     THEN k' = [k EXCEPT ![w] = @ + 1] /\ UNCHANGED at
     ELSE k' = [k EXCEPT ![w] = 1]     /\ at' = [at EXCEPT ![w] = "zero"]
  /\ UNCHANGED <<Still, ring, worker>>

(* ValueError: the ring is being (re-)initialised.                         *)
Raises(w) ==
  /\ \/ at[w] = "open"
     \/ at[w] = "zero" /\ w = undistort
  /\ ~Header(Input(w, k[w]))
  /\ Dies(w) /\ UNCHANGED kills

-----------------------------------------------------------------------------
(* The loop over the cameras.                                              *)
NextTurn(w) == turn' = [turn EXCEPT ![w] = (@ % cams[w]) + 1]

MayLook(w) == at[w] = "run" /\ (w = undistort => due[turn[w]])

(* Mutant: only a larger index is new.                                     *)
NewerThanLast(w, f) == f # NoFrame /\ f.idx > last[w][turn[w]]

NewToWorker(w, f) == f # NoFrame /\ f.idx # last[w][turn[w]]

(* read_latest gives f.                                                    *)
Takes(w, f) ==
  /\ MayLook(w) /\ NewToWorker(w, f)
  /\ hand' = [hand EXCEPT ![w] = f]
  /\ last' = [last EXCEPT ![w][turn[w]] = f.idx]
  /\ due' = IF w = undistort THEN [due EXCEPT ![turn[w]] = FALSE] ELSE due
  /\ at' = [at EXCEPT ![w] = "check"]
  /\ UNCHANGED <<Still, ring, k, cams, turn>>

Reading(w) == ring[Input(w, turn[w])]

ReadFrame(w) ==
  /\ Header(Input(w, turn[w]))
  /\ Takes(w, Reading(w).newest)

(* A call the writer laps finds a later frame in the slot it was sent to,  *)
(* the one that is not named yet at the latest; of a Python ring perhaps   *)
(* with the cleared frame_idx, as the stamps go in behind the counter.     *)
PassedOn(w) ==
  LET f == Reading(w).ahead IN
  IF w = depth THEN {f, [f EXCEPT !.idx = 0]} ELSE {f}

Lapped(w) ==
  /\ MayLook(w) /\ Header(Input(w, turn[w]))
  /\ Reading(w).newest # NoFrame /\ Reading(w).ahead # NoFrame

ReadLapped(w) == Lapped(w) /\ \E f \in PassedOn(w) : Takes(w, f)

(* A call that a re-initialisation overtakes between two of its loads may  *)
(* be sent to slot 0 by the cleared header and find there, or in the slot  *)
(* that latest named, a frame that is not cleared yet.                     *)
Overtaken(w) == MayLook(w) /\ Reading(w).st = "blank"

(* A frame of an earlier write that may still be in a slot.                *)
LeftBehind(w) ==
  LET new == Reading(w).newest IN
  {f \in [run : 0 .. new.run, idx : 0 .. setup.maxIdx] :
     new # NoFrame /\ (f.run = new.run => f.idx <= new.idx + 1)}

(* Mutant: without a re-initialisation too.                                *)
ReadOvertakenAlways(w) == \E f \in LeftBehind(w) : Takes(w, f)

ReadOvertaken(w) == Overtaken(w) /\ \E f \in LeftBehind(w) : Takes(w, f)

(* Python's write clears latest before it stores it: for that moment it is *)
(* slot 0, with the frame that is being published or one from before.      *)
Cleared(w) ==
  /\ w = depth /\ MayLook(w) /\ Header(Input(w, turn[w]))
  /\ Reading(w).ahead # NoFrame

ReadCleared(w) ==
  Cleared(w) /\ \E f \in {Reading(w).ahead} \cup LeftBehind(w) : Takes(w, f)

(* Or it finds the slot cleared: an empty frame of index 0, on which       *)
(* reshape raises ValueError, if header() has not before.                  *)
EmptyFrame(w) ==
  /\ Overtaken(w) \/ (w = depth /\ Lapped(w))
  /\ last[w][turn[w]] # 0
  /\ Dies(w) /\ UNCHANGED kills

(* It gives none, for none is new or every attempt raced the writer, or it *)
(* is not time yet; the next camera.                                       *)
NothingNew(w) ==
  /\ at[w] = "run"
  /\ MayLook(w) =>
       \/ ~Header(Input(w, turn[w])) \/ Lapped(w)
       \/ ~NewToWorker(w, Reading(w).newest)
  /\ cams[w] > 1 /\ NextTurn(w)
  /\ UNCHANGED <<Still, ring, at, k, cams, last, hand, due>>

Due(c) ==
  /\ ~due[c] /\ due' = [due EXCEPT ![c] = TRUE]
  /\ UNCHANGED <<Still, ring, at, k, cams, turn, last, hand>>

(* reader.header() after the frame was read.                               *)
CheckHeader(w) ==
  /\ at[w] = "check" /\ Header(Input(w, turn[w]))
  /\ at' = [at EXCEPT ![w] = "write"]
  /\ UNCHANGED <<Still, ring, k, worker>>

HeaderRaises(w) ==
  /\ at[w] = "check" /\ ~Header(Input(w, turn[w]))
  /\ Dies(w) /\ UNCHANGED kills

(* What it publishes for a frame: one rectified image, or the depth map    *)
(* and then the detections, if there are none too.                         *)
(* Mutant: the detections first.                                           *)
OutputSwapped(w, c) ==
  IF w = undistort THEN << <<"rect", c>> >> ELSE << <<"det", c>>, <<"depth", c>> >>

Output(w, c) ==
  IF w = undistort THEN << <<"rect", c>> >> ELSE << <<"depth", c>>, <<"det", c>> >>

Write(w) ==
  /\ at[w] = "write" /\ at' = [at EXCEPT ![w] = "publish"]
  /\ ring' = Placed(Output(w, turn[w])[k[w]], hand[w])
  /\ UNCHANGED <<Still, k, worker>>

Publish(w) ==
  LET out == Output(w, turn[w]) IN
  /\ at[w] = "publish" /\ ring' = Published(out[k[w]])
  /\ IF k[w] < Len(out)
     THEN /\ k' = [k EXCEPT ![w] = @ + 1] /\ at' = [at EXCEPT ![w] = "write"]
          /\ UNCHANGED <<turn, hand>>
     ELSE /\ k' = [k EXCEPT ![w] = 1] /\ at' = [at EXCEPT ![w] = "run"]
          /\ hand' = [hand EXCEPT ![w] = NoFrame] /\ NextTurn(w)
  /\ UNCHANGED <<Still, cams, last, due>>

Work(w) ==
  \/ Resolve(w) \/ OpenReader(w) \/ Raises(w) \/ ReadFrame(w) \/ NothingNew(w)
  \/ CheckHeader(w) \/ HeaderRaises(w) \/ Write(w) \/ Publish(w)

(* What becomes of it only if the writer is in its way.                    *)
Raced(w) == ReadLapped(w) \/ ReadOvertaken(w) \/ ReadCleared(w) \/ EmptyFrame(w)

-----------------------------------------------------------------------------
(* run.sh.                                                                 *)
Step(name) == script[1] = name
Outside == <<setup, ring, k, worker, kills>>

StartStage ==
  /\ Step("start") /\ Launch(script[2]) /\ script' = <<"record", script[2]>>
  /\ UNCHANGED <<Outside, pending, tries, pids>>

Record ==
  /\ Step("record") /\ pids' = pids \cup {script[2]}
  /\ script' = IF script[2] = audio THEN <<"up", audio>> ELSE <<"await", script[2]>>
  /\ UNCHANGED <<Outside, at, starts, pending, tries>>

(* wait_for_ring.  Mutant: it looks for the ring the stage reads.          *)
AwaitedInput(s) == << CASE s = capture -> "cam" [] s = undistort -> "cam" [] s = depth -> "rect", 1 >>

Awaited(s) == << CASE s = capture -> "cam" [] s = undistort -> "rect" [] s = depth -> "det", 1 >>

RingAppears ==
  /\ Step("await") /\ Exists(Awaited(script[2]))
  /\ script' = <<"start", script[2] + 1>> /\ tries' = 0
  /\ UNCHANGED <<Outside, at, starts, pending, pids>>

LookAgain ==
  /\ Step("await") /\ ~Exists(Awaited(script[2]))
  /\ tries' = tries + 1
  /\ script' = IF tries' > MaxTries THEN <<"kill", script[2]>> ELSE script
  /\ UNCHANGED <<Outside, at, starts, pending, pids>>

(* The trap.  Ctrl-C reaches every process of the terminal, but background *)
(* jobs of a script are started with SIGINT ignored: the Python workers    *)
(* leave it so, the C++ programs install a handler.                        *)
Trap(interrupt) ==
  /\ script[1] \in {"start", "record", "await", "up"}
  /\ script' = <<"kill", script[2]>>
  /\ pending' = IF interrupt THEN pending \cup {s \in {capture, audio} : Alive(s)} ELSE pending
  /\ UNCHANGED <<Outside, at, starts, tries, pids>>

(* stop_all.  Mutant: only the last stage is sent the signal.              *)
KillLast ==
  /\ Step("kill") /\ script' = <<"reap", script[2]>>
  /\ pending' = pending \cup {s \in pids : Alive(s) /\ s = script[2]}
  /\ UNCHANGED <<Outside, at, starts, tries, pids>>

KillAll ==
  /\ Step("kill") /\ script' = <<"reap", script[2]>>
  /\ pending' = pending \cup {s \in pids : Alive(s)}
  /\ UNCHANGED <<Outside, at, starts, tries, pids>>

(* stop_all begins with the default dispositions: a second signal ends     *)
(* run.sh at once, before the kill or in its wait.                         *)
TrapAgain(interrupt) ==
  /\ Step("kill") \/ Step("reap")
  /\ script' = <<"aborted", script[2]>>
  /\ pending' = IF interrupt THEN pending \cup {s \in {capture, audio} : Alive(s)} ELSE pending
  /\ UNCHANGED <<Outside, at, starts, tries, pids>>

(* wait: at the end of stop_all, or of the script.                         *)
Reap ==
  /\ Step("reap") \/ Step("up")
  /\ \A s \in Stages : ~Alive(s)
  /\ script' = <<"exited", script[2]>>
  /\ UNCHANGED <<Outside, at, starts, pending, tries, pids>>

Script == StartStage \/ Record \/ RingAppears \/ LookAgain \/ KillAll \/ Reap

Process(s) ==
  \/ Zero(s) \/ Fill(s)
  \/ s \in Workers /\ Work(s)
  \/ s = capture /\ \E c \in Cameras : PublishFrame(c)

Next ==
  \/ Script \/ \E interrupt \in BOOLEAN : Trap(interrupt) \/ TrapAgain(interrupt)
  \/ \E s \in Stages : Process(s) \/ Ends(s) \/ Kill(s) \/ StartByHand(s)
  \/ \E c \in Cameras : Capture(c) \/ Due(c)
  \/ \E w \in Workers : TimesOut(w) \/ Raced(w)

Spec == Init /\ [][Next]_vars
(* Every process that runs makes steps and ends when it is told to, and    *)
(* time passes.  Nothing makes a camera deliver or anyone start a stage.   *)
FairSpec ==
  /\ Spec /\ WF_vars(Script)
  /\ \A s \in Stages : WF_vars(Process(s)) /\ WF_vars(Ends(s))
  /\ \A c \in Cameras : WF_vars(Due(c))
-----------------------------------------------------------------------------
(* depth_worker.py:222-247: what the depth worker publishes for a camera   *)
(* is the map of a frame, then the detections of that frame, then the next *)
(* map: as long as it lives the two rings are of one frame, but for the    *)
(* moment when the map is there and the detections of that very frame are  *)
(* being written, whatever frames it is given and in whatever order.       *)
Looping == {"run", "check", "write", "publish"}
Paired ==
  \A c \in Cameras : at[depth] \in Looping /\ c <= cams[depth] =>
    LET map == ring[<<"depth", c>>].newest
        det == ring[<<"det", c>>].newest
    IN det = map \/ (turn[depth] = c /\ k[depth] = 2 /\ hand[depth] = map)

(* Of the frames of the running capture daemon the undistort worker never  *)
(* publishes one that is more than one behind the frame on its ring: it    *)
(* may be given frame n + 1 before latest names it and n after that        *)
(* (undistort_worker.py:117-132), but a worker that lives through a restart*)
(* of the daemon, or is restarted itself, does not fall further back.      *)
BackByAtMostOne ==
  at[undistort] = "write" /\ hand[undistort].run = starts[capture] =>
    LET old == ring[Output(undistort, turn[undistort])[k[undistort]]].newest
    IN old.run = starts[capture] => old.idx <= hand[undistort].idx + 1

(* run.sh:5-14, 72-91: where no ring is left of an earlier session, no     *)
(* ring of a camera is there without the ring it is made from, and "all    *)
(* stages up" is said only when bat_det0 is, and so every ring of the      *)
(* first camera; a second camera may come later, or not at all.            *)
UpMeansUp ==
  setup.old = {} =>
    /\ \A c \in Cameras : /\ Exists(<<"det", c>>) => Exists(<<"depth", c>>)
                          /\ Exists(<<"depth", c>>) => Exists(<<"rect", c>>)
                          /\ Exists(<<"rect", c>>) => Exists(<<"cam", c>>)
    /\ Step("up") => Exists(<<"det", 1>>)

(* The newest frame of a camera gets through to the detections, if all     *)
(* three processes are alive and serve that camera, or a frame of the same *)
(* index has (the readers tell frames by their index alone); one of them   *)
(* may have been restarted, and the rings may be old ones.                 *)
Serving(c) == \A s \in {capture} \cup Workers :
                /\ at[s] \in Looping
                /\ s \in Workers => c <= cams[s]
GetsThrough ==
  \A c \in {1, 2} :
    <>[](Serving(c) /\ ring[<<"cam", c>>].newest # NoFrame =>
           ring[<<"det", c>>].newest.idx = ring[<<"cam", c>>].newest.idx)

(* run.sh neither waits for ever for a ring nor for a stage it has told to *)
(* end: it comes to say that all stages are up, or it exits with nothing   *)
(* left running.  Two ways out are excepted, and both are the code's.      *)
(* Missed is the gap of run.sh:73-74: the trap ran between the start of a  *)
(* stage and the assignment to PIDS, so the stage is not sent a signal and *)
(* is waited for.  "aborted": a second signal came while run.sh was        *)
(* stopping.                                                               *)
Missed == Step("reap") /\ \E s \in Stages \ pids : Alive(s)
AllEnded == Step("exited") /\ \A s \in Stages : ~Alive(s)
ScriptEnds ==
  /\ Step("start") ~> (Step("up") \/ AllEnded \/ Missed \/ Step("aborted"))
  /\ Step("kill") ~> (AllEnded \/ Missed \/ Step("aborted"))
===============================================================================
