# bathat in TLA+

bathat turns two cameras on a hat into a depth picture and a hum: the capture
program publishes frames in shared memory, two Python workers rectify them and
estimate depth, and an audio program places the nearest obstacles around the
wearer's head.  This directory holds TLA+ modules of the parts of that system
whose behaviour is hard to test, the TLC configurations that check them on small
instances, and TLAPS proofs of the properties that matter most for instances of
any size.

Modelled: the shared-memory ring through which every process talks to the next
one (both implementations of its writer and of its reader), the object tracker,
the audio program around it down to its sinks, the capture program with its
viewfinder, the start and the restarts of the four processes, and the radar
prototype.

To check and prove (in this directory):

    tlc -config audio.cfg MCAudio             # any run of the table below
    tlapm BatRing_proof.tla                   # any of the eight *_proof modules


## 1. The system

    run.sh
      |  starts, in order, waiting for the rings of the stage before
      v
    bathat (C++)  --/bat_cam0,1 (NV12)-->  undistort_worker.py
      ^   ^                                     |
      |   +------- /bat_rect0,1 (BGR) ----------+------> depth_worker.py
      |                                                    |       |
      +--------------- /bat_depth0,1 (F32) ----------------+       |
      +--------------- /bat_det0,1 (detections) -------------------+
                              |
                              v
    bat_audio (C++): DetSource -> fusion::Tracker -> pick_voice, ZoneQuantizer
                        -> synth::Engine, SpeechPlayer -> AudioSink

Every arrow with a ring name is a `bat_ring`: one writer, any number of readers,
"latest frame wins".  There is no other communication between the processes.

### Components, their state, operations and properties

| Component | Source | State | Operations | What makes it correct |
|---|---|---|---|---|
| Ring, C | `common/bat_ring.h` | header (magic, nslots, slot_size, latest, wr_count), per slot a seqlock counter, metadata, payload | `bat_ring_create`, `write_begin`/`write_end`, `open`, `read_latest`, `close` | no torn copy; fresh; no missed frame; readable after the writer dies; a reader never waits |
| Ring, Python | `common/bat_ring.py` | the same object, plus the writer's own `_wr_count` and the local `seq` | `RingWriter.__init__`, `write`, `close`; `RingReader.header`, `read_latest` | the same promises, with weaker stores |
| Capture | `src/camera.cpp` | camera handle, ring, frame slot, viewer buffers | open, 3A set-up, per-frame callback, stop | publishes whole frames only; stops cleanly |
| Frame slot | `src/frameslot.cpp` | last raw frame, mutex | `write`, `view` | the viewer never reads a buffer being resized |
| Viewfinder | `src/main.cpp`, `rectview`, `depthview`, `detview` | per view: ring, last frame_idx, validity, fps window | poll, draw, fall back to the raw frame | shows the newest frame; does not freeze; expired circles vanish |
| Composite, display | `src/composite.cpp`, `display.cpp` | QNX screen buffers | begin, end, shutdown | post what was composed |
| Undistort worker | `undistort/undistort_worker.py` | one RingReader, RingWriter and rate limit per camera | poll, remap, write | falls back by one frame at most; survives its source |
| Depth worker | `depth/depth_worker.py` | readers, depth and detection writers | poll, infer, write depth and detections | depth and detections of one frame carry the same index |
| Detection | `common/detect.py` | rolling normalisation | blobs of a depth map | numeric |
| Audio loop, DetSource | `audio/main.cpp` | per camera the last detections and their time | poll, update, announce, render, write a block | old detections are dropped; announcements are rationed |
| Tracker | `audio/fusion.cpp` | `slots_`, `graves_`, `grave_next_`, `next_id_` | `update`, `birth_id` | an id names one object, for ever; a track is lost only for a reason; it settles |
| Voice, zones | `audio/fusion.cpp` | the sticky holder, the current zone | `pick_voice`, `ZoneQuantizer` | the voice does not jump, the ear does not flutter |
| Speech | `audio/speech.cpp` | playing clip, one pending clip | `load`, `announce`, `mix` | a clip starts where its object hums |
| Synthesizer | `audio/synth.cpp` | smoothed targets, oscillator phases | `set_targets`, `render` | no click when a target changes |
| Sinks | `audio/qsasink.cpp`, `wavfilesink.cpp` | PCM handle or file, byte count | start, write, stop | each frame sent once; the sizes of a file name what was rendered |
| Launcher | `run.sh` | child processes | start in order, stop | from a clean start "up" means a ring for detections; it comes to an end |
| Radar prototype | `audio/src/*` | the active obstacle, its key, the time of the last ping | update, reset | the most urgent obstacle is followed; what is heard was announced; pings keep their cadence |
| Tools, tests | `tools/*`, `tests/*` | – | – | – |

### What is hard about it

* **Interleaving without locks.**  A reader copies a slot while the writer, one
  round later, stores into it.  The seqlock detects this only if every store is in
  the right order, in two languages.
* **Crashes and restarts.**  Rings are never unlinked.  A writer may die between
  any two stores, and a restarted one clears the object under readers that keep it
  mapped.
* **Staleness.**  `latest` is loaded, then used; de-duplication compares with an
  index of the previous stream; views stay valid after their source is gone.
* **Long histories of small legal steps.**  Births, evictions, drops and
  inheritances of ids, in any order and several in one update, must leave identity
  intact.
* **Threads and lifetimes.**  Camera callbacks run in threads of their own from the
  middle of a start until the end of a stop, on rings and slots that `main()` owns,
  on every way out of it.
* **Several partial steps.**  A depth map and its detections are two writes; a block
  of sound is taken in pieces; a start of four processes can stop anywhere.
* **Limits.**  Eight attempts, a ring of graves that wraps, a table of three
  tracks, comparisons with `<=` at exactly the gate.

`PROJECT.json` lists each hazard at its line, with the properties that cover it or
the reason why none does yet.


## 2. The modules

    FrameRegister          what a ring promises
         ^  INSTANCE (refinement)
    RingReader  <-- BatRing  <-- MCBatRing
      ^    ^           ^-- BatRing_proof
      |    +------ PyRing  <-- MCPyRing
      |                ^-- PyRing_proof
      +-- RingReader_proof  (extended by BatRing_proof and PyRing_proof)

    Tracker  <-- MCTracker                 AudioSinks   Speech
      ^  ^------ Tracker_proof                  ^         ^
      |                                         |         |
      +------------- INSTANCE ------------- AudioLoop  (EXTENDS)  <-- MCAudio
                                                ^------ AudioLoop_proof

    Viewfinder  <-- MCViewfinder           Radar  <-- MCRadar
         ^------ Viewfinder_proof            ^------ Radar_proof

    Pipeline  <-- MCPipeline
         ^------ Pipeline_proof

The ring is checked once, word by word, and then used as what it promises.  In
`AudioLoop` and `Viewfinder` a ring is a register that holds its newest frame; in
`Pipeline`, where the order of frames is the question, it also holds the frame
ahead of `latest`, and a read may be lapped or overtaken by a re-initialisation.

### RingReader: the shared object and its readers

| Variable | In the code |
|---|---|
| `hdr` | `bat_ring_hdr`: `magic` (set or not), `nslots`, `slot_size` (0 or the ring's), `latest`, `wr_count` |
| `seq[i]` | the seqlock counter of slot i |
| `word[i]` | the rest of slot i: the metadata words `size` and `stamp` (timestamps and frame_idx) and the words of the payload; each holds the name of the frame whose write stored it |
| `rd[r]` | the program counter and the locals of reader r's call: slot index, counter read before the copy, words left to load, the copy, attempts, result, (Python) `last_frame_idx`; `stride` and `buf`, the slot size its addresses and its buffer were computed from |
| `era`, `span[r]` | history: which initialisation this is and whether it is complete; the published count when r's call began, and whether the ring has stayed up since, for a C reader that mapped it as it is (`clean`) |

`bat_ring_read_latest` becomes `Begin`, `PickSlot`/`SeeNothing`, `BadSlot`/
`GoodSlot`, `SlotBusy`/`SlotStable`, `LoadWord` for every word, `TooBig`/
`CopyPayload`, `Succeed`/`Torn`, `GiveUp`.  The Python `read_latest` is the same
machine with three differences, all conditioned on `r \in PyReaders`: it unpacks
the header at each attempt, field by field (`LoadMagic`, `LoadNSlots`,
`LoadSlotSize`, then `latest` in `PickSlot`: a restart may come between any two),
does not bound the slot index separately, and compares frame_idx with the last one
before it copies the payload (`Duplicate`).

`bat_ring_open` is `Open` (the magic), `Refuse` or `CheckHeader`, `MapSlots` (the
stride of the slots, from the slot_size of that moment) and `SizeBuffer` (the
caller's buffer, `RectView::try_open` and its like).  A C reader keeps both for good:
one that opens a Python ring when nslots is packed and slot_size is not has every
slot but the first in the wrong place.  What it finds there (`Astray`) is any
counter, any size and any number.  Such a reader exists in the model and may read
anything; the properties of a ring are about readers that mapped it as it is.

Granularity: each load or store of a header field or a counter is a step; a slot
is loaded and stored word by word, in any order.  Memory is sequentially
consistent at that granularity.  The C code asks for this with acquire/release
accesses and sequentially consistent fences around the plain copies.  For Python
it is an assumption, which favours the code: what fails here fails on the machine.

### BatRing: the C writer

`bat_ring_create` is `Create` (memset reaches the header), `MemsetSlot`,
`FillField` in any order (plain stores), `SetMagic` (the release).  Publishing a
frame is `WriteBegin`, `StoreWord` in any order, `MarkStable`, `SetLatest`,
`SetCount`; the copy itself is `publish_nv12` of `camera.cpp`.  `Crash` is enabled
between any two steps and leaves the object as it is; a later `Create` is the
restart.

### PyRing: the Python writer

The same, in the order of `RingWriter`: the magic is the *first* field packed, and
`struct.pack_into` first clears all the bytes of its format and then stores the
fields in order (CPython's implementation, marked external), so that each call is
a clear followed by one step per field.  The even counter is stored before size,
timestamps and frame_idx.  A Python writer counts frames with its own `_wr_count`.

### FrameRegister: the abstract specification

No slots, counters or words: an epoch, the number of frames `published`, the
number `visible` (published, or one more), and for each reader whether a call is
in progress and what the last one returned.  A call may answer a frame not older
than the newest one at its start and already visible; "none" only if nothing had
been published or, with de-duplication, the reader has that frame already (its
number may be recognised while the rest of it is still being written); "raced"
only after `Patience` further frames.  A call during which the ring was re-created
is promised nothing (`Undefined`).  `BatRing!Register` maps `visible` to
`CompleteFrames`: one more than `wr_count` from the moment the counter of the slot
being written is even again, two stores before the frame is published.

### Tracker: fusion::Tracker

| Variable | In the code |
|---|---|
| `slots`, `graves`, `graveNext`, `nextId` | `slots_`, `graves_`, `grave_next_`, `next_id_` |
| `cands` | the merged detections of this update not yet associated |
| `matched` | the local `matched[]` |
| `tracks` | what `update()` returned |
| `pc` | between two updates, or inside one |
| `scene`, `changes` | what the two DetSources hold, and how often it has changed |

One `update()` is `Update` (merge the overlap, sort, truncate, let the ages
advance), then for each candidate exactly one of `Follow` (a track in the gate),
`Adopt` (a coasting track in the wide seam gate), `Occupy` (a free place), `Evict`
(the weakest unmatched track, if strictly farther) and `Refuse`; then `Bury` for
each expired track, in order; then `Rank`.  `birth_id` is `Inherit` or `Fresh`
inside `Occupy` and `Evict`.  There is one thread, so nothing comes between these
steps except that `Look` changes the scene between two updates.

### AudioLoop, with AudioSinks and Speech: bat_audio

`at` is where `main()` is.  One pass of its loop is `Sample` (the clock is read),
`Poll(0)` and `Poll(1)` (the two `DetSource`s: `Tried`, `Taken`, `Usable`), the
steps of the tracker (`Track`, an instance of `Tracker` whose scene is what the
sources returned), `Choose` (`pick_voice`, `quantize`, the announcement with its
cooldown) or `NoVoice`, `Render` with `Mix`, and then the sink's `write()` until it
is done: pieces (perhaps of no frame) and underruns of a sound device, or one `fwrite`,
of which some stays in the buffer of stdio.  Around it: the start of the sink, the
test tone, the clips, `--seconds` for either sink, the signal, a write that fails,
and a stop whose seeks, writes and close may fail unseen (`StopFails`).  A clip goes on
by the frames that are mixed and not by the clock, so a stalled device stretches it.
The depth worker (`Create`, `Publish`) acts between two passes, and between the
reading of the clock and the polls, where its report lies in the future.

| Variable | In the code |
|---|---|
| `source[c]` | the members of `DetSource`: `open_`, `last_try_ns_` (as `wait`), `have_frame_`, `last_frame_idx_`, `dets_`, and the age of its frame |
| `haveVoice`, `holder`, `zone`, `target` | `have_voice`, `voice_azimuth`, `zone_`, what the synthesizer was told |
| `sinceCall` | `now - last_announce_ns` |
| `clips`, `playing`, `pending` | `clips_`, the clip that plays, `pending_key_` |
| `kind`, `dev`, `left`, `got` | which sink; its handle or file; `remaining`; the frames of the block the device has |
| `file`, `held`, `bytes`, `header` | frames in the WAV file and in stdio's buffer, `data_bytes_`, the two sizes in its header |
| `tone`, `limit`, `rendered` | `--tone`, the frames of `--seconds`, `frames_total` |
| `evidence`, `heard`, `voiceId`, `turnedAt`, `leftZone`, `mixed` | history: the newest report of an object, the last detection the tracker took, the frames mixed since the last announcement, the id behind the voice, where and from which zone the ear changed |

### Viewfinder: bathat

`pc` is where `main()` is, from `CreateRings` through the starts of the cameras,
with every way they can fail, to the loop (`Poll`, `BeginFrame` or `SkipFrame`, a
panel per camera, `Overlays`, `Sleep`) and the way out (`Leave`, `StopCamera`,
`Shutdown`, or the `unwind` of an early return, then `Destroy`).  Next to it runs a
callback per camera (`Arrive`, `PublishRaw`, `LockSlot`, `CopyChroma`), from
`camera_start_viewfinder` on, before `streaming_` is set.  A panel of raw frames is
copied plane by plane under the slot's mutex (`TakeSlot`, `PlaceChroma`).

| Variable | In the code |
|---|---|
| `handle`, `delivering` | `handle_` and `streaming_` of a `CameraStream`; that the framework makes callbacks |
| `slot[c]` | `FrameSlot`: who holds the mutex, the planes, and whether it still exists |
| `view[s]` | `RectView`, `DepthView`, `DetView`: ring open, seconds to the next attempt, `have_`, `last_idx_`, the tile, the age of the detections |
| `screen[c]` | what is in the window's buffer for camera c: the panel's two planes, the depth tile, and the age of the circles last drawn, kept for as long as they are fresh (not how long their pixels stay) |
| `ring[s]` | the newest frame of a worker's ring and its age |
| `raw[c]`, `faults` | frames delivered; calls of the camera or the screen that failed |

### Pipeline: run.sh and the four processes

| Variable | In the code |
|---|---|
| `ring[r]` | the object of shared memory: absent, of an earlier session, blank (magic 0), made; its newest frame, and the one that is complete in its slot but not named by `latest` yet |
| `at[s]`, `k[s]` | where process s is: off, waiting for its input, opening readers, zeroing and filling its rings, in its loop; which ring it is at |
| `cams`, `turn`, `last`, `hand`, `due` | a worker's readers, the camera whose turn it is, `last_idx`, the frame read, `next_due` of the rate cap |
| `script`, `tries`, `pids`, `pending` | where `run.sh` is, looks at `/dev/shmem`, `PIDS`, signals under way |

`StartStage`, `Record`, `RingAppears`, `LookAgain`, `Trap`, `KillAll`, `TrapAgain`,
`Reap` are `run.sh`; `stop_all` restores the default dispositions first, so a second
signal ends the script at once (`TrapAgain`), before its kill or in its wait.
`Resolve`, `OpenReader`, `Zero`, `Fill`, `ReadFrame`, `CheckHeader`, `Write`,
`Publish` are the workers, with `Raises`, `EmptyFrame` and `HeaderRaises` where a
`ValueError` that nobody catches ends them.  `Kill` is possible everywhere.

A write is two steps, as its order matters downstream: the frame is in its slot
(`Write`, `Capture`), then `latest` names it (`Publish`, `PublishFrame`).  Besides the
newest frame a worker may be given the one ahead (`ReadLapped`; of a Python ring also
with a cleared frame_idx), an older one when a re-initialisation overtakes the call
(`ReadOvertaken`) or while `latest` is cleared (`ReadCleared`), or an empty one on
which `reshape` raises (`EmptyFrame`).  These are the outcomes that `RingReader` and
`PyRing` show of a call.

### Radar: AudioManager

`Lose` and `Follow` are `update()` for a list in which nothing and in which
something counts; `Chosen` is `chooseHighestPriority`.  `out` is the list of calls
the last update made on the audio output.

### Abstractions

* One writer per ring, as in the code.  Frames fill their slot; the geometry is
  the same at every restart.
* `memset` is atomic per slot and for the header.
* `seq`, `wr_count`, `next_id_` are natural numbers.  32-bit frame counters wrap
  after more than four years at 30 frames a second; ids are issued far more slowly.
* In `PyRing` the frame's own number stands for the frame_idx, which a Python writer
  passes on from its source.
* The tracker's azimuths (degrees) and closenesses (percent) are integers; floats
  become rounding to the nearest integer.  Instants are kept as ages, in ticks of
  0.4 s, and an age beyond every threshold is one value.  The thresholds 0.5, 1.2
  and 4 s become 2, 3 and 10 ticks, which decides every comparison as the code
  does at multiples of 0.4 s.
* `std::sort` may leave equal elements in any order: the choice is
  nondeterministic.  The scenes used have few ties.
* `AudioLoop` counts ages in seconds (freshness 2, hold 1, a grave 1, a cooldown 1).  A
  block takes no tick or one.  A report that is published while the sources are
  polled has the age `Future`.  `sinceCall` begins at the cooldown: the clock is
  the time since boot and `last_announce_ns` is 0.  A ring that an earlier run left
  may hold a report of any age, a fresh one included; `evidence` begins with it.
* Sound itself is left out: the synthesizer is the target it is given.  A block has
  two frames, a clip and the test tone three, stdio's buffer holds one, and the
  size fields of the header wrap at three frames, so that a piece of a block, an end
  of the tone inside a block, a block half in the file and a wrap all occur.  A clip is
  a block and a half and the cooldown one step of the clock, of which a block may take
  none: announcements meet clips that still play.  A failed seek puts the size words
  anywhere in the file (`Spoilt` frames more at most); what stdio loses on a full disk
  is any part of what it held.
* `Viewfinder` counts time in passes of its loop.  What a worker does between two
  polls has the effect it would have anywhere between them, so the workers act at
  one place of the loop.  Views are polled in one step: they share nothing.
* A frame of `Pipeline` is named by the run of the capture program that took it and
  its index.  The camera ring's own count is the index, as in `publish_nv12`.
* Options (`Setups`, `Options`) stand for command lines together with what is
  already there: rings of an earlier run, workers that are never started.


## 3. The runs

Each property is broken by a mutant in the modules (the definitions marked
"mutant", used by nothing else): a plausible bug that the run finds.

| Run | Instance | Shows |
|---|---|---|
| `ring` | C writer, C reader, fair; 2 slots, 2 attempts, 3 frames, 2 initialisations | `TypeOK`, `NoTornFrame`, `LatestIsWhole`, `MagicIsLast`; refinement of the register (`ImplementsRegister`); `ReadableAfterCrash` |
| `ring_lapped` | C writer, Python reader; 3 slots, 2 attempts, 5 frames, 2 initialisations | `Freshness`, `NoMissedFrame`, `RacedMeansLapped`, `BackwardsByAtMostOne` |
| `pyring` | Python writer, C reader; 2 slots, 1 attempt, 3 frames, 2 initialisations | `TypeOK`, `PromptReadIsWhole`, `LatestIsWhole` |
| `tracker` | 2 tracks, 13 scenes, at most 3 changes, 0.4 or 1.6 s between updates, fair | `TypeOK`, `IdsUnique`, `OverlapMerged`, `NeverReused`, `MatchedLeftAlone`, `HeldOrTraded`; `Settles`, `NearestHeard` |
| `audio` | 2 cameras, 2 tracks, both sinks, at most 3 reports and 1 fault, 5 set-ups | `GhostBounded`, `SilenceHasCause`, `VoiceDoesNotJump`, `NoFlutter`, `ClipStartsInEar`, `OutputWhole` |
| `viewfinder` | 5 command lines, up to 2 cameras, 1 fault, a signal at any moment, fair | `PanelWhole`, `CallbackSafe`, `NewestShown`, `CirclesFresh`, `ShutdownEnds` |
| `pipeline` | 7 ways to start, 1 kill anywhere, 1 restart, two signals, fair | `Paired`, `BackByAtMostOne`, `UpMeansUp`; `GetsThrough`, `ScriptEnds` |
| `radar` | all sequences of lists of up to 2 of 9 obstacles | `MostUrgentFirst`, `SoundHasCause`, `Cadence` |
| `ring_phantom` | the real 4 slots and 8 attempts | violates `NoFrameOutOfThinAir` |
| `pyring_torn` | the real 4 slots and 8 attempts | violates `NoTornFrame` |
| `voice_trades` | as `audio` | violates `VoiceKept` |
| `view_freezes` | as `viewfinder` | violates `FallsBackToRaw` |

What the properties of the last five modules say, and what makes them hold:

* `GhostBounded`: whatever hums was reported at most 2 s plus the hold time ago.
  The worker may have died, its ring may have been left by another session: the age
  test is made against the time of publication, at every block.
* `SilenceHasCause`: the voice falls silent only when the tracker has taken no
  detection for longer than the hold time and no source offers one.  The clock is
  read *before* the poll, so a report published in between is dropped for a block,
  together with the one it replaced; the hold time covers that gap.
* `VoiceDoesNotJump`, `NoFlutter`: the two hystereses.  The voice moves by more
  than the sticky gate only to something clearly closer or when nothing is left
  there; the ear goes back to the zone it left last only after more than 6 degrees
  of travel, whichever objects carried the voice there.
* `ClipStartsInEar`: an announcement speaks of the object that hums, into the ear in
  which it hums when it is made.  The cooldown runs on the clock and the clips on the
  audio that is written, so with a stalled output it may wait behind an earlier clip:
  for the rest of one clip at most, and not at all once the audio of two clips was
  mixed since the last announcement.
* `OutputWhole`: every frame of a block reaches the device once and in order
  through short writes and underruns.  Each size in a closed WAV file names nothing or
  the blocks the loop counts as rendered (modulo its width), whatever failed; when no
  call failed, both do and exactly those blocks are in the file.  With a full disk the
  header may name blocks that stdio lost: no result is looked at, and the property does
  not say otherwise.
* `PanelWhole`, `CallbackSafe`, `ShutdownEnds`: mutex, lifetimes and shutdown of the
  three threads.
* `NewestShown`: once nothing new comes, every panel shows the newest frame, or one
  with the same index as the newest (frames are told apart by their index alone).
* `CirclesFresh`: circles are drawn by the time of publication.
* `Paired`: the map and the detections of a camera are of one frame as long as the
  depth worker lives, but while the detections of that very map are being written.  It
  does not depend on the frames coming in order.
* `BackByAtMostOne`: of the frames of the running capture program the undistort worker
  publishes none that is more than one behind the frame on its ring.  It does publish
  n after n+1: a lapped read gives it n+1 before `latest` names it, the next read n.
* `GetsThrough`: the newest frame reaches the detections, or one of its index does.
* `UpMeansUp`: when no ring was left over, a ring of a camera exists only after the one
  it is made from, for both cameras, and "all stages up" is said only when `bat_det0`
  exists.  With two cameras the ring of the second may still be to come.
* `ScriptEnds`: `run.sh` comes to say that all stages are up or ends with nothing left
  running, but for two ways out that the code has: the gap between a start and `PIDS`
  (`Missed`) and a second signal ("aborted").
* `MostUrgentFirst`, `SoundHasCause`: the weights of the priority keep the urgencies
  apart; whoever hears a ping was told what it is for, on that side.
* `Cadence`: by the clock of whoever listens (`quiet`, the time since a ping was heard),
  which the program does not have, the interval of the present urgency is kept: no ping
  sooner unless with an announcement, none later.  A `lastPingTime` that is not set, or
  set to something else, breaks it.

### The bounds, and why they are enough

* *Slots.*  Lapping takes as many further frames as there are slots.  With two, a
  reader sent to slot 0 for frame 0 is lapped by frame 2: three frames suffice.
  Three slots and five frames let a reader be overtaken, retry, and be overtaken
  again.  The proofs remove the bound.
* *Initialisations.*  Two: the effects of a restart on an attached reader need one.
* *Readers.*  Readers store nothing, so one of each kind shows all that any number
  can see; the proofs are for any number.
* *Payload.*  One word besides the two of metadata: a torn copy already needs only
  two words that differ.
* *Tracks.*  Two places and four graves: eviction, a full table and a wrapping
  graveyard all occur.  Three candidates exceed the table.
* *Time of the tracker.*  A step of 0.4 s keeps a track, two make it coast, four
  exceed the hold window; the four-tick step reaches the end of a grave's life in
  three.
* *Scenes.*  A crossing of the seam, more objects than places, several blobs of each
  camera within reach of one of the other, and tracks within reach of one
  candidate.  `MaxChanges` bounds the environment, not the tracker, which runs on
  for ever; a liveness property is about what happens when the scene stops
  changing, for any scene it stops at.
* *Reports.*  Three: left of the zone's edge, right of it, and left again is a
  return to a zone; one, silence, one is a voice lost and found; two neighbours can
  swap twice.  The loop itself runs on without a bound (2.1 million
  states).
* *Command lines.*  Each exercises one mixture of streams: rectified frames of the
  one camera and raw frames of the other, detections, depth maps, no display.  Views
  share nothing but the flag `changed`.
* *Frames.*  Two per stream and run: one to be shown and one to replace it, besides
  the one an earlier run left, with a higher index than either; in one way to start the
  pipeline three, for a worker to be two behind.
* *Faults, kills, restarts.*  One at any place.  Two would meet only if the handling
  of the first had steps of its own; it is an early return, or a process that ends.
  Where it does, in `stop_all`, the second signal is there.
* *Radar.*  Everything is decided by the best of a list, its urgency, the zone and
  the time since the last ping; two obstacles compare, and the clock moves by one or
  two ticks against intervals of five, three and two.

Deadlock is not checked for the ring (the bounds stop the writer, and when it is
down nothing obliges a reader to be attached) nor for the pipeline (by hand,
everything may have ended).  In all other runs it is.

### Fairness

* Ring: weak fairness of each reader's next step.  Each consumer polls in an
  endless loop (viewfinder frame loop, audio loop, `while True` of the workers) and
  a reader never waits for another process.  Nothing is assumed of the writer, so
  `ReadableAfterCrash` holds although it may die anywhere and never come back.
* Tracker: weak fairness of the call and of its steps.  The audio loop calls
  `update()` once per block as long as it runs.  Nothing is assumed of the scene.
* Viewfinder: weak fairness of `main()`, strong fairness of a callback that was
  begun.  It may have to wait for the slot's mutex, which `main()` holds for one
  copy in every pass of 33 ms and gives back in between.  Nothing makes a camera or
  a worker deliver.
* Pipeline: weak fairness of the script, of every process and of the clock of the
  rate cap.  Nothing makes a camera deliver or anyone start or kill a stage.


## 4. What was found

* **A frame nobody wrote** (`ring_phantom`).  `bat_ring_create` clears the object
  under attached readers, and `bat_ring_read_latest` never looks at the magic.
  With the header cleared, `latest` is 0 and slot 0 has size 0 and counter 0, which
  is even; as soon as nslots is stored a call succeeds with an empty frame number
  0.  The comment promises that "a reader never sees a half-initialized ring".
* **Torn frames from Python** (`pyring_torn`).  `RingWriter.write` marks the slot
  stable before it stores size, timestamps and frame_idx, and clears the counter
  before that.  A lapped reader accepts a mixture with an unchanged even counter.
  What remains true is `PromptReadIsWhole`: a reader not overtaken gets a whole
  frame.
* **The voice is traded between neighbours** (`voice_trades`).  fusion.h:91-93 says
  that the holder keeps the voice unless a challenger beats it by the margin.  But
  the holder is known by its azimuth only, and the first track within 25 degrees of
  it, nearest first, is taken for it (fusion.cpp:165): a neighbour that becomes a
  little closer takes the voice.  What holds is `VoiceDoesNotJump`.
* **The panel freezes on an old frame** (`view_freezes`).  main.cpp:41-42 says
  the rectified stream is shown while its worker runs, otherwise the raw frames.
  A view stays valid once it had a frame (main.cpp:196), and a ring left by an
  earlier run gives it one: without any worker the panel shows that frame for ever.

Seen while modelling, and not a run of its own:

* A reader of a C ring may obtain frame n+1 before `latest` names it and frame n on
  its next call.  `BackwardsByAtMostOne` says that this is the worst that can
  happen; it matters to callers that de-duplicate by inequality,
  as the workers do (`BackByAtMostOne`).  It leaves out one case: a Python reader that
  has validated the header when a restart clears it is sent to slot 0 (bat_ring.py:119)
  and may be given whatever old frame is there.
* The Python writer clears `latest` before it stores it (bat_ring.py:198): for an
  instant it names slot 0, and a reader may be given an older frame.  And it packs
  the magic before the geometry (bat_ring.py:174), where bat_ring.h:81 has it last: a
  C reader that opens the ring in between computes a stride of 64 bytes, keeps it, and
  takes pixels for slot headers until it is restarted.
* The WAV sink does not look at the results of its last seeks and writes and of
  `fclose` (wavfilesink.cpp:61-66): on a full disk the header of a closed file may name
  blocks that stdio has lost, or nothing.
* A second Ctrl-C while `run.sh` stops ends it before it has sent its signals, or
  while its children still run (run.sh:51).
* A full table may evict a track that is not its weakest: only tracks not yet hit in
  this update are candidates (fusion.cpp:107; fusion.h:18-19 speaks of the weakest
  track).
* If all tracks of a full table end in the update that refused the new candidates,
  the hum pauses for one block (the exception in `SilenceHasCause`).
* A voice that jumps from one side to the other changes the ear without having
  travelled back through the middle; that is a change of object, not a flutter.
* A worker dies of a `ValueError` outside any `try` if the program before it
  re-initialises its ring between the frame and the second look at the header
  (undistort_worker.py:124, depth_worker.py:216), or if it is given an empty frame
  (undistort_worker.py:126, depth_worker.py:107), and nothing restarts it.
* The second camera is looked up once, right after the first appeared
  (depth_worker.py:167): a moment too early and it is not served in this run.
* With rings left over, `wait_for_ring` succeeds at once, so "all stages up" says
  nothing (`UpMeansUp` is about a clean start).
* If the trap of `run.sh` runs between `&` and `PIDS=`, the stage just started is not
  sent a signal and is waited for (run.sh:73-74; `Missed`).
* `Display::init` keeps its window when it fails after creating it.
* A radar obstacle that jitters across the border of a zone is announced anew and
  pinged at every update.  Its closeness is not validated: `MostUrgentFirst` needs
  it to be a percentage, which every caller computes.


## 5. What is proved

All proofs are checked by TLAPS for every value of the constants, from the named
assumptions: at least one slot and one attempt (`NSlotsAssumption`,
`AttemptsAssumption`), a non-empty payload distinct from the metadata
(`PayloadAssumption`), disjoint sets of C and Python readers (`ReadersAssumption`),
natural bounds (`BoundsAssumption` of the ring and of the viewfinder: any number of
frames, restarts and faults), at least one track (`MaxTracksAssumption`), natural
time steps and lifetimes (`StepsAssumption`, `LivesAssumption`), scenes of detections
(`ScenesAssumption`), a positive interval per urgency, a clock that does not
run backwards and closenesses that are percentages (`IntervalAssumption`,
`DelaysAssumption`, `ScenesAssumption` of the radar), ways to start the pipeline
that name one or two cameras and rings there are (`SetupsAssumption`).  Of the audio
program: at least one track, natural times and gates, a threshold above 0 for
announcements, a hysteresis inside the edge (`TrackerAssumption`, `LoopAssumption`,
`VoiceAssumption`, `ZoneAssumption`), a block of at least one frame and a header of
any size (`BlockAssumption`), a buffer of stdio of any size (`StdioAssumption`), clips
of any length but none (`ClipAssumption`), and reports
that are lists of detections (`ReportsAssumption`, `FoundAssumption`,
`SetupsAssumption`).  The merge, track and seam gates and the stale age are not
assumed anything about.

Every safety invariant and every action property that the passing runs check is
a theorem.

### The C ring (`RingReader_proof`, `BatRing_proof`)

| Theorem | Statement |
|---|---|
| `Invariance` | `Spec => []Inv` |
| `TypeCorrect` | `Spec => []TypeOK` |
| `NeverTorn` | `Spec => []NoTornFrame` |
| `AlwaysFresh` | `Spec => []Freshness` |
| `NothingMissed` | `Spec => []NoMissedFrame` |
| `NeverFarBack` | `Spec => BackwardsByAtMostOne` |
| `LapInvariance` | `Spec => []LapInv` |
| `OpensTheRightGeometry` | `Spec => []MagicIsLast` |
| `NewestStaysReadable` | `Spec => []LatestIsWhole` |
| `RacedOnlyIfLapped` | `Spec => []RacedMeansLapped` |
| `RegInvariance` | `Spec => []RegInv` |
| `Refinement` | `Spec => ImplementsRegister` |

None of `NoTornFrame`, `Freshness` and `NoMissedFrame` is inductive: they speak of finished calls,
and what makes a finished call right is what held at each step of it.  `Inv` adds:

* of the writer: `PhaseOK` (the ring is up exactly once the magic is set),
  `InitialisingOK` (what has been cleared and filled so far), `WritingOK` (the slot
  being written is the only one with an odd counter; the words not left to store
  are the new frame's);
* of the object: `HeaderUp`, and `SlotsOK` (a slot with an even counter holds one
  frame, no slot holds a frame newer than the one being written, and the slot named
  by `latest` holds the newest published frame or the one after it);
* of each reader whose call has not been overtaken by a restart: `SpanOK`,
  `SlotFresh` (the slot it picked holds nothing older than what was newest when the
  call began, and only newer frames replace it), `CopyOK` (as long as the counter
  has not moved, every word loaded is the word that is there), `ResultOK`.

At `Succeed` the counter is unchanged and even; by `CopyOK` the copy equals the
slot, by `SlotsOK` the slot is one frame, by `SlotFresh` it is fresh.  A writer's
step can disturb `CopyOK` only through a store into the picked slot, and then the
counter has moved (it never decreases while the ring is up).  The proof has one
lemma per part of the invariant for a reader's step (`SpanStep`, `SlotFreshStep`,
`CopyStep`, `ResultStep`), one for the readers that do not move (`Bystander`), and
for a writer's step `WriterTyping`, `WriterPhase`, `WriterWriting`, `WriterShared`,
`WriterReaders`.

The bound on slots is one, not two: `NoTornFrame` holds even for a ring with a
single slot (readers then mostly give up).  Two slots are needed only for
`LatestIsWhole`, which is why it carries `NSlots > 1`.

*Order.*  `BackwardsByAtMostOne` compares a frame with the one the reader was handed
by an earlier call, before which the ring may have been re-initialised.  `OrderInv`
therefore follows every content that exists (in a slot, in a copy, handed over),
whatever its initialisation: it is `Known`, of no later initialisation than the present
one and not newer than the frame being written; and the last frame a reader had is at
most one ahead of what was published when its call began (`OrderOK`), while `Freshness`
bounds from below what the call returns.  The property is about calls that no
re-initialisation overtakes (`clean`); of the others it is false.

*Opening.*  `FitOK` says that a reader whose attempt fell on a ring that was up has the
stride and the buffer of that ring, so its slots are where the writer's are; for a
Python reader the same from the field it loads to the end of the attempt.

*Lapping.*  `LapInv` says where `latest` points (`LatestPlace`), and of a reader
that has chosen a slot that either the slot is as it was (`Undisturbed`) or the
writer has gone round the ring since (`Lapped`): frames that share a slot are a
whole round apart (the lemma `Apart`).  Each failed attempt raises the count that
the writer must have reached (`Target`) by `NSlots - 1` frames.

*Refinement.*  The steps of the writer and of the readers map to steps of
`FrameRegister` or leave it alone.  Beyond `LapInv` this takes `BoundsOK` (what a
slot or a stamp holds is a frame that the register knows), `NotYetThere` (no slot
holds the frame about to be written, so that `visible` grows only at `MarkStable`),
`InItsSlot` (frame n lies in slot n modulo the number of slots) and `StampOK`.  The
proof is for both kinds of readers, and it corrected the specification: a Python
reader that loads the stamp of a slot in the middle of its overwriting may
recognise the frame by its number and answer "none" before it is complete.

### The Python ring (`PyRing_proof`)

| Theorem | Statement |
|---|---|
| `Invariance` | `Spec => []Inv` |
| `TypeCorrect` | `Spec => []TypeOK` |
| `PromptReads` | `Spec => []PromptReadIsWhole` |
| `NewestStaysReadable` | `Spec => []LatestIsWhole` |

The readers' half of the C ring's invariant rests on counters that never decrease,
and `RingWriter` clears a counter before each store of it; that is how
`NoTornFrame` fails.  The argument here does not use the counters.  Every slot but
the one at the writer's cursor is `Settled` once it has been written, and the one at
the cursor from the last field of its frame (`PackStamp`) to the count: no store
goes to a settled slot (`SettledSlot`), a settled slot is one frame of this
initialisation (`SettledOK`, by `ProgressOK`, what has been stored so far), and
`latest` names a settled slot also while it is cleared (`LatestOK`: it then names
slot 0, which is settled as soon as there is a frame).  The count moves the cursor
to another slot, which takes a second one (`Apart`).  A call is `Prompt` as long as
the writer has completed no frame since it began: the slot it picked is settled and
stays so, hence what it loads is that slot (`PromptOK`).  The copies of such a call
are whole because nobody writes there, not because the counter says so.

### The tracker (`Tracker_proof`)

| Theorem | Statement |
|---|---|
| `Identity` | `Spec => [](ShapeOK /\ IdsUnique)` |
| `UniqueIds` | `Spec => []IdsUnique` |
| `NoIdReused` | `Spec => NeverReused` |
| `OneHitPerUpdate` | `Spec => MatchedLeftAlone` |
| `HeldUntilTraded` | `Spec => HeldOrTraded` |
| `TypeCorrect` | `Spec => []TypeOK` |
| `MergedOnce` | `Spec => []OverlapMerged` |

For the identities `IdsUnique`, with its conjunct `Issued`, is inductive together with the shapes
of the variables: a fresh id is above every id issued, so it is on no track and in
no grave; an inherited one leaves its grave in the same step.  The geometry plays
no part: the theorems hold for any gates, thresholds and scenes, indeed for any
way of choosing which track a candidate goes to.  The lemmas follow what an action
does to identities (`SameIdsKeep`, `HitKeeps`, `InheritKeeps`, `FreshKeeps`,
`BuryKeeps`), then each action is shown to be one of those (`UpdateGood`,
`HitGood`, `BirthGood`, `BuryGood`, `QuietGood`, `NextGood`).

`TypeOK` is inductive with them.  It bounds what `update()` considers and returns by
the number of places, which takes the cardinality of finite sets (`RankedType`,
`RankTypes`).  The merging is a scan in which each blob depends on those before it;
`Pairings` states it without recursion, as the pairings in which every blob has the
mate its scan finds.  That there always is one (`PairingExists`) follows from the least
number principle, twice: a shortest prefix that cannot be paired, and the nearest
blob, the last of several (`NearestExists`).

### The audio loop (`AudioLoop_proof`)

| Theorem | Statement |
|---|---|
| `Invariance` | `Spec => []Inv` |
| `Ghosts` | `Spec => []GhostBounded` |
| `Silences` | `Spec => []SilenceHasCause` |
| `Outputs` | `Spec => []OutputWhole` |
| `Jumps` | `Spec => VoiceDoesNotJump` |
| `Flutters` | `Spec => NoFlutter` |
| `Announcements` | `Spec => ClipStartsInEar` |

What these properties say was decided several steps, and two programs' clocks,
before the block in which it is heard.  `Inv` carries it through:

* `TrackerOK`, `IdleOK`: the tracker inside the loop.  The prover cannot use a theorem
  of `Tracker` under an INSTANCE, so what is needed of its actions is proved here
  again (that a merge, a hit, a birth and a burial keep the table, and what they do
  to the ages).
* `EvidenceOK`, for `GhostBounded`: wherever detections are held fresh (in a ring, in
  a source, in `dets`, as a candidate), some object was reported no longer ago than
  they say; a live track adds its age, and what the clock has advanced since the
  tracker looked (`Lag`).  What hums is a live track, not older than the hold time.
  Its start needs the ages of the rings an earlier run left.
* `HeardOK` and `OfferOK`, for `SilenceHasCause`: detections taken within the hold time
  are on a live track; what a source offers becomes a candidate and a candidate
  becomes, keeps or evicts a track.  The one exception of the property (a full table
  that expires in the update that refused the candidate) is `Ending`: all tracks from
  the n-th on are live, and the last n graves were dug in this update.  A place that is
  buried makes a grave, so if all are buried there are as many graves of age 0.
* `ZoneOK`, for `NoFlutter`: where the ear turned is well inside the zone it left, by
  the hysteresis; to turn back there, the voice must pass the other threshold.
* `SpeechOK`, for `ClipStartsInEar`: the frames left of the clip that plays, those of
  the one that waits and those mixed since the last announcement are together no more
  than two clips.  An announcement replaces what waits and starts the count again, a
  mixed frame moves from the clips to the count.  The clock and the cooldown play no
  part.
* `SinkOK`, for `OutputWhole`: the device has the first `Block - left` frames of the block,
  in order; `data_bytes_` counts the blocks that `write()` accepted (`Total`), which
  `main()` counts one step later; as long as nothing failed, the file and stdio's buffer
  together hold them.

`VoiceDoesNotJump` needs only the order of the ranking: the voice is the first track
near the holder that is not clearly weaker than the strongest (`JumpStep`).

### The viewfinder (`Viewfinder_proof`)

| Theorem | Statement |
|---|---|
| `Invariance` | `Spec => []Inv` |
| `CallbacksSafe` | `Spec => []CallbackSafe` |
| `PanelsWhole` | `Spec => []PanelWhole` |
| `Circles` | `Spec => CirclesFresh` |

`Inv` is `TypeOK /\ LifeOK /\ PanelOK`.  Neither property is inductive.  What makes a
late callback harmless is where `main()` is: `LifeOK` says that a callback runs only
while the framework delivers, that it delivers only while the camera has a handle,
and at which places of `main()` camera A or B cannot have one (not yet, or no
more); rings and slots are taken away only at such places.  `PanelOK` says who
holds the mutex of a slot (the callback exactly in the middle of its copy, `main()`
exactly in the middle of its own), and what is whole in the meantime: the slot
unless the callback holds it, the panel unless `main()` is between its planes, and
then its luma is that of the slot.  `LifeStep` and `PanelStep` go through the
actions; most change nothing of either (`Quiet`).

`CirclesFresh` is about the circles a pass draws.  `FreshOK` puts three ages in order:
what is in a detection ring is no older than what the view read of it, and that no
older than the circles last drawn of it.  They grow together and a worker only makes
the first smaller, so what a pass finds fresh was published within the window.  The
age of circles says nothing of their pixels, which stay until the panel under them is
painted again (main.cpp:196-198); neither the property nor the theorem speaks of those.

### The pipeline (`Pipeline_proof`)

| Theorem | Statement |
|---|---|
| `Invariance` | `Spec => []Inv` |
| `PairTheorem` | `Spec => []Paired` |
| `BackTheorem` | `Spec => []BackByAtMostOne` |
| `UpTheorem` | `Spec => []UpMeansUp` |

A process writes its own rings only (`Only`), so what it knows of them is changed by
its own steps: `MadeOK` says what it has created and left empty so far, `HandOK` that
what it is publishing is the frame it holds.  `PairOK` has the place between the two
writes of the depth worker, and needs nothing of the frames it is given.

A worker takes a frame for new if its index differs from the last one's; that it does
not fall far back is not a matter of the worker alone.  `RunsOK` says which run of the
capture program the frames of its ring can be of, and that the frame ahead of `latest`
is the next one.  By `BoundOK` everything that the undistort worker holds or has
published of the present run is at most one ahead of the newest frame (`Bound`), so
what it reads next is at most one behind (`Behind`); a frame left over by a
re-initialisation is of an earlier run, because the new one has published nothing
while the header is blank.  `Found` and `InTurn` are for `run.sh`: a ring that exists
stays, and from a clean start each is created after the one it is made from.  The
number of restarts, kills and tries plays no part.

### The radar prototype (`Radar_proof`)

| Theorem | Statement |
|---|---|
| `Invariance` | `Spec => [](Inv /\ Cadence)` |
| `PingsInTime` | `Spec => []Cadence` |
| `EverySoundHasCause` | `Spec => []SoundHasCause` |
| `UrgencyRules` | `Spec => []MostUrgentFirst` |

`Inv` relates the obstacle that is followed, its key and the last announcement, and
says that while one is followed `lastPingTime` is when the listener last heard a ping;
each way through `update()` must keep that.
`MostUrgentFirst` takes two facts.  Something is chosen whenever an obstacle counts:
the set of priorities of a finite list has a greatest member and that priority a
first index, by the least number principle (from the library's well-founded
relations).  And the priorities of two urgencies never meet, because position,
confidence and closeness together weigh less than a step of urgency.

### Only model-checked

* Liveness (`ReadableAfterCrash`, `Settles`, `NearestHeard`, `NewestShown`,
  `ShutdownEnds`, `GetsThrough`, `ScriptEnds`): temporal properties under fairness
  are out of the prover's reach.
* The four violations, which are counterexamples on a concrete instance.


## 6. What is not modelled, and the plan

What the plan has left to prove are the safety facts that the liveness properties rest
on: that an update that finds every object where its track is changes no identity, and
that a shutdown only moves forward.

Modelled only in part, or not at all:

* A restart with another geometry.  A reader keeps the slot size, the mapping and the
  buffer of the ring it opened (bat_ring.h:261); here every initialisation packs the
  same geometry, as it has unless the resolution of the pipeline is changed while
  parts of it keep running.
* Which object a blob really is.  `birth_id` takes the first grave in reach, not the
  nearest one (fusion.cpp:150): that the id goes to the right object is not a
  statement about the program's state.
* `snd_pcm_writei` returning 0 for ever.  `write()` then loops; a single 0 is a step
  of the model, and nothing is claimed about the end of the loop.
* The frames-per-second figures of every program, the capability probe and the
  values chosen for exposure, command lines and logging.
* Floating-point signal processing (the synthesizer's oscillators, gains and slews)
  and numerical image processing (rectification, depth inference, blob detection with
  its rolling normalisation, calibration), the pixel copies of the compositor, the
  QNX camera, screen and sound interfaces beyond how the code calls them.
* Tools and tests: they use the same ring classes, and were read as statements of
  intent.
