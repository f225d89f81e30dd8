------------------------------ MODULE AudioLoop ------------------------------
(***************************************************************************)
(* main() of audio/main.cpp with its two DetSources: sample the clock,     *)
(* poll the detection rings, update the tracker, choose the object that    *)
(* hums and its ear, announce it, and write one block to the sink.         *)
(*                                                                         *)
(* The depth worker publishes, and is started again, at any moment; what   *)
(* it does between two polls has the same effect wherever it comes, except *)
(* after the clock was sampled: then the report lies in the future of now. *)
(* A ring holds its newest report (the register of FrameRegister).         *)
(* Instants are ages in ticks of one second, Future for one after now.     *)
(***************************************************************************)
EXTENDS AudioSinks, Speech, FiniteSets

CONSTANTS
  MaxTracks, MergeGate, TrackGate, SeamGate, Stale, Hold, GraveLife,
  FreshFor,     (* kDetFreshNs, 2 s                                        *)
  OpenRetry,    (* a second attempt to open comes 1 s after the first      *)
  StickyGate,   (* kVoiceStickyGateDeg, 25                                 *)
  StickyMargin, (* kVoiceStickyMargin, 8 percent                           *)
  Edge,         (* kEdgeDeg, 18                                            *)
  Hyst,         (* kHystDeg, 6                                             *)
  NotifyMin,    (* kNotifyMinCloseness, 35 percent                         *)
  Cooldown,     (* --notify-cooldown                                       *)
  ToneLen,      (* the frames of the test tone, kSampleRate                *)
  Setups,       (* command lines: <<--tone given, kind of sink, --seconds  *)
                (* in frames, 0 for no end>>                               *)
  Found,        (* the rings an earlier run may have left                  *)
  Reports,      (* per camera, what the worker may detect                  *)
  MaxReports    (* bound on what the worker does                           *)

VARIABLES
  at,                                 (* where main() is                   *)
  tone,                               (* --tone was given                  *)
  limit, rendered,                    (* frame_limit, frames_rendered      *)
  rings,                              (* per camera: the detection ring    *)
  reports,
  source,                             (* per camera: the DetSource         *)
  dets, step,                         (* dets; the ticks since the last now*)
  slots, graves, graveNext, nextId, cands, matched, tracks, upd,
  haveVoice, holder, zone, target,    (* have_voice, voice_azimuth, zone,  *)
                                      (* the synthesizer's target          *)
  sinceCall,                          (* now - last_announce_ns            *)
  evidence,     (* history: the age of the newest report of an object      *)
  heard,        (* history: since when the tracker took no detection       *)
  voiceId,      (* history: the track that holds the voice, 0 for none     *)
  turnedAt,     (* history: the azimuth at the last change of zone         *)
  leftZone      (* history: the zone that change left                      *)

T == INSTANCE Tracker WITH pc <- upd, scene <- dets, changes <- 0,
                           Scenes <- {}, Steps <- {}, MaxChanges <- 0

Run     == <<tone, limit, rendered>>
tracker == <<slots, graves, graveNext, nextId, cands, matched, tracks, upd>>
voice   == <<haveVoice, holder, zone, target, sinceCall>>
worker  == <<rings, reports, evidence>>
history == <<heard, voiceId, turnedAt, leftZone>>
vars == <<sinkVars, speechVars, at, Run, worker, source, dets, step,
          tracker, voice, history>>

Cameras == {0, 1}
Future  == -1
Capped(n, top) == IF n > top THEN top ELSE n
After(age, dt, top) == Capped((IF age = Future THEN 0 ELSE age) + dt, top)
LongAgo == FreshFor + Hold + 1
Nowhere == 999

NoRing     == [state |-> "absent", any |-> FALSE, idx |-> 0, dets |-> <<>>, age |-> 0]
Unopened   == [open |-> FALSE, wait |-> 0, have |-> FALSE, idx |-> 0,
               dets |-> <<>>, age |-> 0]
Quiet      == [level |-> 0, ear |-> "both"]

Ring == [state : {"absent", "foreign", "up"}, any : BOOLEAN, idx : Nat,
         dets : Seq(T!Blob), age : Nat]

(* The gates and margins are compared with distances; the hysteresis lies  *)
(* inside the edge; a threshold of 0 would announce silence.               *)
ASSUME TrackerAssumption == MaxTracks \in Nat \ {0} /\ Hold \in Nat /\ GraveLife \in Nat
ASSUME LoopAssumption    == FreshFor \in Nat /\ OpenRetry \in Nat /\ Cooldown \in Nat
ASSUME VoiceAssumption   == StickyGate \in Nat /\ StickyMargin \in Nat
                            /\ NotifyMin \in Nat \ {0}
ASSUME ZoneAssumption    == Edge \in Nat /\ Hyst \in 0 .. Edge
ASSUME SetupsAssumption  == Setups \subseteq BOOLEAN \X {"wav", "qsa"} \X Nat
                            /\ ToneLen \in Nat \ {0}
ASSUME FoundAssumption   == Found \subseteq [Cameras -> Ring]
ASSUME ReportsAssumption == Reports \in [Cameras -> SUBSET Seq(T!Blob)]

(* The newest report of an object among the rings found.                   *)
Reported == {rings[c].age : c \in {k \in Cameras : rings[k].any /\ rings[k].dets # <<>>}}
NewestReported ==
  CHOOSE a \in {LongAgo} \cup Reported : \A b \in {LongAgo} \cup Reported : a <= b

Init ==
  /\ \E s \in Setups : /\ tone = s[1] /\ SinkInit(s[2])
                       /\ limit = IF s[1] THEN ToneLen ELSE s[3]
  /\ rendered = 0
  /\ SpeechInit /\ T!Init
  /\ at = "start" /\ rings \in Found /\ reports = 0
  /\ source = [c \in Cameras |-> Unopened] /\ step = 0
  /\ haveVoice = FALSE /\ holder = 0 /\ zone = "both" /\ target = Quiet
  /\ sinceCall = Cooldown
  /\ evidence = NewestReported /\ heard = Hold + 1 /\ voiceId = 0
  /\ turnedAt = Nowhere /\ leftZone = "none"

-----------------------------------------------------------------------------
(* Starting: the sink, the test tone, the clips.                           *)
Begin ==
  /\ at = "start" /\ StartOk
  /\ at' = IF tone THEN "tone" ELSE "load"
  /\ UNCHANGED <<speechVars, Run, worker, source, dets, step, tracker, voice, history>>

NoOutput ==
  /\ at = "start" /\ StartFails /\ at' = "return"
  /\ UNCHANGED <<speechVars, Run, worker, source, dets, step, tracker, voice, history>>

LoadClips ==
  /\ at = "load" /\ clips' = Load /\ at' = "sample"
  /\ UNCHANGED <<sinkVars, playing, pending, mixed, Run, worker, source, dets, step,
                 tracker, voice, history>>

ToneBlock ==
  /\ at = "tone" /\ WriteBlock /\ at' = "writing"
  /\ UNCHANGED <<speechVars, Run, worker, source, dets, step, tracker, voice, history>>

-----------------------------------------------------------------------------
(* The depth worker: creates or re-creates a ring, publishes a report.     *)
Between == at = "sample"
Racing  == at \in {"poll0", "poll1"}

Create(c) ==
  /\ Between /\ reports < MaxReports /\ reports' = reports + 1
  /\ rings' = [rings EXCEPT ![c] = [NoRing EXCEPT !.state = "up"]]
  /\ UNCHANGED <<sinkVars, speechVars, at, Run, source, dets, step, tracker,
                 voice, history, evidence>>

(* The rate cap of the worker keeps the reports of a camera apart by more  *)
(* than the few blocks that fit into a tick.                               *)
Publish(c) ==
  /\ Between \/ Racing
  /\ reports < MaxReports /\ reports' = reports + 1
  /\ rings[c].state = "up" /\ (rings[c].any => rings[c].age > 0)
  /\ \E d \in Reports[c] :
       /\ rings' = [rings EXCEPT ![c] =
            [state |-> "up", any |-> TRUE, dets |-> d,
             idx |-> IF rings[c].any THEN rings[c].idx + 1 ELSE 0,
             age |-> IF Racing THEN Future ELSE 0]]
       /\ evidence' = IF d = <<>> THEN evidence ELSE 0
  /\ UNCHANGED <<sinkVars, speechVars, at, Run, source, dets, step, tracker,
                 voice, history>>

-----------------------------------------------------------------------------
(* now = bat_ring_now_ns(): dt ticks after the last block.  A report that  *)
(* was in the future is seen by the next block, a few milliseconds later.  *)
Sample(dt) ==
  /\ at = "sample" /\ at' = "poll0"
  /\ (\E c \in Cameras : source[c].age = Future) => dt = 0
  /\ step' = dt /\ dets' = T!Nothing
  /\ rings' = [c \in Cameras |-> [rings[c] EXCEPT !.age = After(@, dt, FreshFor + 1)]]
  /\ source' = [c \in Cameras |->
       [source[c] EXCEPT !.age  = After(@, dt, FreshFor + 1),
                         !.wait = IF @ > dt THEN @ - dt ELSE 0]]
  /\ sinceCall' = Capped(sinceCall + dt, Cooldown)
  /\ evidence' = Capped(evidence + dt, LongAgo)
  /\ heard' = Capped(heard + dt, Hold + 1)
  /\ UNCHANGED <<sinkVars, speechVars, Run, reports, tracker,
                 haveVoice, holder, zone, target, voiceId, turnedAt, leftZone>>

(* try_open: at most one attempt per OpenRetry; the ring must be there and *)
(* hold detections.                                                        *)
Tried(c) ==
  LET s == source[c] IN
  IF s.open \/ s.wait > 0 THEN s
  ELSE [s EXCEPT !.wait = OpenRetry, !.open = rings[c].state = "up"]

(* Mutant: a report that replaced another one at the same index is taken,  *)
(* but its age is that of the moment it is read.                           *)
TakenUnstamped(c, s) ==
  LET r == rings[c] IN
  IF s.open /\ r.any /\ (~s.have \/ r.idx # s.idx)
  THEN [s EXCEPT !.have = TRUE, !.idx = r.idx, !.dets = r.dets, !.age = 0]
  ELSE s

(* A frame not seen before replaces the detections held.                   *)
Taken(c, s) ==
  LET r == rings[c] IN
  IF s.open /\ r.any /\ (~s.have \/ r.idx # s.idx)
  THEN [s EXCEPT !.have = TRUE, !.idx = r.idx, !.dets = r.dets, !.age = r.age]
  ELSE s

Usable(s) == s.open /\ s.have /\ s.age # Future /\ s.age <= FreshFor

Poll(c) ==
  /\ at = (IF c = 0 THEN "poll0" ELSE "poll1")
  /\ at' = IF c = 0 THEN "poll1" ELSE "update"
  /\ LET s == Taken(c, Tried(c)) IN
       /\ source' = [source EXCEPT ![c] = s]
       /\ dets' = IF ~Usable(s) THEN dets
                  ELSE IF c = 0 THEN [dets EXCEPT !.cam0 = s.dets]
                  ELSE [dets EXCEPT !.cam1 = s.dets]
  /\ UNCHANGED <<sinkVars, speechVars, Run, worker, step, tracker, voice, history>>

(* tracker.update(dets, now), one step of Tracker at a time.               *)
Track ==
  /\ at = "update"
  /\ \/ /\ \/ T!Update(step) \/ T!Follow \/ T!Adopt \/ T!Occupy
           \/ T!Evict \/ T!Refuse \/ T!Bury
        /\ at' = at /\ heard' = heard
     \/ T!Rank /\ at' = "choose" /\ heard' = IF matched = {} THEN heard ELSE 0
  /\ UNCHANGED <<sinkVars, speechVars, Run, worker, source, step, voice,
                 voiceId, turnedAt, leftZone>>

-----------------------------------------------------------------------------
(* pick_voice: the first track, nearest first, that is near the holder and *)
(* not clearly farther than the nearest; otherwise the nearest.            *)
Sticky == {n \in 1 .. Len(tracks) :
             /\ T!Gap(tracks[n].azimuth, holder) <= StickyGate
             /\ tracks[1].closeness - tracks[n].closeness <= StickyMargin}
(* Mutant: the nearest track takes the voice at once.                      *)
PickedNearest == tracks[1]

Picked == tracks[IF haveVoice /\ Sticky # {}
                 THEN CHOOSE n \in Sticky : \A k \in Sticky : n <= k ELSE 1]

Side(a) == IF a < -Edge THEN "left" ELSE IF a > Edge THEN "right" ELSE "both"

(* Mutant: no hysteresis.                                                  *)
QuantizeSharply(a) == Side(a)

(* ZoneQuantizer::quantize.                                                *)
Quantize(a) ==
  IF \/ zone = "both"
     \/ zone = "left"  /\ a > -(Edge - Hyst)
     \/ zone = "right" /\ a < Edge - Hyst
  THEN Side(a) ELSE zone

(* notify_key: the nearest of the clips, 15 degrees apart.                 *)
NotifyKey(a) ==
  LET b == T!Rounded(a, 15) * 15 IN IF b > 90 THEN 90 ELSE IF b < -90 THEN -90 ELSE b

Calling(v) == Loaded /\ v.closeness >= NotifyMin /\ sinceCall >= Cooldown
Spoken(v)  == Calling(v) /\ NotifyKey(v.azimuth) \in clips

(* Mutant: the zone is quantized after the announcement.                   *)
ChooseEarlyCall ==
  /\ at = "choose" /\ tracks # <<>> /\ at' = "mix"
  /\ LET v == Picked
         z == Quantize(v.azimuth)
     IN  /\ haveVoice' = TRUE /\ holder' = v.azimuth /\ voiceId' = v.id
         /\ zone' = z
         /\ turnedAt' = IF z = zone THEN turnedAt ELSE v.azimuth
         /\ leftZone' = IF z = zone THEN leftZone ELSE zone
         /\ target' = [level |-> v.closeness, ear |-> z]
         /\ pending' = IF Calling(v) THEN Announced(NotifyKey(v.azimuth), zone) ELSE pending
         /\ sinceCall' = IF Calling(v) THEN 0 ELSE sinceCall
         /\ mixed' = IF Spoken(v) THEN 0 ELSE mixed
  /\ UNCHANGED <<sinkVars, clips, playing, Run, worker, source, dets, step,
                 tracker, heard>>

Choose ==
  /\ at = "choose" /\ tracks # <<>> /\ at' = "mix"
  /\ LET v == Picked
         z == Quantize(v.azimuth)
     IN  /\ haveVoice' = TRUE /\ holder' = v.azimuth /\ voiceId' = v.id
         /\ zone' = z
         /\ turnedAt' = IF z = zone THEN turnedAt ELSE v.azimuth
         /\ leftZone' = IF z = zone THEN leftZone ELSE zone
         /\ target' = [level |-> v.closeness, ear |-> z]
         /\ pending' = IF Calling(v) THEN Announced(NotifyKey(v.azimuth), z) ELSE pending
         /\ sinceCall' = IF Calling(v) THEN 0 ELSE sinceCall
         /\ mixed' = IF Spoken(v) THEN 0 ELSE mixed
  /\ UNCHANGED <<sinkVars, clips, playing, Run, worker, source, dets, step,
                 tracker, heard>>

(* No track: the synthesizer fades, its pan stays where it was.            *)
NoVoice ==
  /\ at = "choose" /\ tracks = <<>> /\ at' = "mix"
  /\ haveVoice' = FALSE /\ voiceId' = 0 /\ target' = [target EXCEPT !.level = 0]
  /\ UNCHANGED <<sinkVars, speechVars, Run, worker, source, dets, step, tracker,
                 holder, zone, sinceCall, heard, turnedAt, leftZone>>

(* engine.render, and speech.mix when there are clips.                     *)
Render ==
  /\ at = "mix" /\ at' = "writing" /\ WriteBlock
  /\ IF Loaded THEN Mix(Block) ELSE UNCHANGED speechVars
  /\ UNCHANGED <<Run, worker, source, dets, step, tracker, voice, history>>

-----------------------------------------------------------------------------
(* sink->write, and what main() does with its answer.                      *)
Outside == <<speechVars, Run, worker, source, dets, step, tracker, voice, history>>

Write ==
  /\ at = "writing"
  /\ \/ (\E n \in 0 .. left : Writei(n)) \/ Recover \/ Fwrite
  /\ at' = at /\ UNCHANGED Outside

WriteFails ==
  /\ at = "writing" /\ (Unrecoverable \/ FwriteShort)
  /\ at' = "stop" /\ UNCHANGED Outside

(* frames_rendered, counted where it makes a difference: the test tone and *)
(* --seconds end by it.                                                    *)
Counted == limit > 0 \/ kind = "wav"
Enough  == limit > 0 /\ rendered + Block >= limit

Written ==
  /\ at = "writing" /\ left = 0
  /\ rendered' = IF Counted THEN rendered + Block ELSE rendered
  /\ at' = IF Enough THEN "stop" ELSE IF tone THEN "tone" ELSE "sample"
  /\ UNCHANGED <<sinkVars, speechVars, tone, limit, worker, source, dets, step,
                 tracker, voice, history>>

(* SIGINT or SIGTERM, seen at the head of the loop.                        *)
Interrupted == at = "sample" /\ at' = "stop" /\ UNCHANGED <<sinkVars, Outside>>

StopSink ==
  /\ at \in {"stop", "return"} /\ Stop /\ at' = "exited"
  /\ UNCHANGED Outside

Exited == at = "exited" /\ UNCHANGED vars

Next ==
  \/ Begin \/ NoOutput \/ LoadClips \/ ToneBlock
  \/ \E c \in Cameras : Create(c) \/ Publish(c) \/ Poll(c)
  \/ \E dt \in {0, 1} : Sample(dt)
  \/ Track \/ Choose \/ NoVoice \/ Render
  \/ Write \/ WriteFails \/ Written \/ Interrupted
  \/ StopSink \/ Exited

Spec == Init /\ [][Next]_vars
-----------------------------------------------------------------------------
(* main.cpp:45-48 and fusion.h:51: a worker that died, or a ring left by   *)
(* an earlier run, cannot hum for ever.  Whatever hums was reported at     *)
(* most FreshFor + Hold ago.                                               *)
GhostBounded ==
  at = "mix" /\ target.level > 0 => evidence <= FreshFor + Hold

(* A report that is published while the sources are polled is in the       *)
(* future and is dropped, and so are the detections it replaced            *)
(* (main.cpp:94-104).  The hold time of the tracker must cover the gap: a  *)
(* voice is lost only when none was taken for longer than that, and no     *)
(* source has one to offer.  (A full table whose tracks all end in one     *)
(* update is the exception: they end after the candidates were refused.)   *)
AllEnded == Cardinality({g \in T!Buried : graves[g].age = 0}) = MaxTracks
Offers(s) == s.have /\ s.dets # <<>> /\ s.age \in 0 .. FreshFor
SilenceHasCause ==
  at = "choose" /\ haveVoice /\ tracks = <<>> =>
    heard > Hold /\ (AllEnded \/ \A c \in Cameras : ~Offers(source[c]))

(* fusion.h:91-92: with the same scene the voice does not hop between      *)
(* objects.  It moves by more than StickyGate only when nothing is left    *)
(* near the holder or something else is clearly closer.                    *)
VoiceDoesNotJump ==
  [][ haveVoice /\ haveVoice' /\ T!Gap(holder, holder') > StickyGate =>
        \A n \in 1 .. Len(tracks) : T!Gap(tracks[n].azimuth, holder) <= StickyGate =>
           target'.level > tracks[n].closeness + StickyMargin ]_vars

(* fusion.h:97-102: a borderline object does not flutter between zones.    *)
(* The voice comes back to the zone it left last only after it has         *)
(* travelled more than Hyst, be it one object or several in turn, with or  *)
(* without silence in between.                                             *)
NoFlutter ==
  [][ zone' # zone /\ zone' = leftZone => T!Gap(holder', turnedAt) > Hyst ]_vars

(* main.cpp:265 and :276, speech.cpp:99-128: an announcement speaks of the *)
(* object that hums, into the ear in which it hums when it is made.  The   *)
(* cooldown runs on the clock and the clips on the audio that is written,  *)
(* so a stalled output can make it wait behind an earlier clip: no longer  *)
(* than one clip, and not at all when the audio of two clips was mixed     *)
(* since the last announcement, whatever was announced before that.        *)
ClipStartsInEar ==
  [][ /\ at = "mix" /\ mixed = 0 =>
            /\ pending.key = NotifyKey(holder) /\ pending.ear = target.ear
            /\ target.level > 0
      /\ pending # Silence => mixed + playing.left <= ClipLen
      /\ mixed = TwoClips /\ mixed' = 0 => playing = Silence /\ pending = Silence ]_vars

(* qsasink.cpp:67-80: a write() that succeeds gave the device each frame   *)
(* of the block once and in order, whatever pieces it was taken in and     *)
(* however often an underrun had to be recovered.  wavfilesink.cpp:49-67:  *)
(* the sizes of a file that main() closed name nothing or the blocks that  *)
(* main() counts as rendered, up to the width of the fields; and when no   *)
(* call failed, exactly those blocks are in the file.                      *)
BlockWhole == got = [k \in Frames |-> k]
HeaderHonest ==
  LET size == rendered % Wrap IN
  /\ dev = "gone"
  /\ header.data \in {0, size} /\ header.riff \in {Blank.riff, Patched(size).riff}
  /\ faults = 0 => header = Patched(size) /\ file = rendered
OutputWhole ==
  /\ at = "writing" /\ left = 0 => BlockWhole
  /\ at = "exited" /\ kind = "wav" => HeaderHonest

(* fusion.h:90-93: the holder keeps the voice unless a challenger beats it *)
(* by the margin.                                                          *)
VoiceKept ==
  [][ voiceId # 0 /\ voiceId' # 0 /\ voiceId' # voiceId =>
        \A n \in 1 .. Len(tracks) : tracks[n].id = voiceId =>
           target'.level > tracks[n].closeness + StickyMargin ]_vars
===============================================================================
