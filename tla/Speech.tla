-------------------------------- MODULE Speech --------------------------------
(***************************************************************************)
(* SpeechPlayer of audio/speech.cpp: one clip plays at a time, and at most *)
(* one announcement waits for it to end.  The time of a clip is audio: it  *)
(* moves on by the frames that are mixed, whatever the clock does.         *)
(***************************************************************************)
EXTENDS Integers

CONSTANTS
  OnDisk,     (* the files of the clip directory: [key, ok], ok when       *)
              (* load_wav_mono48 accepts the file                          *)
  ClipLen     (* frames in a clip                                          *)

VARIABLES
  clips,      (* the keys of clips_                                        *)
  playing,    (* the clip that plays: [key, ear, left], or Silence         *)
  pending,    (* the announcement that waits, or Silence                   *)
  mixed       (* history: frames mixed since the last announcement of a    *)
              (* known clip, up to what two clips take                     *)

(* load() keeps no empty clip.                                             *)
ASSUME ClipAssumption == ClipLen \in Nat \ {0}

speechVars == <<clips, playing, pending, mixed>>
TwoClips   == 2 * ClipLen

(* A clip is named for the azimuth it speaks of.                           *)
Keys    == {15 * k : k \in -6 .. 6}
NoKey   == 1
Ears    == {"left", "both", "right"}
Silence == [key |-> NoKey, ear |-> "both", left |-> 0]
Waiting(key, ear) == [key |-> key, ear |-> ear, left |-> ClipLen]

SpeechInit == clips = {} /\ playing = Silence /\ pending = Silence /\ mixed = TwoClips

(* load(): the usable files; FALSE, and no notifications, when none is.    *)
Load   == {f.key : f \in {g \in OnDisk : g.ok}}
Loaded == clips # {}

(* announce(): an unknown key changes nothing, a known one replaces        *)
(* whatever waits.                                                         *)
Announced(key, ear) == IF key \in clips THEN Waiting(key, ear) ELSE pending

(* What is left of a clip when n more frames of it are mixed.              *)
Rest(clip, n) == IF clip.left > n THEN [clip EXCEPT !.left = @ - n] ELSE Silence

(* mix(): the clip goes on; when it is over before the last frame of the   *)
(* block, or when none plays, the waiting one starts right there, with the *)
(* pan it was announced with.                                              *)
Mix(frames) ==
  /\ IF playing.left >= frames
     THEN playing' = Rest(playing, frames) /\ pending' = pending
     ELSE playing' = Rest(pending, frames - playing.left) /\ pending' = Silence
  /\ mixed' = IF mixed + frames > TwoClips THEN TwoClips ELSE mixed + frames
  /\ UNCHANGED clips
===============================================================================
