------------------------------ MODULE AudioSinks ------------------------------
(***************************************************************************)
(* The two outputs of bat_audio: QsaAudioSink, which feeds an ALSA device  *)
(* in as many pieces as the device takes, and WavFileSink, which appends   *)
(* to a file and patches the two sizes of its header when it is closed.    *)
(* The caller's write() is over when done or broken is set.                *)
(*                                                                         *)
(* A block is Block frames; sizes in the file are counted in frames, and   *)
(* the size fields of the header wrap at Wrap (2^32 bytes in the code).    *)
(***************************************************************************)
EXTENDS Integers, Sequences

CONSTANTS
  Block,      (* frames in a block, kBlockFrames                           *)
  Wrap,       (* the modulus of the header's size fields                   *)
  Preamble,   (* what the RIFF size counts besides the data: 36 bytes      *)
  Buffer,     (* frames that stdio may keep back from the file             *)
  Spoilt,     (* frames that the size words take up when they are written  *)
              (* behind the data, because a seek failed                    *)
  MaxFaults   (* bound on the failures of the device or the disk           *)

VARIABLES
  kind,       (* which sink main() made: "wav" or "qsa"                    *)
  dev,        (* handle_ or file_: "closed", "open", "gone" after a stop   *)
  left,       (* remaining: frames of the block still to be written        *)
  got,        (* the frames of the block the device or file has, in order  *)
  file,       (* frames of data in the WAV file                            *)
  held,       (* frames of data in stdio's buffer                          *)
  bytes,      (* data_bytes_                                               *)
  header,     (* the RIFF and data sizes in the file's header              *)
  faults

sinkVars == <<kind, dev, left, got, file, held, bytes, header, faults>>
fileVars == <<file, held, bytes, header>>

ASSUME BlockAssumption == Block \in Nat \ {0} /\ Wrap \in Nat \ {0} /\ Preamble \in Nat
ASSUME StdioAssumption == Buffer \in Nat /\ Spoilt \in Nat

Patched(size) == [riff |-> (Preamble + size) % Wrap, data |-> size]
Blank  == Patched(0)
Frames == 1 .. Block

SinkInit(k) ==
  /\ kind = k /\ dev = "closed" /\ left = 0 /\ got = <<>>
  /\ file = 0 /\ held = 0 /\ bytes = 0 /\ header = Blank /\ faults = 0

-----------------------------------------------------------------------------
(* start(): the device is opened and configured, or the header is written. *)
StartOk ==
  /\ dev = "closed" /\ dev' = "open"
  /\ UNCHANGED <<kind, left, got, fileVars, faults>>

(* Opening fails, or (QSA) set_params does and the device is closed again: *)
(* no handle is kept.  A WAV file whose header could not be written stays  *)
(* open until the destructor's stop().                                     *)
StartFails ==
  /\ dev = "closed" /\ faults < MaxFaults /\ faults' = faults + 1
  /\ dev' \in IF kind = "wav" THEN {"closed", "open"} ELSE {"closed"}
  /\ UNCHANGED <<kind, left, got, fileVars>>

-----------------------------------------------------------------------------
(* write().                                                                *)
WriteBlock ==
  /\ left' = Block /\ got' = <<>>
  /\ UNCHANGED <<kind, dev, fileVars, faults>>

Pieces(n) == [k \in 1 .. n |-> Block - left + k]

(* snd_pcm_writei takes n of the remaining frames, perhaps none.           *)
Writei(n) ==
  /\ kind = "qsa" /\ dev = "open" /\ left > 0 /\ n \in 0 .. left
  /\ got' = got \o Pieces(n) /\ left' = left - n
  /\ UNCHANGED <<kind, dev, fileVars, faults>>

(* Mutant: after a recovery the whole block is sent again.                 *)
RecoverResend ==
  /\ kind = "qsa" /\ dev = "open" /\ left > 0
  /\ faults < MaxFaults /\ faults' = faults + 1
  /\ left' = Block
  /\ UNCHANGED <<kind, dev, got, fileVars>>

(* An underrun; snd_pcm_recover re-prepares, and the rest is sent again.   *)
Recover ==
  /\ kind = "qsa" /\ dev = "open" /\ left > 0
  /\ faults < MaxFaults /\ faults' = faults + 1
  /\ UNCHANGED <<kind, dev, left, got, fileVars>>

(* An error that snd_pcm_recover cannot clear: write() returns false.      *)
Unrecoverable ==
  /\ kind = "qsa" /\ dev = "open" /\ left > 0
  /\ faults < MaxFaults /\ faults' = faults + 1
  /\ UNCHANGED <<kind, dev, left, got, fileVars>>

(* fwrite takes the block: some of what stdio holds reaches the file.      *)
Fwrite ==
  /\ kind = "wav" /\ dev = "open" /\ left > 0
  /\ left' = 0 /\ got' = Pieces(left)
  /\ \E n \in 0 .. held + Block :
       /\ held + Block - n <= Buffer
       /\ file' = file + n /\ held' = held + Block - n
  /\ bytes' = (bytes + Block) % Wrap
  /\ UNCHANGED <<kind, dev, header, faults>>

(* The disk is full: fwrite takes less than the block, which is not        *)
(* counted.  What of it, and of the blocks counted before, is in the file, *)
(* in the buffer or lost is stdio's affair.                                *)
FwriteShort ==
  /\ kind = "wav" /\ dev = "open" /\ left > 0
  /\ faults < MaxFaults /\ faults' = faults + 1
  /\ \E n \in 0 .. held + Block - 1, h \in 0 .. Buffer :
       n + h < held + Block /\ file' = file + n /\ held' = h
  /\ UNCHANGED <<kind, dev, left, got, bytes, header>>

-----------------------------------------------------------------------------
(* stop(): drain and close the device, or flush what stdio holds and patch *)
(* the sizes; nothing when nothing is open.                                *)
StopOk ==
  /\ dev' = "gone"
  /\ IF kind = "wav" /\ dev = "open"
     THEN file' = file + held /\ held' = 0 /\ header' = Patched(bytes)
     ELSE UNCHANGED <<file, held, header>>
  /\ UNCHANGED <<kind, left, got, bytes, faults>>

(* The results of fseek, fwrite and fclose are not looked at.  Either size *)
(* may stay as it was, some of what stdio holds may be lost, and when a    *)
(* seek fails the size words go wherever the file position is.             *)
StopFails ==
  /\ kind = "wav" /\ dev = "open" /\ dev' = "gone"
  /\ faults' = faults + 1
  /\ \E n \in 0 .. held + Spoilt : file' = file + n
  /\ held' = 0
  /\ \E r \in {header.riff, Patched(bytes).riff}, d \in {header.data, bytes} :
       header' = [riff |-> r, data |-> d]
  /\ UNCHANGED <<kind, left, got, bytes>>

Stop == StopOk \/ StopFails
===============================================================================
