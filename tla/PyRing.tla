-------------------------------- MODULE PyRing --------------------------------
(***************************************************************************)
(* One bat_ring written by the Python side: RingWriter.__init__ and        *)
(* RingWriter.write of common/bat_ring.py, with the readers of RingReader. *)
(* The rectified, depth and detection rings are written this way; the      *)
(* viewfinder and the audio process read them in C, the depth worker in    *)
(* Python.                                                                 *)
(*                                                                         *)
(* Every field goes into the map through struct.pack_into, which clears    *)
(* all the bytes its format covers and then stores the fields in the order *)
(* of the format: two steps here even when there is a single field.        *)
(***************************************************************************)
EXTENDS RingReader

CONSTANTS
  MaxFrames,    (* bound: frames written per initialisation              *)
  MaxGen        (* bound: initialisations of the ring                    *)

ASSUME BoundsAssumption == MaxFrames \in Nat /\ MaxGen \in Nat

VARIABLE wr     (* the writer: program counter, what is left to store,   *)
                (* the local seq of write() and _wr_count                *)

vars == <<hdr, seq, word, rd, era, span, wr>>

Idle == [pc |-> "down", todo |-> {}, seq |-> 0, wr_count |-> 0]

Init == RingInit /\ wr = Idle

CursorTwice == (wr.wr_count \div 2) % NSlots   (* mutant: each slot twice *)
Cursor  == wr.wr_count % NSlots
Current == [gen |-> era.gen, idx |-> wr.wr_count]

(* The writer goes from one program point to the next. *)
Step(from, to) ==
  /\ wr.pc = from
  /\ wr' = [wr EXCEPT !.pc = to]
  /\ UNCHANGED <<rd, span>>

(***************************************************************************)
(* RingWriter.__init__                                                     *)
(***************************************************************************)
(* self._map[:size] = zeros reaches the header first. *)
Create ==
  /\ wr.pc = "down"
  /\ era.gen < MaxGen
  /\ hdr'  = EmptyHdr
  /\ era'  = [gen |-> era.gen + 1, up |-> FALSE]
  /\ span' = [r \in Readers |-> [span[r] EXCEPT !.clean = FALSE]]
  /\ wr'   = [Idle EXCEPT !.pc = "zero", !.todo = Slots]
  /\ UNCHANGED <<seq, word, rd>>

ZeroSlot(i) ==
  /\ wr.pc = "zero"
  /\ i \in wr.todo
  /\ seq'  = [seq EXCEPT ![i] = 0]
  /\ word' = [word EXCEPT ![i] = [w \in Words |-> Zero]]
  /\ wr'   = [wr EXCEPT !.todo = wr.todo \ {i},
                        !.pc = IF wr.todo = {i} THEN "magic" ELSE "zero"]
  /\ UNCHANGED <<hdr, rd, era, span>>

(* _HDR.pack_into, whose first field is the magic. *)
PackMagic ==
  /\ Step("magic", "nslots")
  /\ hdr' = [hdr EXCEPT !.magic = TRUE]
  /\ UNCHANGED <<seq, word, era>>

PackNSlots ==
  /\ Step("nslots", "slot_size")
  /\ hdr' = [hdr EXCEPT !.nslots = NSlots]
  /\ UNCHANGED <<seq, word, era>>

PackSlotSize ==
  /\ Step("slot_size", "no_frame")
  /\ hdr' = [hdr EXCEPT !.slot_size = 1]
  /\ UNCHANGED <<seq, word, era>>

PackNoFrame ==
  /\ Step("no_frame", "ready")
  /\ hdr' = [hdr EXCEPT !.latest = NoFrame]
  /\ era' = [era EXCEPT !.up = TRUE]
  /\ UNCHANGED <<seq, word>>

(***************************************************************************)
(* RingWriter.write                                                        *)
(***************************************************************************)
ClearSlotHdr ==
  /\ seq'  = [seq EXCEPT ![Cursor] = 0]
  /\ word' = [word EXCEPT ![Cursor] =
                [w \in Words |-> IF w \in Meta THEN Zero
                                 ELSE word[Cursor][w]]]
  /\ UNCHANGED <<hdr, era>>

(* unpack the counter, then pack_into(seq + 1, 0, 0, 0, 0): first cleared, *)
Write ==
  /\ wr.pc = "ready"
  /\ wr.wr_count < MaxFrames
  /\ wr' = [wr EXCEPT !.pc = "busy", !.seq = seq[Cursor]]
  /\ UNCHANGED <<rd, span>>
  /\ ClearSlotHdr

(* then odd; the zeros of the other fields are there already. *)
PackBusy ==
  /\ wr.pc = "busy"
  /\ seq' = [seq EXCEPT ![Cursor] = wr.seq + 1]
  /\ wr'  = [wr EXCEPT !.pc = "copy", !.todo = Payload]
  /\ UNCHANGED <<hdr, word, rd, era, span>>

CopyWord(p) ==
  /\ wr.pc = "copy"
  /\ p \in wr.todo
  /\ word' = [word EXCEPT ![Cursor][p] = Current]
  /\ wr'   = [wr EXCEPT !.todo = wr.todo \ {p}]
  /\ UNCHANGED <<hdr, seq, rd, era, span>>

(* pack_into(seq + 2, size, t_capture, now, frame_idx): cleared, *)
ClearForStable ==
  /\ wr.todo = {}
  /\ Step("copy", "even")
  /\ ClearSlotHdr

(* the even counter first, *)
PackStable ==
  /\ Step("even", "size")
  /\ seq' = [seq EXCEPT ![Cursor] = wr.seq + 2]
  /\ UNCHANGED <<hdr, word, era>>

(* then the fields it is meant to cover. *)
PackSize ==
  /\ Step("size", "stamp")
  /\ word' = [word EXCEPT ![Cursor]["size"] = Current]
  /\ UNCHANGED <<hdr, seq, era>>

PackStamp ==
  /\ Step("stamp", "latest0")
  /\ word' = [word EXCEPT ![Cursor]["stamp"] = Current]
  /\ UNCHANGED <<hdr, seq, era>>

(* pack_into("<I", map, 7 * 4, s) *)
ClearLatest ==
  /\ Step("latest0", "latest")
  /\ hdr' = [hdr EXCEPT !.latest = 0]
  /\ UNCHANGED <<seq, word, era>>

PackLatestCount ==       (* mutant: the count is stored, not the slot *)
  /\ Step("latest", "count0")
  /\ hdr' = [hdr EXCEPT !.latest = wr.wr_count]
  /\ UNCHANGED <<seq, word, era>>

PackLatest ==
  /\ Step("latest", "count0")
  /\ hdr' = [hdr EXCEPT !.latest = Cursor]
  /\ UNCHANGED <<seq, word, era>>

(* pack_into("<Q", map, 8 * 4, self._wr_count) *)
ClearCount ==
  /\ Step("count0", "count")
  /\ hdr' = [hdr EXCEPT !.wr_count = 0]
  /\ UNCHANGED <<seq, word, era>>

PackCount ==
  /\ wr.pc = "count"
  /\ hdr' = [hdr EXCEPT !.wr_count = wr.wr_count + 1]
  /\ wr'  = [wr EXCEPT !.pc = "ready", !.wr_count = wr.wr_count + 1]
  /\ UNCHANGED <<seq, word, rd, era, span>>

(* The worker exits or is killed; the object stays. *)
Crash ==
  /\ wr.pc # "down"
  /\ wr' = Idle
  /\ UNCHANGED readerVars

WriterStep ==
  \/ Create \/ \E i \in Slots : ZeroSlot(i)
  \/ PackMagic \/ PackNSlots \/ PackSlotSize \/ PackNoFrame
  \/ Write \/ PackBusy \/ \E p \in Payload : CopyWord(p)
  \/ ClearForStable \/ PackStable \/ PackSize \/ PackStamp
  \/ ClearLatest \/ PackLatest \/ ClearCount \/ PackCount

Next ==
  \/ WriterStep
  \/ Crash
  \/ \E r \in Readers : ReaderStep(r) /\ UNCHANGED wr

Spec == Init /\ [][Next]_vars

(***************************************************************************)
(* Properties.                                                             *)
(***************************************************************************)
WriterType ==
  [pc : {"down", "zero", "magic", "nslots", "slot_size", "no_frame", "ready",
         "busy", "copy", "even", "size", "stamp", "latest0", "latest",
         "count0", "count"},
   todo : SUBSET (Slots \cup Payload), seq : Nat, wr_count : Nat]

TypeOK == RingTypeOK /\ wr \in WriterType

(* What a call that saw no frame published is worth, to a reader that did  *)
(* not map the ring while it was being initialised: all the words of one   *)
(* frame.  A copy is torn only when the writer has moved on meanwhile.  It *)
(* takes a second slot.                                                    *)
PromptReadIsWhole ==
  \A r \in Readers :
    /\ NSlots > 1 /\ wr.pc # "down"
    /\ Returned(r, "ok") /\ span[r].lo = wr.wr_count
    => Whole(rd[r].copy)
===============================================================================
