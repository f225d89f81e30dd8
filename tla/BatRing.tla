------------------------------- MODULE BatRing --------------------------------
(***************************************************************************)
(* One bat_ring written by the C side: bat_ring_create, write_begin and    *)
(* write_end of common/bat_ring.h as the capture daemon calls them, with   *)
(* the readers of RingReader.  The writer process may die between any two  *)
(* steps (the rings are never unlinked) and a later process may            *)
(* re-initialise the same object under the attached readers.               *)
(***************************************************************************)
EXTENDS RingReader

CONSTANTS
  MaxFrames,    (* bound: frames written per initialisation              *)
  MaxGen        (* bound: initialisations of the ring                    *)

ASSUME BoundsAssumption == MaxFrames \in Nat /\ MaxGen \in Nat

VARIABLE wr     (* the writer: its program counter and what is left to   *)
                (* store in its current phase                            *)

vars == <<hdr, seq, word, rd, era, span, wr>>

Fields == {"nslots", "slot_size", "latest"}

WriterTypeOK ==
  /\ wr = [pc |-> wr.pc, todo |-> wr.todo]
  /\ wr.pc \in {"down", "memset", "fields", "ready", "copy", "latest", "count"}
  /\ wr.todo \subseteq CASE wr.pc = "memset" -> Slots
                         [] wr.pc = "fields" -> Fields
                         [] wr.pc = "copy"   -> Words
                         [] OTHER            -> {}

Init == RingInit /\ wr = [pc |-> "down", todo |-> {}]

(* The frame being written, and the slot it goes to. *)
Current == [gen |-> era.gen, idx |-> hdr.wr_count]
CursorTwice == (hdr.wr_count \div 2) % NSlots  (* mutant: each slot twice *)
Cursor  == hdr.wr_count % NSlots

WriterAt(pc) == wr.pc = pc /\ UNCHANGED rd
Goto(pc, todo) == wr' = [pc |-> pc, todo |-> todo]

(***************************************************************************)
(* bat_ring_create.  The definitions marked "mutant", here and in the      *)
(* other modules, are plausible bugs that the properties are tried on;     *)
(* nothing uses them.                                                      *)
(***************************************************************************)
(* memset(p, 0, sz) reaches the header first. *)
Create ==
  /\ WriterAt("down")
  /\ era.gen < MaxGen
  /\ hdr'  = EmptyHdr
  /\ era'  = [gen |-> era.gen + 1, up |-> FALSE]
  /\ span' = [r \in Readers |-> [span[r] EXCEPT !.clean = FALSE]]
  /\ Goto("memset", Slots)
  /\ UNCHANGED <<seq, word>>

MemsetSlot(i) ==
  /\ WriterAt("memset")
  /\ i \in wr.todo
  /\ seq'  = [seq EXCEPT ![i] = 0]
  /\ word' = [word EXCEPT ![i] = [w \in Words |-> Zero]]
  /\ LET left == wr.todo \ {i}
     IN  IF left = {} THEN Goto("fields", Fields) ELSE Goto("memset", left)
  /\ UNCHANGED <<hdr, era, span>>

(* Plain stores: nothing orders them but the release of the magic. *)
FillField(f) ==
  /\ WriterAt("fields")
  /\ f \in wr.todo
  /\ hdr' = [hdr EXCEPT ![f] = CASE f = "nslots"    -> NSlots
                                 [] f = "slot_size" -> 1
                                 [] f = "latest"    -> NoFrame]
  /\ Goto("fields", wr.todo \ {f})
  /\ UNCHANGED <<seq, word, era, span>>

SetMagicEarly ==         (* mutant: nothing orders the magic after them *)
  /\ WriterAt("fields")
  /\ hdr' = [hdr EXCEPT !.magic = TRUE]
  /\ era' = [era EXCEPT !.up = TRUE]
  /\ Goto("ready", {})
  /\ UNCHANGED <<seq, word, span>>

SetMagic ==
  /\ WriterAt("fields")
  /\ wr.todo = {}
  /\ hdr' = [hdr EXCEPT !.magic = TRUE]
  /\ era' = [era EXCEPT !.up = TRUE]
  /\ Goto("ready", {})
  /\ UNCHANGED <<seq, word, span>>

(***************************************************************************)
(* bat_ring_write_begin, the caller's copy, bat_ring_write_end.            *)
(***************************************************************************)
WriteBegin ==
  /\ WriterAt("ready")
  /\ hdr.wr_count < MaxFrames
  /\ seq' = [seq EXCEPT ![Cursor] = @ + 1]
  /\ Goto("copy", Words)
  /\ UNCHANGED <<hdr, word, era, span>>

(* Payload and metadata are plain stores between the two fences. *)
StoreWord(w) ==
  /\ WriterAt("copy")
  /\ w \in wr.todo
  /\ word' = [word EXCEPT ![Cursor][w] = Current]
  /\ Goto("copy", wr.todo \ {w})
  /\ UNCHANGED <<hdr, seq, era, span>>

MarkStable ==
  /\ WriterAt("copy")
  /\ wr.todo = {}
  /\ seq' = [seq EXCEPT ![Cursor] = @ + 1]
  /\ Goto("latest", {})
  /\ UNCHANGED <<hdr, word, era, span>>

SetLatestToCount ==      (* mutant: the count is stored, not the slot *)
  /\ WriterAt("latest")
  /\ hdr' = [hdr EXCEPT !.latest = hdr.wr_count]
  /\ Goto("count", {})
  /\ UNCHANGED <<seq, word, era, span>>

SetLatestToNext ==       (* mutant: the slot after the one written *)
  /\ WriterAt("latest")
  /\ hdr' = [hdr EXCEPT !.latest = (Cursor + 1) % NSlots]
  /\ Goto("count", {})
  /\ UNCHANGED <<seq, word, era, span>>

SetLatest ==
  /\ WriterAt("latest")
  /\ hdr' = [hdr EXCEPT !.latest = Cursor]
  /\ Goto("count", {})
  /\ UNCHANGED <<seq, word, era, span>>

SetCount ==
  /\ WriterAt("count")
  /\ hdr' = [hdr EXCEPT !.wr_count = @ + 1]
  /\ Goto("ready", {})
  /\ UNCHANGED <<seq, word, era, span>>

(* The writer exits or is killed; bat_ring_close leaves the object alone. *)
Crash ==
  /\ wr.pc # "down"
  /\ Goto("down", {})
  /\ UNCHANGED readerVars

WriterStep ==
  \/ Create \/ (\E i \in Slots : MemsetSlot(i))
  \/ (\E f \in Fields : FillField(f)) \/ SetMagic
  \/ WriteBegin \/ (\E w \in Words : StoreWord(w)) \/ MarkStable
  \/ SetLatest \/ SetCount

Next ==
  \/ WriterStep
  \/ Crash
  \/ \E r \in Readers : ReaderStep(r) /\ UNCHANGED wr

Spec == Init /\ [][Next]_vars

(* Every consumer polls its ring from an endless loop (the viewfinder's    *)
(* frame loop, the audio loop, the workers' while True), so each reader    *)
(* keeps taking steps.  Nothing is assumed of the writer.                  *)
FairSpec == Spec /\ \A r \in Readers : WF_vars(ReaderStep(r) /\ UNCHANGED wr)

(***************************************************************************)
(* Properties.                                                             *)
(***************************************************************************)
TypeOK == RingTypeOK /\ WriterTypeOK

(* The ring is a FrameRegister: a frame is visible from the moment its     *)
(* slot's counter is even again, two stores before it is published.        *)
CompleteFrames ==
  IF /\ era.up
     /\ Even(seq[Cursor])
     /\ word[Cursor]["stamp"] = Current
  THEN hdr.wr_count + 1
  ELSE hdr.wr_count

(* A call in progress, what the last one returned, and whether the reader  *)
(* has mapped the slots where they are. *)
Standing(r) == CASE rd[r].pc = "closed"    -> "away"
                 [] rd[r].pc \in Opening   -> "attaching"
                 [] rd[r].pc = "idle"      -> "idle"
                 [] rd[r].pc \in InCall    -> "busy"
Attached(r) == rd[r].pc = "idle" \/ rd[r].pc \in InCall
CallOf(r)   == [at |-> Standing(r), lo |-> span[r].lo, clean |-> span[r].clean,
                rc |-> rd[r].rc, got |-> rd[r].last,
                fit |-> Attached(r) /\ Fits(r)]

Calls == [r \in Readers |-> CallOf(r)]

Register == INSTANCE FrameRegister WITH
  Dedup     <- PyReaders,
  Frames    <- [gen : 0 .. MaxGen, idx : -1 .. MaxFrames],
  Patience  <- MaxAttempts * (NSlots - 1),
  epoch     <- era.gen,
  live      <- era.up,
  published <- hdr.wr_count,
  visible   <- CompleteFrames,
  call      <- Calls

(* bat_ring implements the latest-frame-wins register it is documented as  *)
(* (bat_ring.h:4-16): every step of writer, readers, crash and restart is  *)
(* a step of the register or none.                                         *)
ImplementsRegister == Register!Spec

(* A writer that stays dead does not take its last frame with it: wherever *)
(* it died, every reader goes on obtaining frames ("readers can attach at  *)
(* any time", bat_ring.h:216), unless it mapped the ring while it was      *)
(* being re-created and has its slots in the wrong places.                 *)
ReadableAfterCrash ==
  \A r \in CReaders :
    <>[]( /\ wr.pc = "down" /\ era.up /\ hdr.latest # NoFrame
          /\ Attached(r) => Fits(r) )
      => []<>(rd[r].pc = "idle" /\ rd[r].rc = "ok" /\ Whole(rd[r].copy))

(* The claim of bat_ring.h:167-168 and 216-217 taken at its word: a call   *)
(* that succeeds returns a complete frame, re-initialisation or not.       *)
NoFrameOutOfThinAir ==
  \A r \in Readers : rd[r].pc = "idle" /\ rd[r].rc = "ok" =>
    OneFrame(rd[r].copy) /\ rd[r].copy["stamp"] # Zero

(***************************************************************************)
(* The writer's half of the inductive invariant.                           *)
(***************************************************************************)
Writing == {"ready", "copy", "latest", "count"}

(* The ring is up exactly while, or after, a writer is past SetMagic. *)
PhaseOK ==
  /\ wr.pc \in Writing => era.up
  /\ wr.pc \in {"memset", "fields"} =>
       ~era.up /\ era.gen > 0 /\ hdr.wr_count = 0

Cleared(i) == seq[i] = 0 /\ \A w \in Words : word[i][w] = Zero

InitialisingOK ==
  /\ wr.pc = "memset" => \A i \in Slots \ wr.todo : Cleared(i)
  /\ wr.pc = "fields" =>
       /\ \A i \in Slots : Cleared(i)
       /\ "nslots" \notin wr.todo => hdr.nslots = NSlots
       /\ "slot_size" \notin wr.todo => hdr.slot_size = 1
       /\ "latest" \notin wr.todo => hdr.latest = NoFrame

(* The slot being written is the only one with an odd counter. *)
WritingOK ==
  /\ wr.pc \in {"ready", "latest", "count"} => \A i \in Slots : Even(seq[i])
  /\ wr.pc = "copy" =>
       /\ \A i \in Slots : Even(seq[i]) <=> i # Cursor
       /\ \A w \in Words \ wr.todo : word[Cursor][w] = Current
  /\ wr.pc \in {"latest", "count"} =>
       \A w \in Words : word[Cursor][w] = Current
  /\ wr.pc = "count" => hdr.latest = Cursor

Inv ==
  /\ TypeOK
  /\ PhaseOK /\ InitialisingOK /\ WritingOK
  /\ HeaderUp /\ SlotsOK
  /\ \A r \in Readers : ReaderOK(r)
===============================================================================
