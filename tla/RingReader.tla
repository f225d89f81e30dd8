------------------------------ MODULE RingReader ------------------------------
(***************************************************************************)
(* The shared memory of one bat_ring (common/bat_ring.h) and the readers   *)
(* attached to it: bat_ring_open / bat_ring_read_latest of the C header    *)
(* and RingReader of common/bat_ring.py.  The two writers that fill such a *)
(* ring are the modules BatRing (C) and PyRing (Python); both extend this  *)
(* one.                                                                    *)
(*                                                                         *)
(* Granularity: every load or store of a header field or of a sequence     *)
(* counter is a step, also where one statement reads several of them (the  *)
(* conditions of bat_ring_open, struct.unpack_from in Python); a slot is a *)
(* set of words, each loaded and stored in a step of its own and in any    *)
(* order, so a copy can be torn anywhere.                                  *)
(* Memory is sequentially consistent at that granularity, which is what    *)
(* the acquire/release accesses and the sequentially consistent fences of  *)
(* bat_ring.h ask for; the words between two fences are not ordered.       *)
(* A word is represented by the frame whose write stored it.               *)
(***************************************************************************)
EXTENDS Integers, FiniteSets

CONSTANTS
  NSlots,       (* BAT_RING_NSLOTS, 4 in the code                        *)
  Payload,      (* the words of a slot's payload                         *)
  CReaders,     (* processes that read with bat_ring_read_latest         *)
  PyReaders,    (* processes that read with RingReader.read_latest       *)
  MaxAttempts   (* attempts of one call, 8 in the code                   *)

VARIABLES
  hdr,    (* bat_ring_hdr                                                *)
  seq,    (* the seqlock counter of every slot                           *)
  word,   (* the other words of every slot                               *)
  rd,     (* the state of every reader's call                            *)
  era,    (* history: which initialisation of the ring this is, and      *)
          (* whether it is complete                                      *)
  span    (* history: what held when each reader's call began            *)

shm == <<hdr, seq, word>>
readerVars == <<hdr, seq, word, rd, era, span>>

Readers == CReaders \cup PyReaders
Slots   == 0 .. NSlots - 1
NoFrame == -1
Meta    == {"size", "stamp"}   (* stamp: t_capture, t_publish, frame_idx *)
Words   == Meta \cup Payload

ASSUME NSlotsAssumption   == NSlots \in Nat \ {0}
ASSUME AttemptsAssumption == MaxAttempts \in Nat \ {0}
ASSUME PayloadAssumption  == Payload \cap Meta = {} /\ Payload # {}
ASSUME ReadersAssumption  == CReaders \cap PyReaders = {}

(* Content of a word: frame number idx of the ring's gen-th initialisation. *)
Content == [gen : Nat, idx : Int]
Zero    == [gen |-> 0, idx |-> 0]
Unread  == [gen |-> 0, idx |-> -1]
(* What pixels look like when they are taken for the words of a slot: no    *)
(* frame that was ever written, or zeros.                                  *)
Junk    == {Zero, Unread}

Even(n) == n % 2 = 0

EmptyHdr == [magic |-> FALSE, nslots |-> 0, slot_size |-> 0,
             latest |-> 0, wr_count |-> 0]
HdrType  == [magic : BOOLEAN, nslots : {0, NSlots}, slot_size : {0, 1},
             latest : Slots \cup {NoFrame}, wr_count : Nat]

(* A process that has not attached to the ring.  stride: the slot size its  *)
(* slot addresses are computed from, buf: the one its buffer was made for;  *)
(* fixed when a C reader opens the ring, read by Python at every attempt.   *)
Detached == [pc |-> "closed", idx |-> 0, s0 |-> 0, todo |-> {},
             copy |-> [w \in Words |-> Unread], tries |-> 0,
             rc |-> "none", last |-> Unread, stride |-> 0, buf |-> 0]
Opening  == {"open", "map", "buffer"}
InCall   == {"latest", "nslots", "slot_size", "index", "bound", "seq0",
             "meta", "data"}
ReaderType == [pc    : {"closed", "idle"} \cup Opening \cup InCall,
               idx   : Slots, s0 : Nat, todo : SUBSET Words,
               copy  : [Words -> Content], tries : Nat,
               rc    : {"none", "ok", "raced", "refused"},
               last  : Content, stride : {0, 1}, buf : {0, 1}]

(* The object as shm_open and ftruncate make it: all zero bytes. *)
RingInit ==
  /\ hdr  = EmptyHdr
  /\ seq  = [i \in Slots |-> 0]
  /\ word = [i \in Slots |-> [w \in Words |-> Zero]]
  /\ rd   = [r \in Readers |-> Detached]
  /\ era  = [gen |-> 0, up |-> FALSE]
  /\ span = [r \in Readers |-> [lo |-> 0, clean |-> FALSE]]

(***************************************************************************)
(* Reader steps.  None of them writes to shared memory.                    *)
(***************************************************************************)
(* The call is over: its locals die, the copy is the caller's. *)
Ended(c, rc, last) ==
  [pc |-> "idle", idx |-> 0, s0 |-> 0, todo |-> {}, copy |-> c.copy,
   tries |-> 0, rc |-> rc, last |-> last, stride |-> c.stride, buf |-> c.buf]

Return(r, rc) == rd' = [rd EXCEPT ![r] = Ended(rd[r], rc, rd[r].last)]

(* One more attempt: the loop's continue, or a counter that has moved. *)
Retry(r) ==
  rd' = [rd EXCEPT ![r] = [@ EXCEPT !.pc = "latest",
                                    !.tries = rd[r].tries + 1]]

Observe == UNCHANGED <<shm, era, span>>

(* Attaching: the magic, then the other fields that must be right.          *)
Open(r) ==
  /\ rd[r].pc = "closed"
  /\ hdr.magic
  /\ rd'   = [rd EXCEPT ![r].pc = "open"]
  /\ span' = [span EXCEPT ![r] = [lo |-> hdr.wr_count, clean |-> era.up]]
  /\ UNCHANGED <<shm, era>>

(* The attempt to attach is over.                                           *)
Attach(r, c) ==
  /\ rd'   = [rd EXCEPT ![r] = c]
  /\ span' = [span EXCEPT ![r].clean = FALSE]
  /\ UNCHANGED <<shm, era>>

Refuse(r) ==
  /\ rd[r].pc = "open" /\ hdr.nslots # NSlots
  /\ Attach(r, Detached)

CheckHeader(r) ==
  /\ rd[r].pc = "open" /\ hdr.nslots = NSlots
  /\ IF r \in PyReaders THEN Attach(r, [rd[r] EXCEPT !.pc = "idle"])
     ELSE rd' = [rd EXCEPT ![r].pc = "map"] /\ Observe

(* slot_stride is computed from the slot_size found now, and the buffer     *)
(* from the one found when the caller looks, unless that tells the caller   *)
(* that the ring is not what it expects.                                    *)
MapSlots(r) ==
  /\ rd[r].pc = "map"
  /\ rd' = [rd EXCEPT ![r] = [@ EXCEPT !.pc = "buffer", !.stride = hdr.slot_size]]
  /\ Observe

SizeBuffer(r) ==
  /\ rd[r].pc = "buffer"
  /\ \/ Attach(r, [rd[r] EXCEPT !.pc = "idle", !.buf = hdr.slot_size])
     \/ hdr.slot_size = 0 /\ Attach(r, Detached)

(* A C reader that mapped a ring while it was being initialised may have    *)
(* its slots in the wrong places, or no room for a frame, for good.         *)
Placed(r) == rd[r].stride = 1 /\ rd[r].buf = 1
Fits(r)   == r \in CReaders => Placed(r)

Begin(r) ==
  /\ rd[r].pc = "idle"
  /\ rd'   = [rd EXCEPT ![r] = [@ EXCEPT !.pc = "latest",
                                         !.copy = [w \in Words |-> Unread]]]
  /\ span' = [span EXCEPT ![r] = [lo |-> hdr.wr_count,
                                  clean |-> era.up /\ Fits(r)]]
  /\ UNCHANGED <<shm, era>>

GiveUpEarly(r) ==        (* mutant: the attempts are counted one short *)
  /\ rd[r].pc = "latest"
  /\ rd[r].tries >= MaxAttempts - 1
  /\ Return(r, "raced")
  /\ Observe

GiveUp(r) ==
  /\ rd[r].pc = "latest"
  /\ rd[r].tries = MaxAttempts
  /\ Return(r, "raced")
  /\ Observe

Trying(r) == rd[r].pc = "latest" /\ rd[r].tries < MaxAttempts

(* No frame yet; in Python also a header that does not validate. *)
SeeNothing(r) ==
  /\ \/ r \in CReaders /\ Trying(r) /\ hdr.latest = NoFrame
     \/ r \in PyReaders /\ Trying(r) /\ ~hdr.magic
     \/ rd[r].pc = "nslots" /\ hdr.nslots # NSlots
     \/ rd[r].pc = "index" /\ hdr.latest = NoFrame
  /\ Return(r, "none")
  /\ Observe

(* Python unpacks the header at every attempt, one field after the other,   *)
(* and works with what it found in each.                                    *)
LoadMagic(r) ==
  /\ r \in PyReaders /\ Trying(r) /\ hdr.magic
  /\ rd' = [rd EXCEPT ![r].pc = "nslots"]
  /\ Observe

LoadNSlots(r) ==
  /\ rd[r].pc = "nslots" /\ hdr.nslots = NSlots
  /\ rd' = [rd EXCEPT ![r].pc = "slot_size"]
  /\ Observe

LoadSlotSize(r) ==
  /\ rd[r].pc = "slot_size"
  /\ rd' = [rd EXCEPT ![r] = [@ EXCEPT !.pc = "index", !.stride = hdr.slot_size,
                                       !.buf = hdr.slot_size]]
  /\ Observe

PickSlot(r) ==
  /\ IF r \in PyReaders THEN rd[r].pc = "index" ELSE Trying(r)
  /\ hdr.latest # NoFrame
  /\ rd' = [rd EXCEPT ![r] =
              [@ EXCEPT !.pc = IF r \in PyReaders THEN "seq0" ELSE "bound",
                        !.idx = hdr.latest,
                        !.copy = [w \in Words |-> Unread]]]
  /\ Observe

(* idx >= hdr->nslots, which C loads again. *)
BadSlot(r) ==
  /\ rd[r].pc = "bound"
  /\ rd[r].idx >= hdr.nslots
  /\ Return(r, "refused")
  /\ Observe

GoodSlot(r) ==
  /\ rd[r].pc = "bound"
  /\ rd[r].idx < hdr.nslots
  /\ rd' = [rd EXCEPT ![r].pc = "seq0"]
  /\ Observe

(* With the wrong stride only slot 0 is where the reader looks for it; what *)
(* it takes for any other is somewhere in the pixels: any counter, any      *)
(* size, any number.                                                        *)
Astray(r) == rd[r].stride = 0 /\ rd[r].idx # 0

SlotBusy(r) ==
  /\ rd[r].pc = "seq0"
  /\ Astray(r) \/ ~Even(seq[rd[r].idx])
  /\ Retry(r)
  /\ Observe

SlotAssumedStable(r) ==  (* mutant: the odd counter is not looked at *)
  /\ rd[r].pc = "seq0"
  /\ rd' = [rd EXCEPT ![r] = [@ EXCEPT !.pc = "meta", !.todo = Meta,
                                       !.s0 = seq[rd[r].idx]]]
  /\ Observe

SlotStable(r) ==
  /\ rd[r].pc = "seq0"
  /\ Astray(r) \/ Even(seq[rd[r].idx])
  /\ rd' = [rd EXCEPT ![r] = [@ EXCEPT !.pc = "meta", !.todo = Meta,
                               !.s0 = IF Astray(r) THEN 0 ELSE seq[rd[r].idx]]]
  /\ Observe

Found(r, w) == IF Astray(r) THEN Junk ELSE {word[rd[r].idx][w]}

LoadWord(r, w) ==
  /\ rd[r].pc \in {"meta", "data"}
  /\ w \in rd[r].todo
  /\ \E c \in Found(r, w) :
       rd' = [rd EXCEPT ![r] = [@ EXCEPT !.todo = rd[r].todo \ {w}, !.copy[w] = c]]
  /\ Observe

NotNewerThanLast(r) ==   (* mutant: an older number is a duplicate too *)
  /\ r \in PyReaders
  /\ rd[r].last # Unread
  /\ rd[r].copy["stamp"].idx <= rd[r].last.idx

(* Only Python compares the frame number before it copies the payload. *)
SameAsLast(r) ==
  /\ r \in PyReaders
  /\ rd[r].last # Unread
  /\ rd[r].copy["stamp"].idx = rd[r].last.idx

(* size > bufsz, or size > hdr->slot_size, which C loads again and of which *)
(* Python has its copy; a zeroed slot has size 0.  The geometry is the same *)
(* at every initialisation, so only a header that was being rewritten when  *)
(* it was looked at is short of a frame.                                    *)
Oversize(r) ==
  /\ rd[r].copy["size"] # Zero
  /\ \/ rd[r].buf = 0
     \/ r \in CReaders /\ hdr.slot_size = 0

Duplicate(r) ==
  /\ rd[r].pc = "meta"
  /\ rd[r].todo = {}
  /\ SameAsLast(r)
  /\ Return(r, "none")
  /\ Observe

TooBig(r) ==
  /\ rd[r].pc = "meta"
  /\ rd[r].todo = {}
  /\ ~SameAsLast(r)
  /\ \/ Oversize(r)
     \/ Astray(r) /\ rd[r].copy["size"] = Unread
  /\ Return(r, "refused")
  /\ Observe

CopyPayload(r) ==
  /\ rd[r].pc = "meta"
  /\ rd[r].todo = {}
  /\ ~SameAsLast(r)
  /\ ~Oversize(r)
  /\ rd' = [rd EXCEPT ![r] =
              [@ EXCEPT !.pc = "data",
                        !.todo = IF rd[r].copy["size"] = Zero
                                   THEN {} ELSE Payload]]
  /\ Observe

SucceedUnchecked(r) ==   (* mutant: the counter is not read again *)
  /\ rd[r].pc = "data"
  /\ rd[r].todo = {}
  /\ rd' = [rd EXCEPT ![r] = Ended(rd[r], "ok", rd[r].copy["stamp"])]
  /\ Observe

Succeed(r) ==
  /\ rd[r].pc = "data"
  /\ rd[r].todo = {}
  /\ Astray(r) \/ seq[rd[r].idx] = rd[r].s0
  /\ rd' = [rd EXCEPT ![r] = Ended(rd[r], "ok", rd[r].copy["stamp"])]
  /\ Observe

Torn(r) ==
  /\ rd[r].pc = "data"
  /\ rd[r].todo = {}
  /\ Astray(r) \/ seq[rd[r].idx] # rd[r].s0
  /\ Retry(r)
  /\ Observe

(* The steps of one call once it has begun. *)
CallStep(r) ==
  \/ GiveUp(r) \/ SeeNothing(r)
  \/ LoadMagic(r) \/ LoadNSlots(r) \/ LoadSlotSize(r) \/ PickSlot(r)
  \/ BadSlot(r) \/ GoodSlot(r)
  \/ SlotBusy(r) \/ SlotStable(r)
  \/ \E w \in Words : LoadWord(r, w)
  \/ Duplicate(r) \/ TooBig(r) \/ CopyPayload(r)
  \/ Succeed(r) \/ Torn(r)

OpenStep(r) == Open(r) \/ Refuse(r) \/ CheckHeader(r) \/ MapSlots(r) \/ SizeBuffer(r)

ReaderStep(r) == OpenStep(r) \/ Begin(r) \/ CallStep(r)

(***************************************************************************)
(* Properties of a ring, whichever writer fills it.                        *)
(***************************************************************************)
RingTypeOK ==
  /\ hdr  \in HdrType
  /\ seq  \in [Slots -> Nat]
  /\ word \in [Slots -> [Words -> Content]]
  /\ rd   \in [Readers -> ReaderType]
  /\ era  \in [gen : Nat, up : BOOLEAN]
  /\ span \in [Readers -> [lo : Nat, clean : BOOLEAN]]

(* The last call of r ended with rc on a ring that was initialised when    *)
(* the call began and was not re-created while it ran, and r has its slots *)
(* in the right places.                                                    *)
Returned(r, rc) == rd[r].pc = "idle" /\ rd[r].rc = rc /\ span[r].clean

(* All words of a copy come from one frame, and of this initialisation. *)
OneFrame(copy) == \A w \in Words : copy[w] = copy["stamp"]
Whole(copy)    == OneFrame(copy) /\ copy["stamp"].gen = era.gen

(* A call that succeeds hands over one frame, whole: no word of it is from *)
(* another frame, from a slot never written or from an earlier writer      *)
(* (the seqlock claim of bat_ring.h:11-16).                                *)
NoTornFrame == \A r \in Readers : Returned(r, "ok") => Whole(rd[r].copy)

(* The frame handed over is no older than the newest one that was already  *)
(* published when the call began, and none is handed over before it is     *)
(* complete ("copy the newest complete frame", bat_ring.h:250).            *)
Freshness ==
  \A r \in Readers : Returned(r, "ok") =>
    /\ rd[r].copy["stamp"].idx >= span[r].lo - 1
    /\ rd[r].copy["stamp"].idx <= hdr.wr_count

(* A call that reports no frame has missed none: either none had been      *)
(* published when it began, or (Python) the reader has already had a frame *)
(* with the number of one that was the newest during the call.             *)
NoMissedFrame ==
  \A r \in Readers : Returned(r, "none") =>
    \/ span[r].lo = 0
    \/ /\ r \in PyReaders
       /\ rd[r].last.idx >= span[r].lo - 1
       /\ rd[r].last.idx <= hdr.wr_count

(* A call runs out of attempts only when the writer goes round the ring    *)
(* during each of them: NSlots - 1 frames published per attempt at least.  *)
RacedMeansLapped ==
  \A r \in Readers : Returned(r, "raced") =>
    hdr.wr_count >= span[r].lo + MaxAttempts * (NSlots - 1)

(* The slot named by latest holds a whole frame and is never the one being *)
(* overwritten, so neither a slow writer nor one that died at any point of *)
(* a write makes the newest frame unreadable.  It takes a second slot.     *)
LatestIsWhole ==
  era.up /\ hdr.latest # NoFrame /\ NSlots > 1 =>
    Even(seq[hdr.latest]) /\ Whole(word[hdr.latest])

(* A header that carries the magic describes the ring: "written last       *)
(* during init" (bat_ring.h:81), so that a reader that opens the ring      *)
(* computes its slots from the right geometry.                             *)
MagicIsLast == hdr.magic => hdr.nslots = NSlots /\ hdr.slot_size = 1

(* A reader's successive frames never go backwards by more than one frame: *)
(* the return of the lapping reader that saw a frame before latest named   *)
(* it (bat_ring.h:245-246).  Not so for a call that a re-initialisation    *)
(* overtakes: a Python reader that validated the header before it was      *)
(* cleared is sent to slot 0, whatever old frame is there.                 *)
BackwardsByAtMostOne ==
  [][\A r \in Readers :
       (rd'[r].rc = "ok" /\ span[r].clean /\ rd'[r].last.gen = rd[r].last.gen) =>
         rd'[r].last.idx >= rd[r].last.idx - 1]_rd

(***************************************************************************)
(* The reader's half of the inductive invariant.                           *)
(***************************************************************************)
(* A word of this initialisation, numbered between from and wr_count. *)
Within(c, from) ==
  c.gen = era.gen /\ c.idx >= from /\ c.idx <= hdr.wr_count

HeaderUp ==
  era.up => /\ hdr.magic
            /\ hdr.nslots = NSlots
            /\ hdr.slot_size = 1
            /\ era.gen > 0
            /\ hdr.latest = NoFrame => hdr.wr_count = 0

(* What the slots hold once the ring is up. *)
SlotsOK ==
  era.up =>
    \A i \in Slots :
      /\ Even(seq[i]) => OneFrame(word[i])
      /\ \A w \in Words : word[i][w].idx <= hdr.wr_count
      /\ i = hdr.latest =>
           \A w \in Words : Within(word[i][w], hdr.wr_count - 1)

Picked(r)  == rd[r].pc \in {"bound", "seq0", "meta", "data"}
Copying(r) == rd[r].pc \in {"meta", "data"}

(* The words of the copy that have been loaded in this attempt. *)
Loaded(r) == (IF rd[r].pc = "meta" THEN Meta ELSE Words) \ rd[r].todo

SpanOK(r) ==
  span[r].clean =>
    rd[r].pc # "closed" /\ era.up /\ span[r].lo <= hdr.wr_count

(* A ring that is up is mapped as it is. *)
FitOK(r) ==
  span[r].clean =>
    /\ rd[r].pc \notin Opening => Fits(r)
    /\ rd[r].pc = "buffer" => rd[r].stride = 1
    /\ rd[r].pc = "index" \/ Picked(r) => Placed(r)

(* The chosen slot has been written, and only newer frames replace it. *)
SlotFresh(r) ==
  span[r].clean /\ Picked(r) =>
    \A w \in Words : Within(word[rd[r].idx][w], span[r].lo - 1)

(* As long as the counter has not moved, what is loaded is what is there. *)
CopyOK(r) ==
  span[r].clean /\ Copying(r) =>
    /\ Even(rd[r].s0)
    /\ rd[r].s0 <= seq[rd[r].idx]
    /\ rd[r].pc = "meta" => rd[r].todo \subseteq Meta
    /\ \A w \in Loaded(r) :
         /\ Within(rd[r].copy[w], span[r].lo - 1)
         /\ seq[rd[r].idx] = rd[r].s0 => rd[r].copy[w] = word[rd[r].idx][w]

ResultOK(r) ==
  /\ Returned(r, "ok") =>
       Whole(rd[r].copy) /\ Within(rd[r].copy["stamp"], span[r].lo - 1)
  /\ Returned(r, "none") =>
       \/ span[r].lo = 0
       \/ /\ r \in PyReaders
          /\ rd[r].last.idx >= span[r].lo - 1
          /\ rd[r].last.idx <= hdr.wr_count

ReaderOK(r) == SpanOK(r) /\ FitOK(r) /\ SlotFresh(r) /\ CopyOK(r) /\ ResultOK(r)
===============================================================================
