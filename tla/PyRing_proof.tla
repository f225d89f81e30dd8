----------------------------- MODULE PyRing_proof -----------------------------
(***************************************************************************)
(* The Python ring for every number of slots, payload words, readers,      *)
(* attempts, frames and restarts.  Its counters are cleared before each    *)
(* store, so they do not grow and the readers' half of the C ring's        *)
(* invariant does not hold here; what does is that the writer stores to no *)
(* slot but the one at its cursor, and that a call during which no frame   *)
(* is completed reads a settled slot.                                      *)
(***************************************************************************)
EXTENDS PyRing, RingReader_proof

USE NSlotsAssumption, PayloadAssumption, BoundsAssumption

-------------------------------------------------------------------------------
(* The inductive invariant.                                                *)
Starting == wr.pc \in {"zero", "magic", "nslots", "slot_size", "no_frame"}
Active   == era.up /\ wr.pc # "down"
Finished == wr.pc \in {"latest0", "latest", "count0", "count"}

(* The initialisation leaves every counter and wr_count at zero. *)
PhaseOK ==
  /\ Starting => ~era.up /\ hdr.wr_count = 0 /\ wr.wr_count = 0
  /\ wr.pc = "zero" => \A i \in Slots \ wr.todo : seq[i] = 0
  /\ Starting /\ wr.pc # "zero" => \A i \in Slots : seq[i] = 0
  /\ wr.pc # "down" /\ ~Starting => era.up
  /\ wr.pc # "down" \/ era.up => era.gen > 0
  /\ Active => hdr.wr_count \in {0, wr.wr_count}

(* A ring that is up has its geometry. *)
GeometryOK == wr.pc = "no_frame" \/ era.up => hdr.slot_size = 1

(* The slots that hold a frame nobody is writing. *)
Settled(i) == IF i = Cursor THEN Finished
              ELSE i < wr.wr_count \/ wr.wr_count >= NSlots

CountersOK ==
  Active =>
    /\ \A i \in Slots \ {Cursor} : Even(seq[i])
    /\ wr.pc \notin {"copy", "even"} => Even(seq[Cursor])
    /\ wr.pc \in {"busy", "copy", "even"} => Even(wr.seq)

(* What write() has stored so far of the frame it is writing. *)
ProgressOK ==
  Active =>
    /\ wr.pc = "copy" =>
         \A p \in Payload \ wr.todo : word[Cursor][p] = Current
    /\ wr.pc \in {"even", "size", "stamp"} =>
         \A p \in Payload : word[Cursor][p] = Current
    /\ wr.pc = "stamp" => word[Cursor]["size"] = Current

SettledOK == Active => \A i \in Slots : Settled(i) => Whole(word[i])

LatestOK ==
  Active =>
    /\ wr.pc \in {"count0", "count"} => hdr.latest = Cursor
    /\ hdr.latest = NoFrame => wr.wr_count = 0
    /\ hdr.latest # NoFrame => Settled(hdr.latest)

(* A call that has seen no frame completed. *)
Prompt(r) == span[r].clean /\ wr.pc # "down" /\ span[r].lo = wr.wr_count

CleanOK(r) ==
  span[r].clean => /\ rd[r].pc # "closed" /\ era.up
                   /\ wr.pc # "down" => span[r].lo <= wr.wr_count

PromptOK(r) ==
  Prompt(r) =>
    /\ Picked(r) => Settled(rd[r].idx)
    /\ rd[r].pc = "meta" => rd[r].todo \subseteq Meta
    /\ Copying(r) => \A w \in Loaded(r) : rd[r].copy[w] = word[rd[r].idx][w]
    /\ rd[r].pc = "idle" /\ rd[r].rc = "ok" => Whole(rd[r].copy)

WriterOK == TypeOK /\ PhaseOK /\ CountersOK /\ ProgressOK /\ SettledOK

Inv == /\ WriterOK /\ GeometryOK
       /\ NSlots > 1 => /\ LatestOK /\ LatestIsWhole
                        /\ \A r \in Readers :
                             CleanOK(r) /\ FitOK(r) /\ PromptOK(r)

-------------------------------------------------------------------------------
(***************************************************************************)
(* Types.                                                                  *)
(***************************************************************************)
LEMMA CursorInRing ==
  ASSUME TypeOK
  PROVE  Cursor \in Slots
<1>1. wr.wr_count \in Nat /\ NSlots \in Nat /\ NSlots > 0
  BY DEF TypeOK, WriterType
<1> QED  BY <1>1, Remainder DEF Cursor, Slots

LEMMA CurrentContent ==
  ASSUME TypeOK
  PROVE  Current \in Content /\ Zero \in Content
<1>1. wr.wr_count \in Nat /\ era.gen \in Nat
  BY DEF TypeOK, RingTypeOK, WriterType
<1> QED  BY <1>1 DEF Current, Content, Zero

LEMMA EmptyTypes == EmptyHdr \in HdrType /\ Detached \in ReaderType
<1>0. 0 \in Slots  BY DEF Slots
<1>1. Unread \in Content  BY DEF Unread, Content
<1>2. EmptyHdr \in HdrType  BY <1>0 DEF EmptyHdr, HdrType
<1>3. Detached \in ReaderType  BY <1>0, <1>1 DEF Detached, ReaderType
<1> QED  BY <1>2, <1>3

(* A step that only moves the program counter on. *)
LEMMA StepFields ==
  ASSUME TypeOK, NEW from, NEW to, Step(from, to)
  PROVE  /\ wr.pc = from /\ wr'.pc = to /\ wr'.todo = wr.todo
         /\ wr'.seq = wr.seq /\ wr'.wr_count = wr.wr_count
         /\ Cursor' = Cursor /\ rd' = rd /\ span' = span
<1>1. wr \in WriterType /\ wr' = [wr EXCEPT !.pc = to] /\ wr.pc = from
  BY DEF Step, TypeOK
<1>2. /\ wr'.pc = to /\ wr'.todo = wr.todo
      /\ wr'.seq = wr.seq /\ wr'.wr_count = wr.wr_count
  BY <1>1 DEF WriterType
<1> QED  BY <1>1, <1>2 DEF Step, Cursor

LEMMA StepTyping ==
  ASSUME TypeOK, NEW from,
         NEW to \in {"nslots", "slot_size", "no_frame", "ready", "even", "size",
                     "stamp", "latest0", "latest", "count0", "count"},
         Step(from, to)
  PROVE  wr' \in WriterType
BY DEF Step, TypeOK, WriterType

(* What clearing the cursor's slot header leaves in memory. *)
LEMMA ClearTyping ==
  ASSUME TypeOK, ClearSlotHdr
  PROVE  /\ seq' \in [Slots -> Nat]
         /\ word' \in [Slots -> [Words -> Content]]
         /\ hdr' = hdr /\ era' = era
<1>1. /\ seq \in [Slots -> Nat] /\ word \in [Slots -> [Words -> Content]]
      /\ Cursor \in Slots /\ Zero \in Content
  BY CursorInRing, CurrentContent DEF TypeOK, RingTypeOK
<1>2. [w \in Words |-> IF w \in Meta THEN Zero ELSE word[Cursor][w]]
        \in [Words -> Content]
  BY <1>1
<1> QED  BY <1>1, <1>2 DEF ClearSlotHdr

LEMMA WriterTyping ==
  ASSUME TypeOK, WriterStep \/ Crash
  PROVE  TypeOK'
<1> USE DEF TypeOK
<1>t. RingTypeOK /\ wr \in WriterType /\ hdr \in HdrType
  BY DEF RingTypeOK
<1>c. Cursor \in Slots /\ Current \in Content /\ Zero \in Content
  BY CursorInRing, CurrentContent
<1>1. CASE Create
  <2>1. hdr' \in HdrType  BY <1>1, EmptyTypes DEF Create
  <2>2. era' \in [gen : Nat, up : BOOLEAN]
    BY <1>1 DEF Create, RingTypeOK
  <2>3. span' \in [Readers -> [lo : Nat, clean : BOOLEAN]]
    BY <1>1 DEF Create, RingTypeOK
  <2>4. wr' \in WriterType
    <3>1. wr' = [pc |-> "zero", todo |-> Slots, seq |-> 0, wr_count |-> 0]
      BY <1>1 DEF Create, Idle
    <3> QED  BY <3>1 DEF WriterType
  <2> QED  BY <1>1, <2>1, <2>2, <2>3, <2>4 DEF Create, RingTypeOK
<1>2. ASSUME NEW i \in Slots, ZeroSlot(i)  PROVE TypeOK'
  <2>1. /\ seq' \in [Slots -> Nat]
        /\ word' \in [Slots -> [Words -> Content]]
    BY <1>2, <1>c DEF ZeroSlot, RingTypeOK
  <2>2. wr' \in WriterType
    <3> DEFINE to == IF wr.todo = {i} THEN "magic" ELSE "zero"
    <3>1. wr' = [wr EXCEPT !.todo = wr.todo \ {i}, !.pc = to]
      BY <1>2 DEF ZeroSlot
    <3>2. to \in {"magic", "zero"}  OBVIOUS
    <3>3. wr.todo \ {i} \in SUBSET (Slots \cup Payload)
      BY <1>t DEF WriterType
    <3> HIDE DEF to
    <3> QED  BY <3>1, <3>2, <3>3, <1>t DEF WriterType
  <2> QED  BY <1>2, <2>1, <2>2 DEF ZeroSlot, RingTypeOK
<1>3. CASE PackMagic
  <2>1. wr' \in WriterType  BY <1>3, StepTyping DEF PackMagic
  <2>2. hdr' \in HdrType  BY <1>3, <1>t DEF PackMagic, HdrType
  <2> QED  BY <1>3, <2>1, <2>2 DEF PackMagic, Step, RingTypeOK
<1>4. CASE PackNSlots
  <2>1. wr' \in WriterType  BY <1>4, StepTyping DEF PackNSlots
  <2>2. hdr' \in HdrType  BY <1>4, <1>t DEF PackNSlots, HdrType
  <2> QED  BY <1>4, <2>1, <2>2 DEF PackNSlots, Step, RingTypeOK
<1>5. CASE PackSlotSize
  <2>1. wr' \in WriterType  BY <1>5, StepTyping DEF PackSlotSize
  <2>2. hdr' \in HdrType  BY <1>5, <1>t DEF PackSlotSize, HdrType
  <2> QED  BY <1>5, <2>1, <2>2 DEF PackSlotSize, Step, RingTypeOK
<1>6. CASE PackNoFrame
  <2>1. wr' \in WriterType  BY <1>6, StepTyping DEF PackNoFrame
  <2>2. hdr' \in HdrType  BY <1>6, <1>t DEF PackNoFrame, HdrType
  <2>3. era' \in [gen : Nat, up : BOOLEAN]
    BY <1>6 DEF PackNoFrame, RingTypeOK
  <2> QED  BY <1>6, <2>1, <2>2, <2>3 DEF PackNoFrame, Step, RingTypeOK
<1>7. CASE Write
  <2>1. wr' \in WriterType
    <3>1. seq[Cursor] \in Nat  BY <1>c DEF RingTypeOK
    <3>2. wr' = [wr EXCEPT !.pc = "busy", !.seq = seq[Cursor]]
      BY <1>7 DEF Write
    <3> QED  BY <3>1, <3>2, <1>t DEF WriterType
  <2>2. ClearSlotHdr /\ rd' = rd /\ span' = span  BY <1>7 DEF Write
  <2> QED  BY <2>1, <2>2, ClearTyping DEF RingTypeOK
<1>8. CASE PackBusy
  <2>1. wr' \in WriterType
    <3>1. wr' = [wr EXCEPT !.pc = "copy", !.todo = Payload]
      BY <1>8 DEF PackBusy
    <3>2. Payload \in SUBSET (Slots \cup Payload)  OBVIOUS
    <3> QED  BY <3>1, <3>2, <1>t DEF WriterType
  <2>2. seq' \in [Slots -> Nat]
    <3>1. wr.seq + 1 \in Nat  BY <1>t DEF WriterType
    <3> QED  BY <3>1, <1>8 DEF PackBusy, RingTypeOK
  <2> QED  BY <1>8, <2>1, <2>2 DEF PackBusy, RingTypeOK
<1>9. ASSUME NEW p \in Payload, CopyWord(p)  PROVE TypeOK'
  <2>1. word' \in [Slots -> [Words -> Content]]
    BY <1>9, <1>c DEF CopyWord, RingTypeOK
  <2>2. wr' \in WriterType
    <3>1. wr' = [wr EXCEPT !.todo = wr.todo \ {p}]  BY <1>9 DEF CopyWord
    <3>2. wr.todo \ {p} \in SUBSET (Slots \cup Payload)
      BY <1>t DEF WriterType
    <3> QED  BY <3>1, <3>2, <1>t DEF WriterType
  <2> QED  BY <1>9, <2>1, <2>2 DEF CopyWord, RingTypeOK
<1>10. CASE ClearForStable
  <2>1. wr' \in WriterType  BY <1>10, StepTyping DEF ClearForStable
  <2>2. ClearSlotHdr /\ rd' = rd /\ span' = span
    BY <1>10 DEF ClearForStable, Step
  <2> QED  BY <2>1, <2>2, ClearTyping DEF RingTypeOK
<1>11. CASE PackStable
  <2>1. wr' \in WriterType  BY <1>11, StepTyping DEF PackStable
  <2>2. seq' \in [Slots -> Nat]
    <3>1. wr.seq + 2 \in Nat  BY <1>t DEF WriterType
    <3> QED  BY <3>1, <1>11 DEF PackStable, RingTypeOK
  <2> QED  BY <1>11, <2>1, <2>2 DEF PackStable, Step, RingTypeOK
<1>12. CASE PackSize
  <2>1. wr' \in WriterType  BY <1>12, StepTyping DEF PackSize
  <2>2. word' \in [Slots -> [Words -> Content]]
    BY <1>12, <1>c DEF PackSize, RingTypeOK
  <2> QED  BY <1>12, <2>1, <2>2 DEF PackSize, Step, RingTypeOK
<1>13. CASE PackStamp
  <2>1. wr' \in WriterType  BY <1>13, StepTyping DEF PackStamp
  <2>2. word' \in [Slots -> [Words -> Content]]
    BY <1>13, <1>c DEF PackStamp, RingTypeOK
  <2> QED  BY <1>13, <2>1, <2>2 DEF PackStamp, Step, RingTypeOK
<1>14. CASE ClearLatest
  <2>1. wr' \in WriterType  BY <1>14, StepTyping DEF ClearLatest
  <2>2. 0 \in Slots  BY DEF Slots
  <2>3. hdr' \in HdrType  BY <1>14, <2>2, <1>t DEF ClearLatest, HdrType
  <2> QED  BY <1>14, <2>1, <2>3 DEF ClearLatest, Step, RingTypeOK
<1>15. CASE PackLatest
  <2>1. wr' \in WriterType  BY <1>15, StepTyping DEF PackLatest
  <2>2. hdr' = [hdr EXCEPT !.latest = Cursor]  BY <1>15 DEF PackLatest
  <2>3. hdr' \in HdrType  BY <2>2, <1>c, <1>t DEF HdrType
  <2> QED  BY <1>15, <2>1, <2>3 DEF PackLatest, Step, RingTypeOK
<1>16. CASE ClearCount
  <2>1. wr' \in WriterType  BY <1>16, StepTyping DEF ClearCount
  <2>2. hdr' \in HdrType  BY <1>16, <1>t DEF ClearCount, HdrType
  <2> QED  BY <1>16, <2>1, <2>2 DEF ClearCount, Step, RingTypeOK
<1>17. CASE PackCount
  <2>1. wr.wr_count + 1 \in Nat  BY <1>t DEF WriterType
  <2>2. hdr' \in HdrType
    BY <1>17, <2>1, <1>t DEF PackCount, HdrType
  <2>3. wr' \in WriterType
    BY <1>17, <2>1, <1>t DEF PackCount, WriterType
  <2> QED  BY <1>17, <2>2, <2>3 DEF PackCount, RingTypeOK
<1>18. CASE Crash
  BY <1>18 DEF Crash, Idle, readerVars, RingTypeOK, WriterType
<1> QED
  BY <1>1, <1>2, <1>3, <1>4, <1>5, <1>6, <1>7, <1>8, <1>9, <1>10, <1>11,
     <1>12, <1>13, <1>14, <1>15, <1>16, <1>17, <1>18 DEF WriterStep

LEMMA Typing ==
  ASSUME TypeOK, [Next]_vars
  PROVE  TypeOK'
<1>1. CASE WriterStep \/ Crash  BY <1>1, WriterTyping
<1>2. CASE \E r \in Readers : ReaderStep(r) /\ UNCHANGED wr
  BY <1>2, ReaderTyping DEF TypeOK
<1>3. CASE UNCHANGED vars  BY <1>3 DEF vars, TypeOK, RingTypeOK
<1> QED  BY <1>1, <1>2, <1>3 DEF Next

-------------------------------------------------------------------------------
(***************************************************************************)
(* The writer's half.                                                      *)
(***************************************************************************)
(* The cursor stays where it is but for the steps that count a frame.      *)
LEMMA WriterFields ==
  ASSUME TypeOK
  PROVE  /\ Create => /\ wr' = [pc |-> "zero", todo |-> Slots, seq |-> 0,
                               wr_count |-> 0]
                     /\ era'.gen = era.gen + 1 /\ ~era'.up
                     /\ \A r \in Readers : ~span'[r].clean
         /\ Crash => wr'.pc = "down" /\ era' = era
         /\ Write => /\ wr'.pc = "busy" /\ wr'.seq = seq[Cursor]
                    /\ wr'.wr_count = wr.wr_count /\ Cursor' = Cursor
         /\ PackBusy => /\ wr'.pc = "copy" /\ wr'.todo = Payload
                       /\ wr'.seq = wr.seq /\ wr'.wr_count = wr.wr_count
                       /\ Cursor' = Cursor
         /\ PackCount => wr'.pc = "ready" /\ wr'.wr_count = wr.wr_count + 1
<1>1. wr \in WriterType /\ era \in [gen : Nat, up : BOOLEAN]
  BY DEF TypeOK, RingTypeOK
<1>2. ASSUME Create
      PROVE  /\ wr' = [pc |-> "zero", todo |-> Slots, seq |-> 0,
                       wr_count |-> 0]
             /\ era'.gen = era.gen + 1 /\ ~era'.up
             /\ \A r \in Readers : ~span'[r].clean
  BY <1>1, <1>2 DEF Create, Idle, TypeOK, RingTypeOK
<1>3. ASSUME Crash  PROVE wr'.pc = "down" /\ era' = era
  BY <1>3 DEF Crash, Idle, readerVars
<1>4. ASSUME Write
      PROVE  /\ wr'.pc = "busy" /\ wr'.seq = seq[Cursor]
             /\ wr'.wr_count = wr.wr_count /\ Cursor' = Cursor
  <2>1. wr'.wr_count = wr.wr_count  BY <1>1, <1>4 DEF Write, WriterType
  <2> QED  BY <2>1, <1>1, <1>4 DEF Write, WriterType, Cursor
<1>5. ASSUME PackBusy
      PROVE  /\ wr'.pc = "copy" /\ wr'.todo = Payload
             /\ wr'.seq = wr.seq /\ wr'.wr_count = wr.wr_count
             /\ Cursor' = Cursor
  <2>1. wr'.wr_count = wr.wr_count  BY <1>1, <1>5 DEF PackBusy, WriterType
  <2> QED  BY <2>1, <1>1, <1>5 DEF PackBusy, WriterType, Cursor
<1>6. ASSUME PackCount
      PROVE  wr'.pc = "ready" /\ wr'.wr_count = wr.wr_count + 1
  BY <1>1, <1>6 DEF PackCount, WriterType
<1> QED  BY <1>2, <1>3, <1>4, <1>5, <1>6

LEMMA CopyFields ==
  ASSUME TypeOK, NEW p \in Payload, CopyWord(p)
  PROVE  /\ wr.pc = "copy" /\ wr'.pc = "copy" /\ wr'.todo = wr.todo \ {p}
         /\ wr'.seq = wr.seq /\ wr'.wr_count = wr.wr_count
         /\ Cursor' = Cursor
<1>1. wr \in WriterType /\ wr' = [wr EXCEPT !.todo = wr.todo \ {p}]
      /\ wr.pc = "copy"
  BY DEF TypeOK, CopyWord
<1>2. /\ wr'.pc = wr.pc /\ wr'.todo = wr.todo \ {p}
      /\ wr'.seq = wr.seq /\ wr'.wr_count = wr.wr_count
  BY <1>1 DEF WriterType
<1> QED  BY <1>1, <1>2 DEF Cursor

LEMMA ZeroFields ==
  ASSUME TypeOK, NEW i \in Slots, ZeroSlot(i)
  PROVE  /\ wr.pc = "zero" /\ i \in wr.todo /\ wr'.todo = wr.todo \ {i}
         /\ wr'.pc = IF wr.todo = {i} THEN "magic" ELSE "zero"
         /\ wr'.wr_count = wr.wr_count
<1> DEFINE to == IF wr.todo = {i} THEN "magic" ELSE "zero"
<1>1. wr \in WriterType /\ wr.pc = "zero" /\ i \in wr.todo
      /\ wr' = [wr EXCEPT !.todo = wr.todo \ {i}, !.pc = to]
  BY DEF TypeOK, ZeroSlot
<1> HIDE DEF to
<1>2. wr'.todo = wr.todo \ {i} /\ wr'.pc = to /\ wr'.wr_count = wr.wr_count
  BY <1>1 DEF WriterType
<1> QED  BY <1>1, <1>2 DEF to

LEMMA WriterPhase ==
  ASSUME TypeOK, PhaseOK, WriterStep \/ Crash
  PROVE  PhaseOK'
<1> USE DEF PhaseOK, Starting, Active
<1>t. /\ hdr \in HdrType /\ seq \in [Slots -> Nat] /\ wr \in WriterType
      /\ era \in [gen : Nat, up : BOOLEAN]
  BY DEF TypeOK, RingTypeOK
<1>1. CASE Create
  <2>1. hdr'.wr_count = 0  BY <1>1 DEF Create, EmptyHdr
  <2>2. era'.gen > 0  BY <1>1, <1>t, WriterFields
  <2>3. wr'.todo = Slots /\ wr'.pc = "zero" /\ wr'.wr_count = 0 /\ ~era'.up
    BY <1>1, WriterFields
  <2> QED  BY <2>1, <2>2, <2>3
<1>2. ASSUME NEW i \in Slots, ZeroSlot(i)  PROVE PhaseOK'
  <2>1. hdr' = hdr /\ era' = era /\ seq' = [seq EXCEPT ![i] = 0]
    BY <1>2 DEF ZeroSlot
  <2>2. \A j \in Slots \ (wr.todo \ {i}) : seq'[j] = 0
    BY <2>1, <1>2, <1>t, ZeroFields
  <2>3. CASE wr.todo = {i}
    <3>1. \A j \in Slots : seq'[j] = 0  BY <2>2, <2>3
    <3> QED  BY <2>1, <2>3, <3>1, <1>2, ZeroFields
  <2>4. CASE wr.todo # {i}  BY <2>1, <2>2, <2>4, <1>2, ZeroFields
  <2> QED  BY <2>3, <2>4
<1>3. CASE PackMagic \/ PackNSlots \/ PackSlotSize
  <2>1. hdr'.wr_count = hdr.wr_count
    <3>1. CASE PackMagic  BY <3>1, <1>t DEF PackMagic, HdrType
    <3>2. CASE PackNSlots  BY <3>2, <1>t DEF PackNSlots, HdrType
    <3>3. CASE PackSlotSize  BY <3>3, <1>t DEF PackSlotSize, HdrType
    <3> QED  BY <1>3, <3>1, <3>2, <3>3
  <2>2. /\ wr.pc \in {"magic", "nslots", "slot_size"}
        /\ wr'.pc \in {"nslots", "slot_size", "no_frame"}
        /\ wr'.wr_count = wr.wr_count /\ seq' = seq /\ era' = era
    BY <1>3, StepFields DEF PackMagic, PackNSlots, PackSlotSize
  <2> QED  BY <2>1, <2>2
<1>4. CASE PackNoFrame
  <2>1. hdr'.wr_count = hdr.wr_count  BY <1>4, <1>t DEF PackNoFrame, HdrType
  <2>2. /\ wr.pc = "no_frame" /\ wr'.pc = "ready"
        /\ wr'.wr_count = wr.wr_count
    BY <1>4, StepFields DEF PackNoFrame
  <2>3. era'.up /\ era'.gen = era.gen  BY <1>4, <1>t DEF PackNoFrame
  <2> QED  BY <2>1, <2>2, <2>3
<1>5. CASE Write \/ PackBusy \/ \E p \in Payload : CopyWord(p)
  <2>1. /\ wr.pc \in {"ready", "busy", "copy"}
        /\ wr'.pc \in {"busy", "copy"} /\ wr'.wr_count = wr.wr_count
        /\ hdr' = hdr /\ era' = era
    <3>1. CASE Write  BY <3>1, WriterFields DEF Write, ClearSlotHdr
    <3>2. CASE PackBusy  BY <3>2, WriterFields DEF PackBusy
    <3>3. CASE \E p \in Payload : CopyWord(p)
      BY <3>3, CopyFields DEF CopyWord
    <3> QED  BY <1>5, <3>1, <3>2, <3>3
  <2> QED  BY <2>1
<1>6. CASE ClearForStable \/ PackStable \/ PackSize \/ PackStamp
  <2>1. /\ wr.pc \in {"copy", "even", "size", "stamp"}
        /\ wr'.pc \in {"even", "size", "stamp", "latest0"}
        /\ wr'.wr_count = wr.wr_count /\ hdr' = hdr /\ era' = era
    BY <1>6, StepFields
    DEF ClearForStable, ClearSlotHdr, PackStable, PackSize, PackStamp
  <2> QED  BY <2>1
<1>7. CASE ClearLatest \/ PackLatest \/ ClearCount
  <2>1. hdr'.wr_count \in {0, hdr.wr_count}
    <3>1. CASE ClearLatest  BY <3>1, <1>t DEF ClearLatest, HdrType
    <3>2. CASE PackLatest  BY <3>2, <1>t DEF PackLatest, HdrType
    <3>3. CASE ClearCount  BY <3>3, <1>t DEF ClearCount, HdrType
    <3> QED  BY <1>7, <3>1, <3>2, <3>3
  <2>2. /\ wr.pc \in {"latest0", "latest", "count0"}
        /\ wr'.pc \in {"latest", "count0", "count"}
        /\ wr'.wr_count = wr.wr_count /\ era' = era
    BY <1>7, StepFields DEF ClearLatest, PackLatest, ClearCount
  <2> QED  BY <2>1, <2>2
<1>8. CASE PackCount
  <2>1. hdr'.wr_count = wr.wr_count + 1  BY <1>8, <1>t DEF PackCount, HdrType
  <2>2. wr.pc = "count" /\ era' = era  BY <1>8 DEF PackCount
  <2> QED  BY <2>1, <2>2, <1>8, WriterFields
<1>9. CASE Crash  BY <1>9, WriterFields
<1> QED  BY <1>1, <1>2, <1>3, <1>4, <1>5, <1>6, <1>7, <1>8, <1>9 DEF WriterStep

LEMMA WriterGeometry ==
  ASSUME TypeOK, PhaseOK, GeometryOK, WriterStep \/ Crash
  PROVE  GeometryOK'
<1> USE DEF GeometryOK
<1>t. hdr \in HdrType /\ wr \in WriterType /\ era \in [gen : Nat, up : BOOLEAN]
  BY DEF TypeOK, RingTypeOK
<1>1. CASE Create  BY <1>1, WriterFields
<1>2. ASSUME NEW i \in Slots, ZeroSlot(i)  PROVE GeometryOK'
  <2>1. wr'.pc # "no_frame"  BY <1>2, ZeroFields
  <2> QED  BY <2>1, <1>2 DEF ZeroSlot
<1>3. CASE PackMagic \/ PackNSlots
  <2>1. wr.pc \in {"magic", "nslots"} /\ wr'.pc # "no_frame" /\ era' = era
    BY <1>3, StepFields DEF PackMagic, PackNSlots
  <2> QED  BY <2>1 DEF PhaseOK, Starting
<1>4. CASE PackSlotSize  BY <1>4, <1>t DEF PackSlotSize, HdrType
<1>5. CASE PackNoFrame
  <2>1. wr.pc = "no_frame" /\ hdr'.slot_size = hdr.slot_size
    BY <1>5, <1>t DEF PackNoFrame, Step, HdrType
  <2> QED  BY <2>1
<1>6. CASE Write \/ PackBusy \/ \E p \in Payload : CopyWord(p)
  <2>1. wr'.pc # "no_frame" /\ hdr' = hdr /\ era' = era
    <3>1. CASE Write  BY <3>1, WriterFields DEF Write, ClearSlotHdr
    <3>2. CASE PackBusy  BY <3>2, WriterFields DEF PackBusy
    <3>3. CASE \E p \in Payload : CopyWord(p)
      BY <3>3, CopyFields DEF CopyWord
    <3> QED  BY <1>6, <3>1, <3>2, <3>3
  <2> QED  BY <2>1
<1>7. CASE ClearForStable \/ PackStable \/ PackSize \/ PackStamp
  <2>1. wr'.pc # "no_frame" /\ hdr' = hdr /\ era' = era
    BY <1>7, StepFields
    DEF ClearForStable, ClearSlotHdr, PackStable, PackSize, PackStamp
  <2> QED  BY <2>1
<1>8. CASE ClearLatest \/ PackLatest \/ ClearCount \/ PackCount
  <2>1. hdr'.slot_size = hdr.slot_size /\ era' = era
    <3>1. CASE ClearLatest  BY <3>1, <1>t DEF ClearLatest, HdrType
    <3>2. CASE PackLatest  BY <3>2, <1>t DEF PackLatest, HdrType
    <3>3. CASE ClearCount  BY <3>3, <1>t DEF ClearCount, HdrType
    <3>4. CASE PackCount  BY <3>4, <1>t DEF PackCount, HdrType
    <3> QED  BY <1>8, <3>1, <3>2, <3>3, <3>4
  <2>2. wr'.pc # "no_frame"
    BY <1>8, StepFields, WriterFields DEF ClearLatest, PackLatest, ClearCount
  <2> QED  BY <2>1, <2>2
<1>9. CASE Crash
  <2>1. hdr' = hdr  BY <1>9 DEF Crash, readerVars
  <2> QED  BY <2>1, <1>9, WriterFields
<1> QED  BY <1>1, <1>2, <1>3, <1>4, <1>5, <1>6, <1>7, <1>8, <1>9 DEF WriterStep

(* Stores to the slot at the cursor leave the others alone. *)
LEMMA ClearFields ==
  ASSUME TypeOK, ClearSlotHdr
  PROVE  /\ hdr' = hdr /\ era' = era
         /\ seq' = [seq EXCEPT ![Cursor] = 0]
         /\ \A i \in Slots \ {Cursor} : word'[i] = word[i] /\ seq'[i] = seq[i]
         /\ \A p \in Payload : word'[Cursor][p] = word[Cursor][p]
<1>1. /\ seq \in [Slots -> Nat] /\ word \in [Slots -> [Words -> Content]]
      /\ Cursor \in Slots
  BY CursorInRing DEF TypeOK, RingTypeOK
<1> QED  BY <1>1 DEF ClearSlotHdr, Words

LEMMA WriterCounters ==
  ASSUME TypeOK, PhaseOK, CountersOK, WriterStep \/ Crash
  PROVE  CountersOK'
<1> USE DEF CountersOK, Active
<1>t. seq \in [Slots -> Nat] /\ Cursor \in Slots /\ wr.seq \in Nat
  BY CursorInRing DEF TypeOK, RingTypeOK, WriterType
<1>1. CASE Create  BY <1>1, WriterFields
<1>2. CASE \/ \E i \in Slots : ZeroSlot(i)
           \/ PackMagic \/ PackNSlots \/ PackSlotSize
  <2>1. wr.pc \in {"zero", "magic", "nslots", "slot_size"} /\ era' = era
    BY <1>2 DEF ZeroSlot, PackMagic, PackNSlots, PackSlotSize, Step
  <2> QED  BY <2>1 DEF PhaseOK, Starting
<1>3. CASE PackNoFrame
  <2>1. wr.pc = "no_frame" /\ wr'.pc = "ready" /\ Cursor' = Cursor
    BY <1>3, StepFields DEF PackNoFrame
  <2>2. \A i \in Slots : seq[i] = 0  BY <2>1 DEF PhaseOK, Starting
  <2>3. seq' = seq  BY <1>3 DEF PackNoFrame
  <2> QED  BY <2>1, <2>2, <2>3, <1>t, Parity DEF Even
<1>4. CASE Write
  <2>1. /\ wr.pc = "ready" /\ wr'.pc = "busy" /\ wr'.seq = seq[Cursor]
        /\ Cursor' = Cursor /\ era' = era
        /\ seq' = [seq EXCEPT ![Cursor] = 0]
    BY <1>4, WriterFields, ClearFields DEF Write
  <2>2. era.up  BY <2>1 DEF PhaseOK, Starting
  <2>3. \A i \in Slots : Even(seq[i])  BY <2>1, <2>2, <1>t
  <2> QED  BY <2>1, <2>3, <1>t, Parity DEF Even
<1>5. CASE PackBusy
  <2>1. /\ wr.pc = "busy" /\ wr'.pc = "copy" /\ wr'.seq = wr.seq
        /\ Cursor' = Cursor /\ era' = era
        /\ seq' = [seq EXCEPT ![Cursor] = wr.seq + 1]
    BY <1>5, WriterFields DEF PackBusy
  <2> QED  BY <2>1, <1>t DEF Even
<1>6. CASE \E p \in Payload : CopyWord(p)
  BY <1>6, CopyFields DEF CopyWord, Even
<1>7. CASE ClearForStable
  <2>1. /\ wr.pc = "copy" /\ wr'.pc = "even" /\ wr'.seq = wr.seq
        /\ Cursor' = Cursor /\ era' = era
        /\ seq' = [seq EXCEPT ![Cursor] = 0]
    BY <1>7, StepFields, ClearFields DEF ClearForStable
  <2> QED  BY <2>1, <1>t DEF Even
<1>8. CASE PackStable
  <2>1. /\ wr.pc = "even" /\ wr'.pc = "size" /\ wr'.seq = wr.seq
        /\ Cursor' = Cursor /\ era' = era
        /\ seq' = [seq EXCEPT ![Cursor] = wr.seq + 2]
    BY <1>8, StepFields DEF PackStable
  <2>2. Even(wr.seq) => Even(wr.seq + 2)
    BY <1>t DEF Even
  <2> QED  BY <2>1, <2>2, <1>t DEF Even
<1>9. CASE \/ PackSize \/ PackStamp \/ ClearLatest \/ PackLatest
           \/ ClearCount
  <2>1. /\ wr.pc \in {"size", "stamp", "latest0", "latest", "count0"}
        /\ wr'.pc \in {"stamp", "latest0", "latest", "count0", "count"}
        /\ Cursor' = Cursor /\ era' = era /\ seq' = seq
    BY <1>9, StepFields
    DEF PackSize, PackStamp, ClearLatest, PackLatest, ClearCount
  <2> QED  BY <2>1 DEF Even
<1>10. CASE PackCount
  <2>1. /\ wr.pc = "count" /\ wr'.pc = "ready" /\ era' = era /\ seq' = seq
    BY <1>10, WriterFields DEF PackCount
  <2>2. era.up => \A i \in Slots : Even(seq[i])  BY <2>1, <1>t
  <2>3. wr.wr_count + 1 \in Nat /\ NSlots > 0 /\ NSlots \in Nat
    BY DEF TypeOK, WriterType
  <2>4. Cursor' \in Slots
    BY <1>10, <2>3, WriterFields, Remainder DEF Cursor, Slots
  <2> QED  BY <2>1, <2>2, <2>4 DEF Even
<1>11. CASE Crash  BY <1>11, WriterFields
<1> QED  BY <1>1, <1>2, <1>3, <1>4, <1>5, <1>6, <1>7, <1>8, <1>9, <1>10,
            <1>11 DEF WriterStep

LEMMA WriterProgress ==
  ASSUME TypeOK, PhaseOK, ProgressOK, WriterStep \/ Crash
  PROVE  ProgressOK'
<1> USE DEF ProgressOK, Active
<1>t. /\ word \in [Slots -> [Words -> Content]] /\ Cursor \in Slots
      /\ Payload \subseteq Words /\ Payload \cap {"size", "stamp"} = {}
      /\ "size" \in Words /\ "stamp" \in Words
  BY CursorInRing DEF TypeOK, RingTypeOK, Words, Meta
<1>1. CASE Create  BY <1>1, WriterFields
<1>2. CASE \/ \E i \in Slots : ZeroSlot(i)
           \/ PackMagic \/ PackNSlots \/ PackSlotSize
  <2>1. wr.pc \in {"zero", "magic", "nslots", "slot_size"} /\ era' = era
    BY <1>2 DEF ZeroSlot, PackMagic, PackNSlots, PackSlotSize, Step
  <2> QED  BY <2>1 DEF PhaseOK, Starting
<1>3. CASE \/ PackNoFrame \/ PackStamp \/ ClearLatest \/ PackLatest
           \/ ClearCount
  <2>1. wr'.pc \in {"ready", "latest0", "latest", "count0", "count"}
    BY <1>3, StepFields
    DEF PackNoFrame, PackStamp, ClearLatest, PackLatest, ClearCount
  <2> QED  BY <2>1
<1>4. CASE Write \/ PackCount \/ Crash
  BY <1>4, WriterFields
<1>5. CASE PackBusy
  <2>1. wr'.pc = "copy" /\ wr'.todo = Payload  BY <1>5, WriterFields
  <2> QED  BY <2>1
<1>6. ASSUME NEW p \in Payload, CopyWord(p)  PROVE ProgressOK'
  <2>1. /\ wr.pc = "copy" /\ wr'.pc = "copy" /\ wr'.todo = wr.todo \ {p}
        /\ wr'.wr_count = wr.wr_count /\ Cursor' = Cursor /\ era' = era
        /\ word' = [word EXCEPT ![Cursor][p] = Current]
    BY <1>6, CopyFields DEF CopyWord
  <2>2. Current' = Current  BY <2>1 DEF Current
  <2>3. word'[Cursor][p] = Current  BY <2>1, <1>t
  <2>4. \A q \in Payload \ {p} : word'[Cursor][q] = word[Cursor][q]
    BY <2>1, <1>t
  <2> QED  BY <2>1, <2>2, <2>3, <2>4
<1>7. CASE ClearForStable
  <2>1. /\ wr.pc = "copy" /\ wr'.pc = "even" /\ wr.todo = {}
        /\ wr'.wr_count = wr.wr_count /\ Cursor' = Cursor /\ era' = era
        /\ \A p \in Payload : word'[Cursor][p] = word[Cursor][p]
    BY <1>7, StepFields, ClearFields DEF ClearForStable
  <2>2. Current' = Current  BY <2>1 DEF Current
  <2> QED  BY <2>1, <2>2
<1>8. CASE PackStable
  <2>1. /\ wr.pc = "even" /\ wr'.pc = "size" /\ wr'.wr_count = wr.wr_count
        /\ Cursor' = Cursor /\ era' = era /\ word' = word
    BY <1>8, StepFields DEF PackStable
  <2>2. Current' = Current  BY <2>1 DEF Current
  <2> QED  BY <2>1, <2>2
<1>9. CASE PackSize
  <2>1. /\ wr.pc = "size" /\ wr'.pc = "stamp" /\ wr'.wr_count = wr.wr_count
        /\ Cursor' = Cursor /\ era' = era
        /\ word' = [word EXCEPT ![Cursor]["size"] = Current]
    BY <1>9, StepFields DEF PackSize
  <2>2. Current' = Current  BY <2>1 DEF Current
  <2>3. word'[Cursor]["size"] = Current  BY <2>1, <1>t
  <2>4. \A q \in Payload : word'[Cursor][q] = word[Cursor][q]
    BY <2>1, <1>t
  <2> QED  BY <2>1, <2>2, <2>3, <2>4
<1> QED  BY <1>1, <1>2, <1>3, <1>4, <1>5, <1>6, <1>7, <1>8, <1>9
         DEF WriterStep

(* The steps of a writer that has initialised the ring. *)
LEMMA ActiveSteps ==
  ASSUME PhaseOK, Active, WriterStep
  PROVE  \/ Write \/ PackBusy \/ \E p \in Payload : CopyWord(p)
         \/ ClearForStable \/ PackStable \/ PackSize \/ PackStamp
         \/ ClearLatest \/ PackLatest \/ ClearCount \/ PackCount
<1>1. wr.pc # "down" /\ ~Starting  BY DEF Active, PhaseOK
<1> QED
  BY <1>1 DEF WriterStep, Starting, Create, ZeroSlot, PackMagic, PackNSlots,
    PackSlotSize, PackNoFrame, Step

(* All of them but the count leave the cursor; the writer finishes a frame *)
(* with PackStamp and not before. *)
LEMMA ActiveFields ==
  ASSUME TypeOK, PhaseOK, Active, WriterStep, ~PackCount
  PROVE  /\ wr'.wr_count = wr.wr_count /\ Cursor' = Cursor /\ era' = era
         /\ rd' = rd /\ span' = span /\ wr.pc # "count" /\ wr'.pc # "down"
         /\ Finished => Finished'
         /\ Finished' => Finished \/ PackStamp
<1> USE DEF Finished
<1>1. CASE Write \/ PackBusy \/ \E p \in Payload : CopyWord(p)
  BY <1>1, WriterFields, CopyFields DEF Write, ClearSlotHdr, PackBusy, CopyWord
<1>2. CASE ClearForStable \/ PackStable \/ PackSize \/ PackStamp
  BY <1>2, StepFields
  DEF ClearForStable, ClearSlotHdr, PackStable, PackSize, PackStamp
<1>3. CASE ClearLatest \/ PackLatest \/ ClearCount
  BY <1>3, StepFields DEF ClearLatest, PackLatest, ClearCount
<1> QED  BY <1>1, <1>2, <1>3, ActiveSteps

(* Nothing is stored to a slot that is settled. *)
LEMMA SettledSlot ==
  ASSUME TypeOK, PhaseOK, Active, WriterStep, NEW i \in Slots, Settled(i)
  PROVE  seq'[i] = seq[i] /\ word'[i] = word[i]
<1> USE DEF Finished, Settled
<1>t. /\ seq \in [Slots -> Nat] /\ word \in [Slots -> [Words -> Content]]
      /\ Cursor \in Slots
  BY CursorInRing DEF TypeOK, RingTypeOK
<1>1. CASE Write \/ ClearForStable
  <2>1. i # Cursor  BY <1>1 DEF Write, ClearForStable, Step
  <2> QED  BY <1>1, <2>1, ClearFields DEF Write, ClearForStable
<1>2. CASE PackBusy \/ PackStable
  <2>1. i # Cursor  BY <1>2 DEF PackBusy, PackStable, Step
  <2> QED  BY <1>2, <2>1, <1>t DEF PackBusy, PackStable
<1>3. CASE PackSize \/ PackStamp \/ \E p \in Payload : CopyWord(p)
  <2>1. i # Cursor  BY <1>3 DEF PackSize, PackStamp, CopyWord, Step
  <2> QED  BY <1>3, <2>1, <1>t DEF PackSize, PackStamp, CopyWord
<1>4. CASE ClearLatest \/ PackLatest \/ ClearCount \/ PackCount
  BY <1>4 DEF ClearLatest, PackLatest, ClearCount, PackCount
<1> QED  BY <1>1, <1>2, <1>3, <1>4, ActiveSteps

(* The count settles the slot at the old cursor for good. *)
LEMMA Counted ==
  ASSUME TypeOK, PackCount, NEW i \in Slots, Settled(i)'
  PROVE  Settled(i)
<1>1. /\ wr.wr_count \in Nat /\ i \in Nat /\ i < NSlots /\ NSlots \in Nat
      /\ NSlots > 0
  BY DEF TypeOK, WriterType, Slots
<1>2. wr'.pc = "ready" /\ wr'.wr_count = wr.wr_count + 1 /\ wr.pc = "count"
  BY WriterFields DEF PackCount
<1>3. i < wr.wr_count + 1 \/ wr.wr_count + 1 >= NSlots
  BY <1>2 DEF Settled, Finished
<1>4. CASE i = Cursor  BY <1>2, <1>4 DEF Settled, Finished
<1>5. CASE i # Cursor
  <2>1. wr.wr_count < NSlots => Cursor = wr.wr_count  BY <1>1 DEF Cursor
  <2>2. i < wr.wr_count \/ wr.wr_count >= NSlots
    BY <2>1, <1>1, <1>3, <1>5
  <2> QED  BY <2>2, <1>5 DEF Settled
<1> QED  BY <1>4, <1>5

LEMMA StillSettled ==
  ASSUME TypeOK, PhaseOK, Active, WriterStep, ~PackCount,
         NEW i \in Slots, Settled(i)
  PROVE  Settled(i)'
BY ActiveFields DEF Settled

LEMMA NewlySettled ==
  ASSUME TypeOK, PhaseOK, Active, WriterStep, NEW i \in Slots, Settled(i)'
  PROVE  Settled(i) \/ (PackStamp /\ i = Cursor)
<1>1. CASE PackCount  BY <1>1, Counted
<1>2. CASE ~PackCount  BY <1>2, ActiveFields DEF Settled
<1> QED  BY <1>1, <1>2

(* Nothing is settled in a ring that has just been initialised. *)
LEMMA Fresh ==
  ASSUME TypeOK, PhaseOK, PackNoFrame
  PROVE  /\ wr.wr_count = 0 /\ wr'.wr_count = 0
         /\ hdr'.latest = NoFrame
         /\ \A i \in Slots : ~Settled(i)'
<1>1. /\ wr.pc = "no_frame" /\ wr'.pc = "ready"
      /\ wr'.wr_count = wr.wr_count /\ Cursor' = Cursor
  BY StepFields DEF PackNoFrame
<1>2. wr.wr_count = 0  BY <1>1 DEF PhaseOK, Starting
<1>3. hdr'.latest = NoFrame
  BY DEF PackNoFrame, TypeOK, RingTypeOK, HdrType
<1>4. ASSUME NEW i \in Slots  PROVE ~Settled(i)'
  BY <1>1, <1>2 DEF Settled, Finished, Slots
<1> QED  BY <1>1, <1>2, <1>3, <1>4

(* The writer becomes active with PackNoFrame. *)
LEMMA Activation ==
  ASSUME TypeOK, PhaseOK, WriterStep \/ Crash, Active'
  PROVE  PackNoFrame \/ (Active /\ WriterStep)
<1> USE DEF Active
<1>1. CASE Create \/ Crash  BY <1>1, WriterFields
<1>2. CASE \/ \E i \in Slots : ZeroSlot(i)
           \/ PackMagic \/ PackNSlots \/ PackSlotSize
  <2>1. wr.pc \in {"zero", "magic", "nslots", "slot_size"} /\ era' = era
    BY <1>2 DEF ZeroSlot, PackMagic, PackNSlots, PackSlotSize, Step
  <2> QED  BY <2>1 DEF PhaseOK, Starting
<1>3. CASE /\ WriterStep
           /\ wr.pc \notin {"down", "zero", "magic", "nslots", "slot_size",
                            "no_frame"}
  BY <1>3 DEF PhaseOK, Starting
<1>4. WriterStep /\ wr.pc \in {"down", "zero", "magic", "nslots",
                               "slot_size", "no_frame"} =>
        \/ Create \/ (\E i \in Slots : ZeroSlot(i))
        \/ PackMagic \/ PackNSlots \/ PackSlotSize \/ PackNoFrame
  BY DEF WriterStep, Write, PackBusy, CopyWord, ClearForStable, PackStable,
    PackSize, PackStamp, ClearLatest, PackLatest, ClearCount, PackCount, Step
<1> QED  BY <1>1, <1>2, <1>3, <1>4

LEMMA WriterSettled ==
  ASSUME WriterOK, WriterStep \/ Crash
  PROVE  SettledOK'
<1>i. TypeOK /\ PhaseOK /\ ProgressOK /\ SettledOK  BY DEF WriterOK
<1> SUFFICES ASSUME Active', NEW i \in Slots, Settled(i)'
             PROVE  Whole(word[i])'
  BY DEF SettledOK
<1>1. CASE PackNoFrame  BY <1>1, <1>i, Fresh
<1>2. CASE Active /\ WriterStep
  <2>e. era' = era
    <3>1. CASE PackCount  BY <3>1 DEF PackCount
    <3> QED  BY <3>1, <1>2, <1>i, ActiveFields
  <2>1. CASE Settled(i)
    <3>1. word'[i] = word[i]  BY <2>1, <1>2, <1>i, SettledSlot
    <3>2. Whole(word[i])  BY <2>1, <1>2, <1>i DEF SettledOK
    <3> QED  BY <2>e, <3>1, <3>2 DEF Whole, OneFrame
  <2>2. CASE PackStamp /\ i = Cursor
    <3>1. /\ word \in [Slots -> [Words -> Content]] /\ "stamp" \in Words
          /\ wr.pc = "stamp"
          /\ word' = [word EXCEPT ![Cursor]["stamp"] = Current]
      BY <2>2, <1>i
      DEF TypeOK, RingTypeOK, PackStamp, Step, Words, Meta
    <3>2. \A w \in Words \ {"stamp"} : word[i][w] = Current
      BY <2>2, <3>1, <1>2, <1>i DEF ProgressOK, Words, Meta
    <3>3. \A w \in Words : word'[i][w] = Current
      BY <2>2, <3>1, <3>2
    <3>4. Current.gen = era.gen  BY DEF Current
    <3> QED  BY <2>e, <3>1, <3>3, <3>4 DEF Whole, OneFrame
  <2> QED  BY <2>1, <2>2, <1>2, <1>i, NewlySettled
<1> QED  BY <1>1, <1>2, <1>i, Activation

(* The slot that latest names is settled.  It takes a second slot: the     *)
(* count moves the cursor on to another one. *)
LEMMA WriterLatest ==
  ASSUME NSlots > 1, WriterOK, LatestOK, WriterStep \/ Crash
  PROVE  LatestOK'
<1>i. TypeOK /\ PhaseOK  BY DEF WriterOK
<1>t. /\ hdr \in HdrType /\ wr.wr_count \in Nat /\ Cursor \in Slots
      /\ 0 \in Slots /\ NoFrame \notin Slots
  BY <1>i, CursorInRing
  DEF TypeOK, RingTypeOK, WriterType, Slots, NoFrame
<1> SUFFICES ASSUME Active'
    PROVE  /\ wr'.pc \in {"count0", "count"} => hdr'.latest = Cursor'
           /\ hdr'.latest = NoFrame => wr'.wr_count = 0
           /\ hdr'.latest # NoFrame => Settled(hdr.latest)'
  BY DEF LatestOK, NoFrame
<1>1. CASE PackNoFrame
  <2>1. wr'.pc = "ready"  BY <1>1, <1>i, StepFields DEF PackNoFrame
  <2> QED  BY <2>1, <1>1, <1>i, Fresh
<1>2. CASE Active /\ WriterStep
  <2>l. /\ wr.pc \in {"count0", "count"} => hdr.latest = Cursor
        /\ hdr.latest = NoFrame => wr.wr_count = 0
        /\ hdr.latest # NoFrame => Settled(hdr.latest)
    BY <1>2 DEF LatestOK
  <2>k. \A i \in Slots : Settled(i) /\ ~PackCount => Settled(i)'
    BY <1>2, <1>i, StillSettled
  <2>1. CASE hdr' = hdr /\ ~PackCount /\ wr'.pc \notin {"count0", "count"}
    <3>1. hdr.latest # NoFrame => hdr.latest \in Slots  BY <1>t DEF HdrType
    <3>2. wr'.wr_count = wr.wr_count  BY <2>1, <1>2, <1>i, ActiveFields
    <3>3. hdr.latest # NoFrame => Settled(hdr.latest)'
      BY <3>1, <2>1, <2>k, <2>l DEF Settled
    <3> QED  BY <3>2, <3>3, <2>1, <2>l
  <2>2. CASE ClearLatest
    <3>1. /\ hdr'.latest = 0 /\ wr'.pc = "latest" /\ Cursor' = Cursor
          /\ wr'.wr_count = wr.wr_count
      BY <2>2, <1>i, <1>t, StepFields DEF ClearLatest, HdrType
    <3>2. Cursor # 0 => 0 < wr.wr_count  BY <1>t DEF Cursor
    <3> QED  BY <3>1, <3>2 DEF Settled, Finished, NoFrame
  <2>3. CASE PackLatest
    <3>1. /\ hdr'.latest = Cursor /\ wr'.pc = "count0" /\ Cursor' = Cursor
      BY <2>3, <1>i, <1>t, StepFields DEF PackLatest, HdrType
    <3> QED  BY <3>1, <1>t DEF Settled, Finished
  <2>4. CASE ClearCount
    <3>1. /\ hdr'.latest = hdr.latest /\ wr.pc = "count0"
          /\ wr'.pc = "count" /\ Cursor' = Cursor
      BY <2>4, <1>i, <1>t, StepFields DEF ClearCount, HdrType
    <3> QED  BY <3>1, <2>l, <1>t DEF Settled, Finished
  <2>5. CASE PackCount
    <3>1. /\ hdr'.latest = hdr.latest /\ wr.pc = "count"
          /\ wr'.pc = "ready" /\ wr'.wr_count = wr.wr_count + 1
      BY <2>5, <1>i, <1>t, WriterFields DEF PackCount, HdrType
    <3>2. hdr'.latest = Cursor /\ Cursor # NoFrame  BY <3>1, <2>l, <1>t
    <3>3. Cursor # Cursor'
      <4>1. Cursor' = (wr.wr_count + 1) % NSlots  BY <3>1 DEF Cursor
      <4>2. SUFFICES ASSUME wr.wr_count % NSlots = (wr.wr_count + 1) % NSlots
                     PROVE  FALSE
        BY <4>1 DEF Cursor
      <4>3. wr.wr_count + 1 >= wr.wr_count + NSlots
        <5> DEFINE n == wr.wr_count
                   m == wr.wr_count + 1
        <5>1. n \in Nat /\ m \in Nat /\ n < m /\ NSlots \in Nat /\ NSlots > 0
          BY <1>t
        <5>2. m % NSlots = n % NSlots  BY <4>2
        <5> HIDE DEF n, m
        <5>3. m >= n + NSlots  BY <5>1, <5>2, Apart
        <5> QED  BY <5>3 DEF n, m
      <4> QED  BY <4>3, <1>t
    <3>4. Cursor < wr.wr_count + 1 \/ wr.wr_count + 1 >= NSlots
      BY <1>t DEF Cursor
    <3> QED  BY <3>1, <3>2, <3>3, <3>4 DEF Settled
  <2>6. \/ ClearLatest \/ PackLatest \/ ClearCount \/ PackCount
        \/ hdr' = hdr /\ ~PackCount /\ wr'.pc \notin {"count0", "count"}
    <3>1. CASE Write \/ PackBusy \/ \E p \in Payload : CopyWord(p)
      BY <3>1, <1>i, WriterFields, CopyFields
      DEF Write, ClearSlotHdr, PackBusy, CopyWord, PackCount
    <3>2. CASE ClearForStable \/ PackStable \/ PackSize \/ PackStamp
      BY <3>2, <1>i, StepFields
      DEF ClearForStable, ClearSlotHdr, PackStable, PackSize, PackStamp,
        PackCount
    <3> QED  BY <3>1, <3>2, <1>2, <1>i, ActiveSteps
  <2> QED  BY <2>1, <2>2, <2>3, <2>4, <2>5, <2>6
<1> QED  BY <1>1, <1>2, <1>i, Activation

(* A writer that steps has not stopped. *)
LEMMA StaysUp ==
  ASSUME TypeOK, WriterStep
  PROVE  wr'.pc # "down"
<1>1. CASE Create \/ Write \/ PackBusy \/ PackCount  BY <1>1, WriterFields
<1>2. CASE \/ \E i \in Slots : ZeroSlot(i)
           \/ \E p \in Payload : CopyWord(p)
  BY <1>2, ZeroFields, CopyFields
<1>3. CASE PackMagic \/ PackNSlots \/ PackSlotSize \/ PackNoFrame
  BY <1>3, StepFields DEF PackMagic, PackNSlots, PackSlotSize, PackNoFrame
<1>4. CASE ClearForStable \/ PackStable \/ PackSize \/ PackStamp
  BY <1>4, StepFields DEF ClearForStable, PackStable, PackSize, PackStamp
<1>5. CASE ClearLatest \/ PackLatest \/ ClearCount
  BY <1>5, StepFields DEF ClearLatest, PackLatest, ClearCount
<1> QED  BY <1>1, <1>2, <1>3, <1>4, <1>5 DEF WriterStep

(* What latest names is whole while the writer runs, and whatever a writer *)
(* that died had begun stays out of its way. *)
LEMMA WriterWhole ==
  ASSUME WriterOK, LatestIsWhole, WriterStep \/ Crash,
         WriterOK', NSlots > 1 => LatestOK'
  PROVE  LatestIsWhole'
<1>i. TypeOK /\ TypeOK' /\ CountersOK' /\ SettledOK'  BY DEF WriterOK
<1>1. CASE Crash
  BY <1>1 DEF Crash, readerVars, LatestIsWhole, Whole, OneFrame, Even, NoFrame
<1>2. CASE WriterStep
  <2> SUFFICES ASSUME era'.up, hdr'.latest # NoFrame, NSlots > 1
               PROVE  (Even(seq[hdr.latest]) /\ Whole(word[hdr.latest]))'
    BY DEF LatestIsWhole, NoFrame
  <2>1. Active'  BY <1>2, <1>i, StaysUp DEF Active
  <2>2. Settled(hdr.latest)' /\ hdr'.latest \in Slots
    BY <2>1, <1>i DEF LatestOK, NoFrame, Slots, TypeOK, RingTypeOK, HdrType
  <2>3. (Whole(word[hdr.latest]))'
    BY <2>1, <2>2, <1>i DEF SettledOK, Slots
  <2>4. (Even(seq[hdr.latest]))'
    <3>1. hdr'.latest = Cursor' => wr'.pc \notin {"copy", "even"}
      BY <2>2 DEF Settled, Finished
    <3> QED  BY <2>1, <2>2, <3>1, <1>i DEF CountersOK, Slots
  <2> QED  BY <2>3, <2>4
<1> QED  BY <1>1, <1>2

-------------------------------------------------------------------------------
(***************************************************************************)
(* The readers' half.                                                      *)
(***************************************************************************)
(* The writer stores to no slot that a prompt call reads. *)
LEMMA WriterPrompt ==
  ASSUME WriterOK, WriterStep \/ Crash, NEW r \in Readers,
         CleanOK(r), PromptOK(r)
  PROVE  CleanOK(r)' /\ PromptOK(r)'
<1>i. TypeOK /\ PhaseOK  BY DEF WriterOK
<1>t. /\ span[r].lo \in Nat /\ wr.wr_count \in Nat
      /\ rd[r] \in ReaderType /\ rd[r].idx \in Slots
      /\ span \in [Readers -> [lo : Nat, clean : BOOLEAN]]
  BY <1>i DEF TypeOK, RingTypeOK, WriterType, ReaderType
<1>1. CASE Create
  BY <1>1, <1>i, WriterFields DEF CleanOK, PromptOK, Prompt
<1>2. CASE Crash
  <2>1. wr'.pc = "down" /\ era' = era /\ span' = span /\ rd' = rd
    BY <1>2, <1>i, WriterFields DEF Crash, readerVars
  <2> QED  BY <2>1 DEF CleanOK, PromptOK, Prompt
<1>3. CASE WriterStep /\ ~Create
  <2>1. CASE ~era.up
    <3>1. ~span[r].clean  BY <2>1 DEF CleanOK
    <3>2. span' = span
      BY <1>3, <1>i DEF WriterStep, ZeroSlot, PackMagic, PackNSlots,
        PackSlotSize, PackNoFrame, Write, PackBusy, CopyWord, ClearForStable,
        PackStable, PackSize, PackStamp, ClearLatest, PackLatest, ClearCount,
        PackCount, Step
    <3> QED  BY <3>1, <3>2 DEF CleanOK, PromptOK, Prompt
  <2>2. CASE era.up
    <3>1. Active
      <4>1. wr.pc # "down"
        BY <1>3 DEF WriterStep, ZeroSlot, PackMagic, PackNSlots, PackSlotSize,
          PackNoFrame, Write, PackBusy, CopyWord, ClearForStable, PackStable,
          PackSize, PackStamp, ClearLatest, PackLatest, ClearCount, PackCount,
          Step
      <4> QED  BY <4>1, <2>2 DEF Active
    <3>c. span[r].clean => rd[r].pc # "closed" /\ span[r].lo <= wr.wr_count
      BY <3>1 DEF CleanOK, Active
    <3>2. CASE PackCount
      <4>1. /\ wr'.wr_count = wr.wr_count + 1
            /\ era' = era /\ span' = span /\ rd' = rd
        BY <3>2, <1>i, WriterFields DEF PackCount
      <4>2. CleanOK(r)'  BY <4>1, <3>c, <2>2, <1>t DEF CleanOK
      <4>3. ~Prompt(r)'  BY <4>1, <3>c, <1>t DEF Prompt
      <4> QED  BY <4>2, <4>3 DEF PromptOK
    <3>3. CASE ~PackCount
      <4>1. /\ wr'.wr_count = wr.wr_count /\ era' = era /\ rd' = rd
            /\ span' = span /\ wr'.pc # "down"
        BY <3>1, <3>3, <1>3, <1>i, ActiveFields
      <4>2. CleanOK(r)'  BY <4>1, <3>c, <2>2 DEF CleanOK
      <4>3. Prompt(r)' => Prompt(r)  BY <4>1, <3>1 DEF Prompt, Active
      <4>4. Settled(rd[r].idx) =>
              /\ word'[rd[r].idx] = word[rd[r].idx]
              /\ Settled(rd[r].idx)'
        <5> SUFFICES ASSUME Settled(rd[r].idx)
                     PROVE  /\ word'[rd[r].idx] = word[rd[r].idx]
                            /\ Settled(rd[r].idx)'
          OBVIOUS
        <5> DEFINE i == rd[r].idx
        <5>1. i \in Slots /\ Settled(i) /\ i' = i  BY <4>1, <1>t
        <5>2. word'[i] = word[i]
          BY <5>1, <3>1, <1>3, <1>i, SettledSlot
        <5>3. Settled(i)'
          <6>1. \A j \in Slots : Settled(j) => Settled(j)'
            BY <3>1, <3>3, <1>3, <1>i, StillSettled
          <6> QED  BY <6>1, <5>1 DEF Settled
        <5> QED  BY <5>2, <5>3
      <4>5. PromptOK(r)'
        <5> SUFFICES ASSUME Prompt(r)'
              PROVE /\ Picked(r)' => Settled(rd[r].idx)'
                    /\ rd'[r].pc = "meta" => rd'[r].todo \subseteq Meta
                    /\ Copying(r)' => \A w \in Loaded(r)' :
                                   rd'[r].copy[w] = word'[rd'[r].idx][w]
                    /\ rd'[r].pc = "idle" /\ rd'[r].rc = "ok" =>
                         Whole(rd[r].copy)'
          BY DEF PromptOK
        <5>1. /\ Picked(r) => Settled(rd[r].idx)
              /\ rd[r].pc = "meta" => rd[r].todo \subseteq Meta
              /\ Copying(r) => \A w \in Loaded(r) :
                                 rd[r].copy[w] = word[rd[r].idx][w]
              /\ rd[r].pc = "idle" /\ rd[r].rc = "ok" => Whole(rd[r].copy)
          BY <4>3 DEF PromptOK
        <5>2. Picked(r)' => Settled(rd[r].idx)'
          BY <4>1, <4>4, <5>1 DEF Picked
        <5>3. Copying(r)' => \A w \in Loaded(r)' :
                               rd'[r].copy[w] = word'[rd'[r].idx][w]
          BY <4>1, <4>4, <5>1 DEF Picked, Copying, Loaded
        <5>4. Whole(rd[r].copy) => Whole(rd[r].copy)'
          BY <4>1 DEF Whole, OneFrame
        <5> QED  BY <4>1, <5>1, <5>2, <5>3, <5>4
      <4> QED  BY <4>2, <4>5
    <3> QED  BY <3>2, <3>3
  <2> QED  BY <2>1, <2>2
<1> QED  BY <1>1, <1>2, <1>3

LEMMA WriterFit ==
  ASSUME TypeOK, WriterStep \/ Crash, NEW r \in Readers, FitOK(r)
  PROVE  FitOK(r)'
<1>1. CASE Create  BY <1>1, WriterFields DEF FitOK
<1>2. CASE ~Create
  <2>1. rd' = rd /\ span' = span
    BY <1>2 DEF WriterStep, Crash, readerVars, ZeroSlot, PackMagic, PackNSlots,
      PackSlotSize, PackNoFrame, Write, PackBusy, CopyWord, ClearForStable,
      PackStable, PackSize, PackStamp, ClearLatest, PackLatest, ClearCount,
      PackCount, Step
  <2> QED  BY <2>1 DEF FitOK, Fits, Placed, Picked
<1> QED  BY <1>1, <1>2

(* A call begins attached, and on a count the writer has reached. *)
LEMMA CleanStep ==
  ASSUME TypeOK, PhaseOK, NEW q \in Readers, ReaderStep(q), wr' = wr,
         CleanOK(q)
  PROVE  CleanOK(q)'
<1>t. RingTypeOK /\ wr.wr_count \in Nat /\ rd \in [Readers -> ReaderType]
  BY DEF TypeOK, RingTypeOK, WriterType
<1>1. era' = era  BY <1>t, ReaderFrame
<1>3. era.up /\ wr.pc # "down" => hdr.wr_count <= wr.wr_count
  <2>1. era.up /\ wr.pc # "down" => hdr.wr_count \in {0, wr.wr_count}
    BY DEF PhaseOK, Active
  <2> QED  BY <2>1, <1>t
<1>2. CASE Begin(q)
  <2>1. rd'[q].pc = "latest" /\ span'[q].lo = hdr.wr_count
        /\ (span'[q].clean => era.up)
    BY <1>2, <1>t, BeginFacts
  <2> QED  BY <2>1, <1>1, <1>3 DEF CleanOK
<1>5. CASE OpenStep(q)
  <2>1. rd'[q].pc = "closed" => ~span'[q].clean  BY <1>5, <1>t, OpenFacts
  <2>2. \/ span'[q].lo = hdr.wr_count /\ (span'[q].clean => era.up)
        \/ span'[q] = span[q]
        \/ ~span'[q].clean
    BY <1>5, <1>t, OpenFacts
  <2> QED  BY <2>1, <2>2, <1>1, <1>3 DEF CleanOK
<1>4. CASE CallStep(q)
  <2>1. span' = span /\ rd'[q].pc # "closed"
    BY <1>4, <1>t, CallFacts DEF InCall
  <2> QED  BY <2>1, <1>1 DEF CleanOK
<1> QED  BY <1>2, <1>5, <1>4 DEF ReaderStep

(* A prompt call picks a settled slot, and what it has loaded is what the  *)
(* slot holds. *)
LEMMA PromptStep ==
  ASSUME WriterOK, LatestOK, NEW q \in Readers, ReaderStep(q), wr' = wr,
         CleanOK(q), FitOK(q), PromptOK(q)
  PROVE  PromptOK(q)'
<1>i. TypeOK /\ PhaseOK /\ SettledOK /\ RingTypeOK
  BY DEF WriterOK, TypeOK
<1>t. rd \in [Readers -> ReaderType] /\ rd[q] \in ReaderType
  BY <1>i DEF RingTypeOK
<1>f. hdr' = hdr /\ seq' = seq /\ word' = word /\ era' = era
  BY <1>i, ReaderFrame
<1>s. \A i : Settled(i)' <=> Settled(i)  BY DEF Settled, Finished, Cursor
<1>a. span[q].clean /\ Picked(q) => ~Astray(q)
  BY DEF FitOK, Placed, Astray
<1>1. CASE Begin(q)
  <2>1. rd'[q].pc = "latest"  BY <1>1, <1>i, BeginFacts
  <2> QED  BY <2>1 DEF PromptOK, Picked, Copying
<1>2. CASE OpenStep(q)
  <2>1. /\ rd'[q].pc \in {"closed", "idle"} \cup Opening
        /\ rd'[q].pc \in {"closed", "idle"} => ~span'[q].clean
    BY <1>2, <1>i, OpenFacts
  <2> QED  BY <2>1 DEF PromptOK, Prompt, Picked, Copying, Opening
<1>3. CASE CallStep(q)
  <2>0. span' = span  BY <1>3, <1>i, CallFacts
  <2> SUFFICES ASSUME Prompt(q)  PROVE PromptOK(q)'
    BY <2>0 DEF PromptOK, Prompt
  <2>a. Active  BY DEF Prompt, CleanOK, Active
  <2>p. /\ Picked(q) => Settled(rd[q].idx)
        /\ rd[q].pc = "meta" => rd[q].todo \subseteq Meta
        /\ Copying(q) => \A w \in Loaded(q) :
                           rd[q].copy[w] = word[rd[q].idx][w]
    BY DEF PromptOK
  <2>w. Picked(q) => Whole(word[rd[q].idx])
    BY <2>a, <2>p, <1>i, <1>t DEF SettledOK, ReaderType
  <2>1. CASE \/ GiveUp(q) \/ SeeNothing(q) \/ BadSlot(q)
             \/ Duplicate(q) \/ TooBig(q)
    <3>1. rd'[q].pc = "idle" /\ rd'[q].rc \in {"raced", "none", "refused"}
      BY <2>1, <1>t DEF GiveUp, SeeNothing, BadSlot, Duplicate, TooBig,
        Return, Ended
    <3> QED  BY <3>1 DEF PromptOK, Picked, Copying
  <2>2. CASE SlotBusy(q) \/ Torn(q)
    <3>1. rd'[q].pc = "latest"
      BY <2>2, <1>t, RetryTyping DEF SlotBusy, Torn
    <3> QED  BY <3>1 DEF PromptOK, Picked, Copying
  <2>3. CASE PickSlot(q)
    <3>1. rd'[q].idx = hdr.latest /\ rd'[q].pc \in {"seq0", "bound"}
      BY <2>3, <1>t DEF PickSlot, ReaderType, RingTypeOK
    <3>2. Settled(hdr.latest)
      BY <2>3, <2>a DEF LatestOK, PickSlot
    <3> QED  BY <3>1, <3>2, <1>s DEF PromptOK, Picked, Copying
  <2>4. CASE GoodSlot(q) \/ SlotStable(q)
    <3>1. /\ rd'[q].idx = rd[q].idx /\ Picked(q)
          /\ \/ rd'[q].pc = "seq0"
             \/ rd'[q].pc = "meta" /\ rd'[q].todo = Meta
      <4>1. CASE GoodSlot(q)  BY <4>1, <1>t DEF GoodSlot, Picked, ReaderType
      <4>2. CASE SlotStable(q)
        <5>1. /\ rd[q].pc = "seq0"
              /\ \E n : rd'[q] = [rd[q] EXCEPT !.pc = "meta", !.todo = Meta,
                                               !.s0 = n]
          BY <4>2, <1>t DEF SlotStable
        <5> QED  BY <5>1, <1>t DEF Picked, ReaderType
      <4> QED  BY <2>4, <4>1, <4>2
    <3>2. Copying(q)' => Loaded(q)' = {}  BY <3>1 DEF Copying, Loaded
    <3> QED  BY <3>1, <3>2, <2>p, <1>s DEF PromptOK
  <2>5. ASSUME NEW w \in Words, LoadWord(q, w)  PROVE PromptOK(q)'
    <3>1. /\ rd'[q].pc = rd[q].pc /\ rd'[q].idx = rd[q].idx /\ Copying(q)
          /\ rd'[q].todo = rd[q].todo \ {w}
          /\ rd'[q].copy = [rd[q].copy EXCEPT ![w] = word[rd[q].idx][w]]
      <4>1. Copying(q) /\ Picked(q)  BY <2>5 DEF LoadWord, Copying, Picked
      <4>2. Found(q, w) = {word[rd[q].idx][w]}
        BY <4>1, <1>a DEF Found, Prompt
      <4>3. rd'[q] = [rd[q] EXCEPT !.todo = rd[q].todo \ {w},
                                   !.copy[w] = word[rd[q].idx][w]]
        BY <2>5, <4>2, <1>t DEF LoadWord
      <4> QED  BY <4>1, <4>3, <1>t DEF ReaderType
    <3>2. Picked(q) /\ rd[q].pc # "idle"  BY <3>1 DEF Picked, Copying
    <3>3. ASSUME NEW v \in Loaded(q)'
          PROVE  rd'[q].copy[v] = word[rd[q].idx][v]
      <4>1. rd[q].copy \in [Words -> Content]  BY <1>t DEF ReaderType
      <4>2. CASE v = w  BY <4>1, <4>2, <3>1
      <4>3. CASE v # w
        <5>1. v \in Loaded(q) /\ v \in Words
          BY <4>3, <3>1 DEF Loaded, Words
        <5> QED  BY <5>1, <4>1, <4>3, <3>1, <2>p
      <4> QED  BY <4>2, <4>3
    <3> QED  BY <3>1, <3>2, <3>3, <2>p, <1>s, <1>f DEF PromptOK
  <2>6. CASE CopyPayload(q)
    <3>1. /\ rd[q].pc = "meta" /\ rd[q].todo = {} /\ rd'[q].pc = "data"
          /\ rd'[q].idx = rd[q].idx /\ rd'[q].copy = rd[q].copy
          /\ rd[q].copy["size"] # Zero => rd'[q].todo = Payload
      BY <2>6, <1>t DEF CopyPayload, ReaderType
    <3>2. Copying(q) /\ Picked(q) /\ Loaded(q) = Meta
      BY <3>1 DEF Copying, Picked, Loaded
    <3>3. rd[q].copy["size"] # Zero
      <4>1. rd[q].copy["size"] = word[rd[q].idx]["size"]
        BY <3>2, <2>p DEF Meta
      <4>2. word[rd[q].idx]["size"].gen = era.gen
        BY <3>2, <2>w DEF Whole, OneFrame, Words, Meta
      <4>3. era.gen > 0  BY <2>a, <1>i DEF Active, PhaseOK
      <4> QED  BY <4>1, <4>2, <4>3 DEF Zero
    <3>4. Loaded(q)' = Meta  BY <3>1, <3>3 DEF Loaded, Words
    <3> QED  BY <3>1, <3>2, <3>4, <2>p, <1>s, <1>f DEF PromptOK
  <2>7. CASE Succeed(q)
    <3>1. /\ rd[q].pc = "data" /\ rd[q].todo = {} /\ rd'[q].pc = "idle"
          /\ rd'[q].copy = rd[q].copy
      BY <2>7, <1>t DEF Succeed, Ended
    <3>2. Copying(q) /\ Picked(q) /\ Loaded(q) = Words
      BY <3>1 DEF Copying, Picked, Loaded
    <3>3. \A w \in Words : rd[q].copy[w] = word[rd[q].idx][w]
      BY <3>2, <2>p
    <3>4. Whole(rd[q].copy)
      BY <3>2, <3>3, <2>w DEF Whole, OneFrame, Words, Meta
    <3>5. Whole(rd[q].copy)'  BY <3>1, <3>4, <1>f DEF Whole, OneFrame
    <3> QED  BY <3>1, <3>5 DEF PromptOK, Picked, Copying
  <2>8. CASE LoadMagic(q) \/ LoadNSlots(q) \/ LoadSlotSize(q)
    <3>1. rd'[q].pc \in {"nslots", "slot_size", "index"}
      <4>1. CASE LoadMagic(q)  BY <4>1, <1>t DEF LoadMagic, ReaderType
      <4>2. CASE LoadNSlots(q)  BY <4>2, <1>t DEF LoadNSlots, ReaderType
      <4>3. CASE LoadSlotSize(q)  BY <4>3, <1>t DEF LoadSlotSize, ReaderType
      <4> QED  BY <2>8, <4>1, <4>2, <4>3
    <3> QED  BY <3>1 DEF PromptOK, Picked, Copying
  <2> QED
    BY <1>3, <2>1, <2>2, <2>3, <2>4, <2>5, <2>6, <2>7, <2>8 DEF CallStep
<1> QED  BY <1>1, <1>2, <1>3 DEF ReaderStep

-------------------------------------------------------------------------------
(***************************************************************************)
(* The invariant is inductive.                                             *)
(***************************************************************************)
LEMMA InitInv ==
  ASSUME Init
  PROVE  Inv
<1> USE DEF Init, RingInit, Idle
<1>1. TypeOK
  <2>1. hdr \in HdrType  BY EmptyTypes
  <2>2. word \in [Slots -> [Words -> Content]]  BY DEF Zero, Content
  <2>3. rd \in [Readers -> ReaderType]  BY EmptyTypes
  <2>4. wr \in WriterType  BY DEF WriterType
  <2> QED  BY <2>1, <2>2, <2>3, <2>4 DEF TypeOK, RingTypeOK
<1>2. ~Active /\ ~Starting /\ wr.pc = "down" /\ ~era.up
  BY DEF Active, Starting
<1>3. WriterOK
  BY <1>1, <1>2 DEF WriterOK, PhaseOK, CountersOK, ProgressOK, SettledOK
<1>4. \A r \in Readers : CleanOK(r) /\ FitOK(r) /\ PromptOK(r)
  BY DEF CleanOK, FitOK, PromptOK, Prompt
<1> QED  BY <1>2, <1>3, <1>4 DEF Inv, GeometryOK, LatestOK, LatestIsWhole

LEMMA WriterInv ==
  ASSUME Inv, WriterStep \/ Crash
  PROVE  Inv'
<1>1. WriterOK'
  BY WriterTyping, WriterPhase, WriterCounters, WriterProgress,
     WriterSettled DEF Inv, WriterOK
<1>g. GeometryOK'  BY WriterGeometry DEF Inv, WriterOK
<1> SUFFICES ASSUME NSlots > 1
    PROVE  LatestOK' /\ LatestIsWhole'
           /\ \A r \in Readers : CleanOK(r)' /\ FitOK(r)' /\ PromptOK(r)'
  BY <1>1, <1>g DEF Inv
<1>2. LatestOK'  BY WriterLatest DEF Inv
<1>3. LatestIsWhole'  BY <1>1, <1>2, WriterWhole DEF Inv
<1>4. \A r \in Readers : CleanOK(r)' /\ FitOK(r)' /\ PromptOK(r)'
  BY WriterPrompt, WriterFit DEF Inv, WriterOK
<1> QED  BY <1>2, <1>3, <1>4

LEMMA ReaderInv ==
  ASSUME Inv, NEW q \in Readers, ReaderStep(q), wr' = wr
  PROVE  Inv'
<1>i. TypeOK /\ RingTypeOK /\ WriterOK  BY DEF Inv, WriterOK, TypeOK
<1>f. /\ hdr' = hdr /\ seq' = seq /\ word' = word /\ era' = era
      /\ \A r \in Readers \ {q} : rd'[r] = rd[r] /\ span'[r] = span[r]
  BY <1>i, ReaderFrame
<1>1. TypeOK'  BY <1>i, ReaderTyping DEF TypeOK
<1>2. WriterOK'
  BY <1>1, <1>f, <1>i DEF WriterOK, PhaseOK, CountersOK, ProgressOK, SettledOK,
    Starting, Active, Finished, Settled, Cursor, Current, Even, Whole, OneFrame
<1>g. GeometryOK'  BY <1>f DEF Inv, GeometryOK
<1> SUFFICES ASSUME NSlots > 1
    PROVE  LatestOK' /\ LatestIsWhole'
           /\ \A r \in Readers : CleanOK(r)' /\ FitOK(r)' /\ PromptOK(r)'
  BY <1>2, <1>g DEF Inv
<1>3. LatestOK'
  BY <1>f DEF Inv, LatestOK, Active, Settled, Finished, Cursor, NoFrame
<1>4. LatestIsWhole'
  BY <1>f DEF Inv, LatestIsWhole, Even, Whole, OneFrame, NoFrame
<1>5. CleanOK(q)' /\ FitOK(q)' /\ PromptOK(q)'
  <2>1. CleanOK(q) /\ FitOK(q) /\ PromptOK(q) /\ LatestOK  BY DEF Inv
  <2>2. FitOK(q)'
    BY <2>1, <1>i, FitStep DEF CleanOK, Inv, GeometryOK
  <2> QED  BY <2>1, <2>2, <1>i, CleanStep, PromptStep DEF WriterOK
<1>6. ASSUME NEW r \in Readers \ {q}
      PROVE  CleanOK(r)' /\ FitOK(r)' /\ PromptOK(r)'
  <2>1. CleanOK(r) /\ FitOK(r) /\ PromptOK(r)  BY DEF Inv
  <2>4. FitOK(r)'  BY <2>1, <1>6, <1>f DEF FitOK, Fits, Placed, Picked
  <2>2. CleanOK(r)'  BY <2>1, <1>6, <1>f DEF CleanOK
  <2>3. PromptOK(r)'
    BY <2>1, <1>6, <1>f DEF PromptOK, Prompt, Picked, Copying, Loaded, Settled,
      Finished, Cursor, Whole, OneFrame
  <2> QED  BY <2>2, <2>3, <2>4
<1> QED  BY <1>3, <1>4, <1>5, <1>6

LEMMA StepInv ==
  ASSUME Inv, [Next]_vars
  PROVE  Inv'
<1>1. CASE WriterStep \/ Crash  BY <1>1, WriterInv
<1>2. CASE \E r \in Readers : ReaderStep(r) /\ UNCHANGED wr
  BY <1>2, ReaderInv
<1>3. CASE UNCHANGED vars
  <2>1. TypeOK'  BY <1>3 DEF vars, Inv, WriterOK, TypeOK, RingTypeOK
  <2>2. WriterOK'
    BY <1>3, <2>1 DEF vars, Inv, WriterOK, PhaseOK, CountersOK, ProgressOK,
      SettledOK, Starting, Active, Finished, Settled, Cursor, Current, Even,
      Whole, OneFrame
  <2>3. NSlots > 1 => LatestOK' /\ LatestIsWhole'
    BY <1>3 DEF vars, Inv, LatestOK, LatestIsWhole, Active, Settled,
      Finished, Cursor, NoFrame, Even, Whole, OneFrame
  <2>4. NSlots > 1 => \A r \in Readers : CleanOK(r)' /\ PromptOK(r)'
    BY <1>3 DEF vars, Inv, CleanOK, PromptOK, Prompt, Picked, Copying, Loaded,
      Settled, Finished, Cursor, Whole, OneFrame
  <2>5. NSlots > 1 => \A r \in Readers : FitOK(r)'
    BY <1>3 DEF vars, Inv, FitOK, Fits, Placed, Picked
  <2>6. GeometryOK'  BY <1>3 DEF vars, Inv, GeometryOK
  <2> QED  BY <2>2, <2>3, <2>4, <2>5, <2>6 DEF Inv
<1> QED  BY <1>1, <1>2, <1>3 DEF Next

(* The inductive invariant holds in every reachable state of the ring that *)
(* common/bat_ring.py writes, for every value of the constants. *)
THEOREM Invariance == Spec => []Inv
<1>1. Init => Inv  BY InitInv
<1>2. Inv /\ [Next]_vars => Inv'  BY StepInv
<1> QED  BY <1>1, <1>2, PTL DEF Spec

(* The variables of the ring, of its readers and of the Python writer keep *)
(* their types: RingWriter stores no slot number outside the ring. *)
THEOREM TypeCorrect == Spec => []TypeOK
<1>1. Inv => TypeOK  BY DEF Inv, WriterOK
<1> QED  BY <1>1, Invariance, PTL

(* With two slots or more, a read_latest during which RingWriter.write     *)
(* completed no frame hands over one frame, whole, whatever field the      *)
(* writer was clearing meanwhile. *)
THEOREM PromptReads == Spec => []PromptReadIsWhole
<1>1. Inv => PromptReadIsWhole
  BY DEF Inv, PromptReadIsWhole, PromptOK, Prompt, Returned
<1> QED  BY <1>1, Invariance, PTL

(* With two slots or more, the slot that latest names holds a whole frame  *)
(* at every instant of RingWriter.write, the clearing of latest itself     *)
(* included, and after a writer died at any of them. *)
THEOREM NewestStaysReadable == Spec => []LatestIsWhole
<1>1. Inv => LatestIsWhole
  <2>1. CASE NSlots > 1  BY <2>1 DEF Inv
  <2>2. CASE ~(NSlots > 1)  BY <2>2 DEF LatestIsWhole
  <2> QED  BY <2>1, <2>2
<1> QED  BY <1>1, Invariance, PTL
===============================================================================
