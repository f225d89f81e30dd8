---------------------------- MODULE BatRing_proof -----------------------------
(***************************************************************************)
(* The C ring's safety for every number of slots, payload words, readers,  *)
(* attempts, frames and restarts.  Inv (in BatRing) is inductive; what a   *)
(* reader's step preserves is proved in RingReader_proof, what the writer's*)
(* steps preserve here, and what follows for order and lapping.  At the    *)
(* end the refinement of the abstract register.                            *)
(***************************************************************************)
EXTENDS BatRing, RingReader_proof

USE NSlotsAssumption, PayloadAssumption, BoundsAssumption

LEMMA CursorInRing ==
  ASSUME RingTypeOK
  PROVE  Cursor \in Slots
<1>1. hdr.wr_count \in Nat /\ NSlots \in Nat /\ NSlots > 0
  BY DEF RingTypeOK, HdrType
<1> QED  BY <1>1, Remainder DEF Cursor, Slots

LEMMA CurrentContent ==
  ASSUME RingTypeOK
  PROVE  Current \in Content /\ Zero \in Content
<1>1. hdr.wr_count \in Nat /\ era.gen \in Nat  BY DEF RingTypeOK, HdrType
<1> QED  BY <1>1 DEF Current, Content, Zero

LEMMA EmptyTypes == EmptyHdr \in HdrType /\ Detached \in ReaderType
<1>0. 0 \in Slots  BY DEF Slots
<1>1. Unread \in Content  BY DEF Unread, Content
<1>2. EmptyHdr \in HdrType  BY <1>0 DEF EmptyHdr, HdrType
<1>3. Detached \in ReaderType  BY <1>0, <1>1 DEF Detached, ReaderType
<1> QED  BY <1>2, <1>3

LEMMA InitInv ==
  ASSUME Init
  PROVE  Inv
<1> USE DEF Init, RingInit
<1>1. TypeOK
  <2>1. hdr \in HdrType  BY EmptyTypes
  <2>2. word \in [Slots -> [Words -> Content]]  BY DEF Zero, Content
  <2>3. rd \in [Readers -> ReaderType]  BY EmptyTypes
  <2>4. WriterTypeOK  BY DEF WriterTypeOK
  <2> QED  BY <2>1, <2>2, <2>3, <2>4 DEF TypeOK, RingTypeOK
<1>2. PhaseOK /\ InitialisingOK /\ WritingOK
  BY DEF PhaseOK, InitialisingOK, WritingOK, Writing
<1>3. HeaderUp /\ SlotsOK  BY DEF HeaderUp, SlotsOK
<1>4. \A r \in Readers : ReaderOK(r)
  BY DEF ReaderOK, SpanOK, FitOK, SlotFresh, CopyOK, ResultOK, Returned
<1> QED  BY <1>1, <1>2, <1>3, <1>4 DEF Inv

(***************************************************************************)
(* Types.                                                                  *)
(***************************************************************************)
LEMMA WriterTyping ==
  ASSUME TypeOK, WriterStep \/ Crash
  PROVE  TypeOK'
<1>1. CASE Create
  <2>1. hdr' \in HdrType  BY <1>1, EmptyTypes DEF Create
  <2>2. era' \in [gen : Nat, up : BOOLEAN]
    BY <1>1 DEF Create, TypeOK, RingTypeOK
  <2>3. span' \in [Readers -> [lo : Nat, clean : BOOLEAN]]
    BY <1>1 DEF Create, TypeOK, RingTypeOK
  <2>4. WriterTypeOK'  BY <1>1 DEF Create, Goto, WriterTypeOK
  <2> QED  BY <1>1, <2>1, <2>2, <2>3, <2>4
           DEF Create, WriterAt, TypeOK, RingTypeOK
<1>2. ASSUME NEW i \in Slots, MemsetSlot(i)  PROVE TypeOK'
  <2>1. /\ seq' \in [Slots -> Nat]
        /\ word' \in [Slots -> [Words -> Content]]
    BY <1>2, CurrentContent DEF MemsetSlot, TypeOK, RingTypeOK
  <2>2. WriterTypeOK'
    <3>1. wr.todo \ {i} \subseteq Slots
      BY <1>2 DEF MemsetSlot, WriterAt, TypeOK, WriterTypeOK
    <3>2. CASE wr.todo \ {i} = {}
      BY <1>2, <3>2 DEF MemsetSlot, Goto, WriterTypeOK
    <3>3. CASE wr.todo \ {i} # {}
      BY <1>2, <3>1, <3>3 DEF MemsetSlot, Goto, WriterTypeOK
    <3> QED  BY <3>2, <3>3
  <2> QED  BY <1>2, <2>1, <2>2 DEF MemsetSlot, WriterAt, TypeOK, RingTypeOK
<1>3. ASSUME NEW f \in Fields, FillField(f)  PROVE TypeOK'
  <2>1. hdr' \in HdrType
    <3>1. hdr \in HdrType  BY DEF TypeOK, RingTypeOK
    <3>2. CASE f = "nslots"  BY <1>3, <3>1, <3>2 DEF FillField, HdrType
    <3>3. CASE f = "slot_size"  BY <1>3, <3>1, <3>3 DEF FillField, HdrType
    <3>4. CASE f = "latest"  BY <1>3, <3>1, <3>4 DEF FillField, HdrType
    <3> QED  BY <3>2, <3>3, <3>4 DEF Fields
  <2>2. WriterTypeOK'
    BY <1>3 DEF FillField, WriterAt, Goto, TypeOK, WriterTypeOK
  <2> QED  BY <1>3, <2>1, <2>2 DEF FillField, WriterAt, TypeOK, RingTypeOK
<1>4. CASE SetMagic
  <2>1. hdr' \in HdrType /\ era' \in [gen : Nat, up : BOOLEAN]
    BY <1>4 DEF SetMagic, TypeOK, RingTypeOK, HdrType
  <2>2. WriterTypeOK'  BY <1>4 DEF SetMagic, Goto, WriterTypeOK
  <2> QED  BY <1>4, <2>1, <2>2 DEF SetMagic, WriterAt, TypeOK, RingTypeOK
<1>5. CASE WriteBegin
  <2>1. seq' \in [Slots -> Nat]
    BY <1>5, CursorInRing DEF WriteBegin, TypeOK, RingTypeOK
  <2>2. WriterTypeOK'  BY <1>5 DEF WriteBegin, Goto, WriterTypeOK
  <2> QED  BY <1>5, <2>1, <2>2 DEF WriteBegin, WriterAt, TypeOK, RingTypeOK
<1>6. ASSUME NEW w \in Words, StoreWord(w)  PROVE TypeOK'
  <2>1. word' \in [Slots -> [Words -> Content]]
    BY <1>6, CursorInRing, CurrentContent DEF StoreWord, TypeOK, RingTypeOK
  <2>2. WriterTypeOK'
    BY <1>6 DEF StoreWord, WriterAt, Goto, TypeOK, WriterTypeOK
  <2> QED  BY <1>6, <2>1, <2>2 DEF StoreWord, WriterAt, TypeOK, RingTypeOK
<1>7. CASE MarkStable
  <2>1. seq' \in [Slots -> Nat]
    BY <1>7, CursorInRing DEF MarkStable, TypeOK, RingTypeOK
  <2>2. WriterTypeOK'  BY <1>7 DEF MarkStable, Goto, WriterTypeOK
  <2> QED  BY <1>7, <2>1, <2>2 DEF MarkStable, WriterAt, TypeOK, RingTypeOK
<1>8. CASE SetLatest
  <2>1. hdr' \in HdrType
    <3>1. hdr \in HdrType /\ Cursor \in Slots
      BY CursorInRing DEF TypeOK, RingTypeOK
    <3>2. hdr' = [hdr EXCEPT !.latest = Cursor]  BY <1>8 DEF SetLatest
    <3> QED  BY <3>1, <3>2 DEF HdrType
  <2>2. WriterTypeOK'  BY <1>8 DEF SetLatest, Goto, WriterTypeOK
  <2> QED  BY <1>8, <2>1, <2>2 DEF SetLatest, WriterAt, TypeOK, RingTypeOK
<1>9. CASE SetCount
  <2>1. hdr' \in HdrType
    <3>1. hdr \in HdrType  BY DEF TypeOK, RingTypeOK
    <3>2. hdr' = [hdr EXCEPT !.wr_count = hdr.wr_count + 1]
      BY <1>9 DEF SetCount
    <3> QED  BY <3>1, <3>2 DEF HdrType
  <2>2. WriterTypeOK'  BY <1>9 DEF SetCount, Goto, WriterTypeOK
  <2> QED  BY <1>9, <2>1, <2>2 DEF SetCount, WriterAt, TypeOK, RingTypeOK
<1>10. CASE Crash
  BY <1>10 DEF Crash, Goto, readerVars, TypeOK, RingTypeOK, WriterTypeOK
<1> QED
  BY <1>1, <1>2, <1>3, <1>4, <1>5, <1>6, <1>7, <1>8, <1>9, <1>10
  DEF WriterStep

(***************************************************************************)
(* The writer's half.                                                      *)
(***************************************************************************)
(* Facts the cases below share. *)
LEMMA WriterFrame ==
  ASSUME TypeOK, WriterStep \/ Crash
  PROVE  rd' = rd
BY DEF WriterStep, Crash, readerVars, WriterAt, Create, MemsetSlot, FillField,
  SetMagic, WriteBegin, StoreWord, MarkStable, SetLatest, SetCount

LEMMA WriterPhase ==
  ASSUME Inv, WriterStep \/ Crash
  PROVE  PhaseOK' /\ InitialisingOK'
<1> USE DEF PhaseOK, InitialisingOK, Writing, WriterAt, Goto
<1>i. TypeOK /\ PhaseOK /\ InitialisingOK  BY DEF Inv
<1>1. CASE Create
  BY <1>1, <1>i DEF Create, EmptyHdr, TypeOK, RingTypeOK
<1>2. ASSUME NEW i \in Slots, MemsetSlot(i)
      PROVE  PhaseOK' /\ InitialisingOK'
  <2>1. \A j \in Slots \ (wr.todo \ {i}) : Cleared(j)'
    <3> SUFFICES ASSUME NEW j \in Slots \ (wr.todo \ {i})
                 PROVE  Cleared(j)'
      OBVIOUS
    <3>1. CASE j = i
      BY <1>2, <1>i, <3>1 DEF MemsetSlot, Cleared, TypeOK, RingTypeOK
    <3>2. CASE j # i
      BY <1>2, <1>i, <3>2 DEF MemsetSlot, Cleared, TypeOK, RingTypeOK
    <3> QED  BY <3>1, <3>2
  <2>2. era' = era /\ hdr' = hdr /\ wr.pc = "memset"
    BY <1>2 DEF MemsetSlot
  <2>3. CASE wr.todo \ {i} = {}
    <3>1. wr' = [pc |-> "fields", todo |-> Fields]
      BY <1>2, <2>3 DEF MemsetSlot
    <3> QED  BY <1>i, <2>1, <2>2, <2>3, <3>1 DEF Fields
  <2>4. CASE wr.todo \ {i} # {}
    <3>1. wr' = [pc |-> "memset", todo |-> wr.todo \ {i}]
      BY <1>2, <2>4 DEF MemsetSlot
    <3> QED  BY <1>i, <2>1, <2>2, <3>1
  <2> QED  BY <2>3, <2>4
<1>3. ASSUME NEW f \in Fields, FillField(f)
      PROVE  PhaseOK' /\ InitialisingOK'
  <2>1. /\ wr.pc = "fields" /\ era' = era
        /\ wr' = [pc |-> "fields", todo |-> wr.todo \ {f}]
        /\ \A i \in Slots : Cleared(i)'
    BY <1>3, <1>i DEF FillField, Cleared
  <2>h. hdr \in HdrType  BY <1>i DEF TypeOK, RingTypeOK
  <2>2. CASE f = "nslots"
    <3>1. hdr' = [hdr EXCEPT !.nslots = NSlots]  BY <1>3, <2>2 DEF FillField
    <3> QED  BY <1>i, <2>1, <2>2, <2>h, <3>1 DEF HdrType
  <2>3. CASE f = "slot_size"
    <3>1. hdr' = [hdr EXCEPT !.slot_size = 1]  BY <1>3, <2>3 DEF FillField
    <3> QED  BY <1>i, <2>1, <2>3, <2>h, <3>1 DEF HdrType
  <2>4. CASE f = "latest"
    <3>1. hdr' = [hdr EXCEPT !.latest = NoFrame]  BY <1>3, <2>4 DEF FillField
    <3> QED  BY <1>i, <2>1, <2>4, <2>h, <3>1 DEF HdrType
  <2> QED  BY <2>2, <2>3, <2>4 DEF Fields
<1>4. CASE SetMagic
  BY <1>4, <1>i DEF SetMagic, TypeOK, RingTypeOK
<1>5. CASE WriteBegin \/ MarkStable \/ \E w \in Words : StoreWord(w)
  BY <1>5, <1>i DEF WriteBegin, MarkStable, StoreWord
<1>6. CASE SetLatest \/ SetCount
  BY <1>6, <1>i DEF SetLatest, SetCount
<1>7. CASE Crash
  BY <1>7, <1>i DEF Crash
<1> QED  BY <1>1, <1>2, <1>3, <1>4, <1>5, <1>6, <1>7 DEF WriterStep

LEMMA WriterWriting ==
  ASSUME Inv, WriterStep \/ Crash
  PROVE  WritingOK'
<1>i. TypeOK /\ RingTypeOK /\ WritingOK  BY DEF Inv, TypeOK
<1>c. Cursor \in Slots  BY <1>i, CursorInRing
<1>s. seq \in [Slots -> Nat] /\ word \in [Slots -> [Words -> Content]]
  BY <1>i DEF RingTypeOK
<1>1. CASE Create  BY <1>1 DEF Create, Goto, WritingOK
<1>2. ASSUME NEW i \in Slots, MemsetSlot(i)  PROVE WritingOK'
  <2>1. wr'.pc \in {"memset", "fields"}  BY <1>2 DEF MemsetSlot, Goto
  <2> QED  BY <2>1 DEF WritingOK
<1>3. CASE \E f \in Fields : FillField(f)
  BY <1>3 DEF FillField, Goto, WritingOK
<1>4. CASE SetMagic
  <2>1. \A i \in Slots : seq[i] = 0
    BY <1>4 DEF SetMagic, WriterAt, Inv, InitialisingOK, Cleared
  <2> QED  BY <1>4, <2>1, Parity DEF SetMagic, Goto, WritingOK
<1>5. CASE WriteBegin
  <2>1. /\ \A i \in Slots : Even(seq[i])
        /\ seq' = [seq EXCEPT ![Cursor] = seq[Cursor] + 1]
        /\ wr' = [pc |-> "copy", todo |-> Words] /\ Cursor' = Cursor
    BY <1>5, <1>i DEF WriteBegin, WriterAt, Goto, WritingOK, Cursor
  <2>2. \A i \in Slots : Even(seq'[i]) <=> i # Cursor
    BY <2>1, <1>c, <1>s, Parity
  <2> QED  BY <2>1, <2>2 DEF WritingOK, Even
<1>6. ASSUME NEW w \in Words, StoreWord(w)  PROVE WritingOK'
  <2>1. /\ \A i \in Slots : Even(seq[i]) <=> i # Cursor
        /\ \A v \in Words \ wr.todo : word[Cursor][v] = Current
        /\ seq' = seq /\ Cursor' = Cursor /\ Current' = Current
        /\ word' = [word EXCEPT ![Cursor][w] = Current]
        /\ wr' = [pc |-> "copy", todo |-> wr.todo \ {w}]
    BY <1>6, <1>i DEF StoreWord, WriterAt, Goto, WritingOK, Cursor, Current
  <2>2. \A v \in Words \ wr'.todo : word'[Cursor][v] = Current
    BY <2>1, <1>c, <1>s
  <2> QED  BY <2>1, <2>2 DEF WritingOK, Even
<1>7. CASE MarkStable
  <2>1. /\ \A i \in Slots : Even(seq[i]) <=> i # Cursor
        /\ \A v \in Words : word[Cursor][v] = Current
        /\ word' = word /\ Cursor' = Cursor /\ Current' = Current
        /\ seq' = [seq EXCEPT ![Cursor] = seq[Cursor] + 1]
        /\ wr' = [pc |-> "latest", todo |-> {}]
    BY <1>7, <1>i DEF MarkStable, WriterAt, Goto, WritingOK, Cursor, Current
  <2>2. \A i \in Slots : Even(seq'[i])  BY <2>1, <1>c, <1>s, Parity
  <2> QED  BY <2>1, <2>2 DEF WritingOK, Even
<1>8. CASE SetLatest
  <2>1. /\ hdr' = [hdr EXCEPT !.latest = Cursor] /\ hdr \in HdrType
        /\ seq' = seq /\ word' = word /\ era' = era
        /\ wr' = [pc |-> "count", todo |-> {}] /\ wr.pc = "latest"
    BY <1>8, <1>i DEF SetLatest, WriterAt, Goto, RingTypeOK
  <2>2. hdr'.latest = Cursor /\ hdr'.wr_count = hdr.wr_count
    BY <2>1 DEF HdrType
  <2>3. Cursor' = Cursor /\ Current' = Current
    BY <2>1, <2>2 DEF Cursor, Current
  <2> QED  BY <2>1, <2>2, <2>3, <1>i DEF WritingOK, Even
<1>9. CASE SetCount
  BY <1>9, <1>i DEF SetCount, WriterAt, Goto, WritingOK, Even
<1>10. CASE Crash  BY <1>10 DEF Crash, Goto, WritingOK
<1> QED
  BY <1>1, <1>2, <1>3, <1>4, <1>5, <1>6, <1>7, <1>8, <1>9, <1>10
  DEF WriterStep

(***************************************************************************)
(* The shared half under the writer's steps.                               *)
(***************************************************************************)
LEMMA WriterShared ==
  ASSUME Inv, WriterStep \/ Crash
  PROVE  HeaderUp' /\ SlotsOK'
<1>i. TypeOK /\ RingTypeOK /\ HeaderUp /\ SlotsOK
  BY DEF Inv, TypeOK
<1>c. Cursor \in Slots  BY <1>i, CursorInRing
<1>s. /\ seq \in [Slots -> Nat] /\ word \in [Slots -> [Words -> Content]]
      /\ hdr \in HdrType /\ hdr.wr_count \in Nat
      /\ era \in [gen : Nat, up : BOOLEAN]
  BY <1>i DEF RingTypeOK, HdrType
<1>n. "stamp" \in Words  BY DEF Words, Meta
<1>1. CASE Create
  BY <1>1 DEF Create, HeaderUp, SlotsOK
<1>2. CASE \/ \E i \in Slots : MemsetSlot(i)
           \/ \E f \in Fields : FillField(f)
  <2>1. wr.pc \in {"memset", "fields"} /\ era' = era
    BY <1>2 DEF MemsetSlot, FillField, WriterAt
  <2>2. ~era.up  BY <2>1 DEF Inv, PhaseOK
  <2> QED  BY <2>1, <2>2 DEF HeaderUp, SlotsOK
<1>3. CASE SetMagic
  <2>1. /\ hdr' = [hdr EXCEPT !.magic = TRUE] /\ era'.gen = era.gen
        /\ wr.pc = "fields" /\ wr.todo = {} /\ seq' = seq /\ word' = word
    BY <1>3, <1>s DEF SetMagic, WriterAt
  <2>2. /\ hdr.nslots = NSlots /\ hdr.slot_size = 1 /\ hdr.latest = NoFrame
        /\ hdr.wr_count = 0 /\ era.gen > 0
        /\ \A i \in Slots, w \in Words : word[i][w] = Zero
    BY <2>1 DEF Inv, PhaseOK, InitialisingOK, Cleared
  <2>3. /\ hdr'.magic /\ hdr'.nslots = NSlots /\ hdr'.slot_size = 1
        /\ hdr'.latest = NoFrame /\ hdr'.wr_count = 0
    BY <2>1, <2>2, <1>s DEF HdrType
  <2>4. HeaderUp'  BY <2>1, <2>2, <2>3 DEF HeaderUp
  <2>5. \A i \in Slots : OneFrame(word[i])
    BY <2>2, <1>n DEF OneFrame
  <2>6. \A i \in Slots : i # NoFrame  BY DEF Slots, NoFrame
  <2> QED
    BY <2>1, <2>2, <2>3, <2>4, <2>5, <2>6
    DEF SlotsOK, OneFrame, Zero, Even
<1>4. CASE WriteBegin
  <2>1. /\ hdr' = hdr /\ word' = word /\ era' = era
        /\ seq' = [seq EXCEPT ![Cursor] = seq[Cursor] + 1]
        /\ \A i \in Slots : Even(seq[i])
    BY <1>4 DEF WriteBegin, WriterAt, Inv, WritingOK
  <2>2. \A i \in Slots : Even(seq'[i]) => Even(seq[i])
    BY <2>1
  <2> QED  BY <2>1, <2>2, <1>i DEF HeaderUp, SlotsOK, Within, OneFrame, Even
<1>5. ASSUME NEW w \in Words, StoreWord(w)  PROVE HeaderUp' /\ SlotsOK'
  <2>1. /\ hdr' = hdr /\ seq' = seq /\ era' = era
        /\ word' = [word EXCEPT ![Cursor][w] = Current]
        /\ \A i \in Slots : Even(seq[i]) => i # Cursor
    BY <1>5 DEF StoreWord, WriterAt, Inv, WritingOK
  <2>2. \A i \in Slots \ {Cursor} : word'[i] = word[i]  BY <2>1, <1>s
  <2>3. \A v \in Words : \/ word'[Cursor][v] = word[Cursor][v]
                         \/ word'[Cursor][v] = Current
    BY <2>1, <1>s, <1>c
  <2>4. /\ Current.gen = era.gen /\ Current.idx = hdr.wr_count
        /\ Current.idx >= hdr.wr_count - 1
    BY <1>s DEF Current
  <2>5. SUFFICES ASSUME era.up, NEW i \in Slots
        PROVE  /\ Even(seq[i]) => OneFrame(word'[i])
               /\ \A v \in Words : word'[i][v].idx <= hdr.wr_count
               /\ i = hdr.latest => \A v \in Words :
                    Within(word'[i][v], hdr.wr_count - 1)
    BY <2>1, <1>i DEF HeaderUp, SlotsOK, Within, OneFrame, Even
  <2>6. CASE i # Cursor  BY <2>2, <2>5, <2>6, <1>i DEF SlotsOK, OneFrame
  <2>7. CASE i = Cursor
    <3>1. ~Even(seq[i])  BY <2>1, <2>7
    <3>2. \A v \in Words : word'[i][v].idx <= hdr.wr_count
      BY <2>3, <2>4, <2>5, <2>7, <1>i, <1>s DEF SlotsOK
    <3>3. i = hdr.latest => \A v \in Words :
            Within(word'[i][v], hdr.wr_count - 1)
      BY <2>3, <2>4, <2>5, <2>7, <1>i, <1>s DEF SlotsOK, Within
    <3> QED  BY <3>1, <3>2, <3>3
  <2> QED  BY <2>6, <2>7
<1>6. CASE MarkStable
  <2>1. /\ hdr' = hdr /\ word' = word /\ era' = era
        /\ seq' = [seq EXCEPT ![Cursor] = seq[Cursor] + 1]
        /\ \A v \in Words : word[Cursor][v] = Current
    BY <1>6 DEF MarkStable, WriterAt, Inv, WritingOK
  <2>2. OneFrame(word[Cursor])  BY <2>1, <1>n DEF OneFrame
  <2>3. \A i \in Slots \ {Cursor} : seq'[i] = seq[i]  BY <2>1, <1>s
  <2> QED
    BY <2>1, <2>2, <2>3, <1>i DEF HeaderUp, SlotsOK, Within, OneFrame, Even
<1>7. CASE SetLatest
  <2>1. /\ hdr' = [hdr EXCEPT !.latest = Cursor]
        /\ seq' = seq /\ word' = word /\ era' = era
        /\ \A v \in Words : word[Cursor][v] = Current
    BY <1>7 DEF SetLatest, WriterAt, Inv, WritingOK
  <2>2. /\ hdr'.latest = Cursor /\ hdr'.wr_count = hdr.wr_count
        /\ hdr'.magic = hdr.magic /\ hdr'.nslots = hdr.nslots
        /\ hdr'.slot_size = hdr.slot_size
    BY <2>1, <1>s DEF HdrType
  <2>3. Cursor # NoFrame  BY <1>c DEF Slots, NoFrame
  <2>4. HeaderUp'  BY <2>1, <2>2, <2>3, <1>i DEF HeaderUp
  <2>5. \A v \in Words : /\ word[Cursor][v].gen = era.gen
                         /\ word[Cursor][v].idx = hdr.wr_count
    BY <2>1 DEF Current
  <2>6. SlotsOK'
    BY <2>1, <2>2, <2>5, <1>i, <1>s DEF SlotsOK, Within, OneFrame, Even
  <2> QED  BY <2>4, <2>6
<1>8. CASE SetCount
  <2>1. /\ hdr' = [hdr EXCEPT !.wr_count = hdr.wr_count + 1]
        /\ seq' = seq /\ word' = word /\ era' = era
        /\ hdr.latest = Cursor
        /\ \A v \in Words : word[Cursor][v] = Current
    BY <1>8 DEF SetCount, WriterAt, Inv, WritingOK
  <2>2. /\ hdr'.latest = hdr.latest /\ hdr'.wr_count = hdr.wr_count + 1
        /\ hdr'.magic = hdr.magic /\ hdr'.nslots = hdr.nslots
        /\ hdr'.slot_size = hdr.slot_size
    BY <2>1, <1>s DEF HdrType
  <2>3. hdr.latest # NoFrame  BY <2>1, <1>c DEF Slots, NoFrame
  <2>4. HeaderUp'  BY <2>1, <2>2, <2>3, <1>i DEF HeaderUp
  <2>5. \A v \in Words : /\ word[Cursor][v].gen = era.gen
                         /\ word[Cursor][v].idx = hdr.wr_count
    BY <2>1 DEF Current
  <2>6. \A i \in Slots, v \in Words : word[i][v].idx \in Int
    BY <1>s DEF Content
  <2>7. SlotsOK'
    BY <2>1, <2>2, <2>5, <2>6, <1>i, <1>s
    DEF SlotsOK, Within, OneFrame, Even
  <2> QED  BY <2>4, <2>7
<1>9. CASE Crash
  BY <1>9, <1>i DEF Crash, readerVars, HeaderUp, SlotsOK, Within, OneFrame,
    Even
<1> QED
  BY <1>1, <1>2, <1>3, <1>4, <1>5, <1>6, <1>7, <1>8, <1>9 DEF WriterStep

(***************************************************************************)
(* The readers' half under the writer's steps.                             *)
(***************************************************************************)
LEMMA WriterReaders ==
  ASSUME Inv, WriterStep \/ Crash
  PROVE  \A r \in Readers : ReaderOK(r)'
<1>i. RingTypeOK /\ \A r \in Readers : ReaderOK(r)  BY DEF Inv, TypeOK
<1>c. Cursor \in Slots  BY <1>i, CursorInRing
<1>s. /\ seq \in [Slots -> Nat] /\ word \in [Slots -> [Words -> Content]]
      /\ hdr \in HdrType /\ hdr.wr_count \in Nat
      /\ span \in [Readers -> [lo : Nat, clean : BOOLEAN]]
  BY <1>i DEF RingTypeOK, HdrType
<1>r. rd' = rd  BY WriterFrame DEF Inv
<1>1. CASE Create
  <2>1. \A r \in Readers : ~span'[r].clean
    BY <1>1, <1>s DEF Create
  <2> QED
    BY <2>1 DEF ReaderOK, SpanOK, FitOK, SlotFresh, CopyOK, ResultOK, Returned
<1>2. CASE \/ \E i \in Slots : MemsetSlot(i)
           \/ \E f \in Fields : FillField(f)
           \/ SetMagic
  <2>1. wr.pc \in {"memset", "fields"} /\ span' = span
    BY <1>2 DEF MemsetSlot, FillField, SetMagic, WriterAt
  <2>2. ~era.up  BY <2>1 DEF Inv, PhaseOK
  <2>3. \A r \in Readers : ~span'[r].clean
    BY <2>1, <2>2, <1>i DEF ReaderOK, SpanOK
  <2> QED
    BY <2>3 DEF ReaderOK, SpanOK, FitOK, SlotFresh, CopyOK, ResultOK, Returned
<1>3. CASE WriteBegin \/ MarkStable
  <2>1. /\ hdr' = hdr /\ word' = word /\ era' = era /\ span' = span
        /\ seq' = [seq EXCEPT ![Cursor] = seq[Cursor] + 1]
    BY <1>3 DEF WriteBegin, MarkStable
  <2>2. \A i \in Slots : seq'[i] >= seq[i]  BY <2>1, <1>s
  <2> QED  BY <2>1, <2>2, <1>i, <1>r, RingGrows, <1>s
<1>4. ASSUME NEW w \in Words, StoreWord(w)
      PROVE  \A r \in Readers : ReaderOK(r)'
  <2>1. /\ hdr' = hdr /\ seq' = seq /\ era' = era /\ span' = span
        /\ word' = [word EXCEPT ![Cursor][w] = Current]
        /\ ~Even(seq[Cursor])
    BY <1>4, <1>c DEF StoreWord, WriterAt, Inv, WritingOK
  <2>2. \A i \in Slots : Even(seq[i]) => word'[i] = word[i]
    BY <2>1, <1>s, <1>c
  <2>3. \A i \in Slots, v \in Words : word'[i][v] \in {word[i][v], Current}
    BY <2>1, <1>s, <1>c
  <2> QED  BY <2>1, <2>2, <2>3, <1>i, <1>r, <1>s, RingGrows DEF Current
<1>5. CASE SetLatest \/ SetCount
  <2>1. /\ seq' = seq /\ word' = word /\ era' = era /\ span' = span
        /\ hdr'.wr_count \in {hdr.wr_count, hdr.wr_count + 1}
    BY <1>5, <1>s DEF SetLatest, SetCount, HdrType
  <2> QED  BY <2>1, <1>i, <1>r, <1>s, RingGrows
<1>6. CASE Crash
  BY <1>6, <1>i DEF Crash, readerVars, ReaderOK, SpanOK, FitOK, Fits, Placed,
    SlotFresh, CopyOK, ResultOK, Returned, Whole, OneFrame, Within, Picked, Copying, Loaded
<1> QED  BY <1>1, <1>2, <1>3, <1>4, <1>5, <1>6 DEF WriterStep

LEMMA InvStep ==
  ASSUME Inv, [Next]_vars
  PROVE  Inv'
<1>1. CASE WriterStep \/ Crash
  BY <1>1, WriterTyping, WriterPhase, WriterWriting, WriterShared,
    WriterReaders DEF Inv
<1>2. ASSUME NEW q \in Readers, ReaderStep(q), wr' = wr  PROVE Inv'
  <2>1. UNCHANGED <<hdr, seq, word, era, wr>>
    BY <1>2, ReaderFrame DEF Inv, TypeOK
  <2>2. TypeOK'
    BY <1>2, <2>1, ReaderTyping DEF Inv, TypeOK, WriterTypeOK
  <2>3. PhaseOK' /\ InitialisingOK' /\ WritingOK'
    BY <2>1 DEF Inv, PhaseOK, InitialisingOK, WritingOK, Cleared, Cursor,
      Current, Even
  <2>4. HeaderUp' /\ SlotsOK' /\ \A r \in Readers : ReaderOK(r)'
    BY <1>2, ReaderInvariant DEF Inv, TypeOK
  <2> QED  BY <2>2, <2>3, <2>4 DEF Inv
<1>3. CASE UNCHANGED vars
  BY <1>3 DEF vars, Inv, TypeOK, RingTypeOK, WriterTypeOK, PhaseOK,
    InitialisingOK, WritingOK, Cleared, Cursor, Current, HeaderUp, SlotsOK,
    ReaderOK, SpanOK, FitOK, Fits, Placed, SlotFresh, CopyOK, ResultOK,
    Returned, Whole, OneFrame, Within, Picked, Copying, Loaded, Even
<1> QED  BY <1>1, <1>2, <1>3 DEF Next

(* The inductive invariant holds in every reachable state of the C ring    *)
(* (common/bat_ring.h with its readers), for every value of the constants. *)
THEOREM Invariance == Spec => []Inv
BY InitInv, InvStep, PTL DEF Spec

(* Every variable keeps its type: in particular latest always names a slot *)
(* or no frame, so no reader indexes outside the ring. *)
THEOREM TypeCorrect == Spec => []TypeOK
<1>1. Inv => TypeOK  BY DEF Inv
<1> QED  BY <1>1, Invariance, PTL

(* The seqlock of bat_ring.h:227-278 never lets a torn copy through. *)
THEOREM NeverTorn == Spec => []NoTornFrame
<1>1. Inv => NoTornFrame  BY DEF Inv, NoTornFrame, ReaderOK, ResultOK
<1> QED  BY <1>1, Invariance, PTL

(* A frame handed over is at most one older than the count of frames that  *)
(* were published when the call began, and was complete. *)
THEOREM AlwaysFresh == Spec => []Freshness
<1>1. Inv => Freshness
  BY DEF Inv, Freshness, ReaderOK, ResultOK, Within
<1> QED  BY <1>1, Invariance, PTL

(* A call that answers "no frame" has missed none. *)
THEOREM NothingMissed == Spec => []NoMissedFrame
<1>1. Inv => NoMissedFrame
  BY DEF Inv, NoMissedFrame, ReaderOK, ResultOK
<1> QED  BY <1>1, Invariance, PTL

(***************************************************************************)
(* A reader's frames in order, restarts between its calls included.        *)
(***************************************************************************)
(* A content that exists already: nothing is of a later initialisation     *)
(* than e, or of e itself before it is complete, or newer than frame n.    *)
Past(c, e, n) ==
  /\ c.gen <= e.gen
  /\ c.gen = e.gen /\ e.gen > 0 => e.up /\ c.idx <= n
  /\ c.gen = 0 => c.idx <= 0

Known(c) == Past(c, era, hdr.wr_count)

OrderOK(r) ==
  /\ Known(rd[r].last)
  /\ \A w \in Words : Known(rd[r].copy[w])
  /\ span[r].clean /\ rd[r].pc \in InCall /\ rd[r].last.gen = era.gen =>
       rd[r].last.idx <= span[r].lo

OrderInv ==
  /\ Inv
  /\ \A i \in Slots, w \in Words : Known(word[i][w])
  /\ \A r \in Readers : OrderOK(r)

LEMMA InitOrder ==
  ASSUME Init
  PROVE  OrderInv
<1>1. Inv  BY InitInv
<1>3. Known(Zero) /\ Known(Unread)
  BY DEF Init, RingInit, Known, Past, Zero, Unread
<1>4. \A i \in Slots, w \in Words : Known(word[i][w])
  BY <1>3 DEF Init, RingInit
<1>5. \A r \in Readers : OrderOK(r)
  BY <1>3 DEF Init, RingInit, Detached, OrderOK, InCall
<1> QED  BY <1>1, <1>4, <1>5 DEF OrderInv

(* What exists goes on existing. *)
LEMMA StillPast ==
  ASSUME Inv, WriterStep \/ Crash, NEW c \in Content,
         Past(c, era, hdr.wr_count)
  PROVE  Past(c, era', hdr'.wr_count)
<1>i. PhaseOK  BY DEF Inv
<1>h. /\ hdr \in HdrType /\ hdr.wr_count \in Nat
      /\ era \in [gen : Nat, up : BOOLEAN]
  BY DEF Inv, TypeOK, RingTypeOK, HdrType
<1>c. c.gen \in Nat /\ c.idx \in Int  BY DEF Content
<1>1. CASE Create
  <2>1. era'.gen = era.gen + 1  BY <1>1 DEF Create
  <2> QED  BY <2>1, <1>h, <1>c DEF Past
<1>2. CASE \/ \E i \in Slots : MemsetSlot(i)
           \/ \E f \in Fields : FillField(f)
  <2>1. wr.pc \in {"memset", "fields"} /\ era' = era
    BY <1>2 DEF MemsetSlot, FillField, WriterAt
  <2>2. ~era.up /\ era.gen > 0  BY <2>1, <1>i DEF PhaseOK
  <2> QED  BY <2>1, <2>2 DEF Past
<1>3. CASE SetMagic
  <2>1. era'.gen = era.gen /\ wr.pc = "fields"
    BY <1>3, <1>h DEF SetMagic, WriterAt
  <2>2. ~era.up /\ era.gen > 0  BY <2>1, <1>i DEF PhaseOK
  <2> QED  BY <2>1, <2>2 DEF Past
<1>4. CASE SetLatest
  <2>1. era' = era /\ hdr' = [hdr EXCEPT !.latest = Cursor]
    BY <1>4 DEF SetLatest
  <2>2. hdr'.wr_count = hdr.wr_count  BY <2>1, <1>h DEF HdrType
  <2> QED  BY <2>1, <2>2 DEF Past
<1>5. CASE SetCount
  <2>1. era' = era /\ hdr' = [hdr EXCEPT !.wr_count = hdr.wr_count + 1]
    BY <1>5 DEF SetCount
  <2>2. hdr'.wr_count = hdr.wr_count + 1  BY <2>1, <1>h DEF HdrType
  <2> QED  BY <2>1, <2>2, <1>h, <1>c DEF Past
<1>6. CASE WriteBegin \/ MarkStable \/ Crash \/ \E w \in Words : StoreWord(w)
  <2>1. era' = era /\ hdr' = hdr
    BY <1>6 DEF WriteBegin, MarkStable, Crash, StoreWord, readerVars
  <2> QED  BY <2>1 DEF Past
<1> QED  BY <1>1, <1>2, <1>3, <1>4, <1>5, <1>6 DEF WriterStep

(* A word that the writer stores is newer than anything a reader has. *)
LEMMA WriterWords ==
  ASSUME Inv, WriterStep \/ Crash, NEW i \in Slots, NEW w \in Words
  PROVE  \/ word'[i][w] = word[i][w]
         \/ word'[i][w] = Zero /\ wr.pc = "memset"
         \/ word'[i][w] = Current /\ era.up /\ wr.pc = "copy" /\ era' = era
            /\ hdr' = hdr
<1>s. word \in [Slots -> [Words -> Content]]  BY DEF Inv, TypeOK, RingTypeOK
<1>c. Cursor \in Slots  BY CursorInRing DEF Inv, TypeOK
<1>1. ASSUME NEW j \in Slots, MemsetSlot(j)
      PROVE  \/ word'[i][w] = word[i][w]
             \/ word'[i][w] = Zero /\ wr.pc = "memset"
  <2>1. /\ wr.pc = "memset"
        /\ word' = [word EXCEPT ![j] = [v \in Words |-> Zero]]
    BY <1>1 DEF MemsetSlot, WriterAt
  <2> QED  BY <2>1, <1>s
<1>2. ASSUME NEW v \in Words, StoreWord(v)
      PROVE  \/ word'[i][w] = word[i][w]
             \/ word'[i][w] = Current /\ era.up /\ wr.pc = "copy"
                /\ era' = era /\ hdr' = hdr
  <2>1. /\ wr.pc = "copy" /\ era' = era /\ hdr' = hdr
        /\ word' = [word EXCEPT ![Cursor][v] = Current]
    BY <1>2 DEF StoreWord, WriterAt
  <2>2. era.up  BY <2>1 DEF Inv, PhaseOK, Writing
  <2>3. word'[i][w] \in {word[i][w], Current}  BY <2>1, <1>s, <1>c
  <2> QED  BY <2>1, <2>2, <2>3
<1>3. CASE \/ Create \/ SetMagic \/ WriteBegin \/ MarkStable
           \/ SetLatest \/ SetCount \/ Crash
           \/ \E f \in Fields : FillField(f)
  BY <1>3 DEF Create, SetMagic, WriteBegin, MarkStable, SetLatest, SetCount,
    Crash, FillField, readerVars
<1> QED  BY <1>1, <1>2, <1>3 DEF WriterStep

LEMMA WriterOrder ==
  ASSUME OrderInv, WriterStep \/ Crash
  PROVE  OrderInv'
<1>i. Inv /\ RingTypeOK
  BY DEF OrderInv, Inv, TypeOK
<1>0. Inv'
  <2>1. Next  BY DEF Next
  <2> QED  BY <2>1, <1>i, InvStep
<1>h. /\ hdr \in HdrType /\ hdr.wr_count \in Nat
      /\ era \in [gen : Nat, up : BOOLEAN] /\ era.gen \in Nat
      /\ word \in [Slots -> [Words -> Content]]
      /\ rd \in [Readers -> ReaderType]
      /\ span \in [Readers -> [lo : Nat, clean : BOOLEAN]]
  BY <1>i DEF RingTypeOK, HdrType
<1>r. rd' = rd  BY <1>i, WriterFrame DEF Inv
<1>z. 0 <= era'.gen  BY <1>0 DEF Inv, TypeOK, RingTypeOK
<1>k. \A c \in Content :
        Past(c, era, hdr.wr_count) => Past(c, era', hdr'.wr_count)
  BY <1>i, StillPast
<1>2. ASSUME NEW i \in Slots, NEW w \in Words
      PROVE  Known(word[i][w])'
  <2>0. word[i][w] \in Content /\ Past(word[i][w], era, hdr.wr_count)
    BY <1>h DEF OrderInv, Known
  <2>1. CASE word'[i][w] = word[i][w]
    BY <2>0, <2>1, <1>k DEF Known
  <2>2. CASE word'[i][w] = Zero
    BY <2>2, <1>z DEF Known, Past, Zero
  <2>3. CASE /\ word'[i][w] = Current /\ era.up /\ wr.pc = "copy"
             /\ era' = era /\ hdr' = hdr
    <3>1. era.gen > 0  BY <2>3, <1>i DEF Inv, HeaderUp
    <3> QED  BY <2>3, <3>1, <1>h DEF Known, Past, Current
  <2> QED  BY <2>1, <2>2, <2>3, <1>i, WriterWords
<1>g. ASSUME NEW r \in Readers, span'[r].clean
      PROVE  era'.gen = era.gen /\ span' = span
  <2>1. CASE Create
    <3>1. ~span'[r].clean  BY <2>1, <1>h DEF Create
    <3> QED  BY <3>1, <1>g
  <2>2. CASE ~Create
    BY <2>2, <1>h DEF WriterStep, Crash, readerVars, MemsetSlot, FillField,
      SetMagic, WriteBegin, StoreWord, MarkStable, SetLatest, SetCount
  <2> QED  BY <2>1, <2>2
<1>3. ASSUME NEW r \in Readers  PROVE OrderOK(r)'
  <2>0. /\ OrderOK(r) /\ rd[r].last \in Content
        /\ \A w \in Words : rd[r].copy[w] \in Content
    BY <1>h DEF OrderInv, ReaderType
  <2>1. /\ Known(rd[r].last)'
        /\ \A w \in Words : Known(rd[r].copy[w])'
    BY <2>0, <1>k, <1>r DEF OrderOK, Known
  <2> QED  BY <2>0, <2>1, <1>r, <1>g DEF OrderOK
<1> QED  BY <1>0, <1>2, <1>3 DEF OrderInv

(* Attaching leaves what the reader has alone, or starts it afresh. *)
LEMMA OpenKeeps ==
  ASSUME RingTypeOK, NEW q \in Readers, OpenStep(q)
  PROVE  \/ rd'[q] = Detached
         \/ /\ rd'[q].last = rd[q].last /\ rd'[q].copy = rd[q].copy
            /\ rd'[q].tries = rd[q].tries /\ rd'[q].rc = rd[q].rc
<1>2. rd[q] \in ReaderType /\ rd \in [Readers -> ReaderType]
  BY DEF RingTypeOK
<1>1. CASE Open(q)
  <2>1. rd'[q] = [rd[q] EXCEPT !.pc = "open"]  BY <1>1, <1>2 DEF Open
  <2> QED  BY <2>1, <1>2 DEF ReaderType
<1>3. CASE Refuse(q)  BY <1>3, <1>2 DEF Refuse, Attach
<1>4. CASE CheckHeader(q)
  <2>1. \/ rd'[q] = [rd[q] EXCEPT !.pc = "idle"]
        \/ rd'[q] = [rd[q] EXCEPT !.pc = "map"]
    BY <1>4, <1>2 DEF CheckHeader, Attach
  <2> QED  BY <2>1, <1>2 DEF ReaderType
<1>5. CASE MapSlots(q)
  <2>1. rd'[q] = [rd[q] EXCEPT !.pc = "buffer", !.stride = hdr.slot_size]
    BY <1>5, <1>2 DEF MapSlots
  <2> QED  BY <2>1, <1>2 DEF ReaderType
<1>6. CASE SizeBuffer(q)
  <2>1. \/ rd'[q] = [rd[q] EXCEPT !.pc = "idle", !.buf = hdr.slot_size]
        \/ rd'[q] = Detached
    BY <1>6, <1>2 DEF SizeBuffer, Attach
  <2> QED  BY <2>1, <1>2 DEF ReaderType
<1> QED  BY <1>1, <1>3, <1>4, <1>5, <1>6 DEF OpenStep

(* What a reader has is what exists, and what it had when a call began was *)
(* published then, or about to be. *)
LEMMA CallerOrder ==
  ASSUME OrderInv, NEW q \in Readers, ReaderStep(q)
  PROVE  /\ OrderOK(q)'
         /\ (rd'[q].rc = "ok" /\ span[q].clean /\ rd'[q].last.gen = rd[q].last.gen)
              => rd'[q].last.idx >= rd[q].last.idx - 1
<1>i. Inv /\ RingTypeOK /\ OrderOK(q) /\ ReaderOK(q) /\ HeaderUp
  BY DEF OrderInv, Inv, TypeOK
<1>f. hdr' = hdr /\ seq' = seq /\ word' = word /\ era' = era
  BY <1>i, ReaderFrame
<1>2. rd[q] \in ReaderType /\ rd \in [Readers -> ReaderType]
  BY <1>i DEF RingTypeOK
<1>h. /\ rd[q].idx \in Slots /\ rd[q].copy \in [Words -> Content]
      /\ rd[q].last.gen \in Nat /\ rd[q].last.idx \in Int
      /\ rd[q].last \in Content /\ span[q].lo \in Nat /\ hdr.wr_count \in Nat
      /\ era.gen \in Nat
  BY <1>2, <1>i DEF ReaderType, RingTypeOK, HdrType, Content
<1>n. "stamp" \in Words  BY DEF Words, Meta
<1>l. Known(rd[q].last) /\ \A w \in Words : Known(rd[q].copy[w])
  BY <1>i DEF OrderOK
<1>k. \A c : Known(c)' <=> Known(c)  BY <1>f DEF Known
<1>u. Known(Unread) /\ Known(Zero)
  BY <1>h DEF Known, Past, Unread, Zero
<1>s. \A w \in Words : Known(word[rd[q].idx][w])
  BY <1>h DEF OrderInv
<1>e. rd[q].last.idx >= rd[q].last.idx - 1  BY <1>h
(* A call in progress that keeps the last frame, and its beginning. *)
<1>3. ASSUME rd'[q].last = rd[q].last,
             \A w \in Words : Known(rd'[q].copy[w]),
             CallStep(q) \/ rd'[q].pc \notin InCall
      PROVE  /\ OrderOK(q)'
             /\ (rd'[q].rc = "ok" /\ span[q].clean /\ rd'[q].last.gen = rd[q].last.gen)
                  => rd'[q].last.idx >= rd[q].last.idx - 1
  <2>1. Known(rd'[q].last) /\ \A w \in Words : Known(rd'[q].copy[w])
    BY <1>3, <1>l
  <2>2. CallStep(q) => span' = span /\ rd[q].pc \in InCall
    BY <1>i, CallFacts
  <2>3. span'[q].clean /\ rd'[q].pc \in InCall /\ rd'[q].last.gen = era'.gen =>
          rd'[q].last.idx <= span'[q].lo
    BY <1>3, <2>2, <1>f, <1>i DEF OrderOK
  <2>4. Known(rd[q].last)' /\ \A w \in Words : Known(rd[q].copy[w])'
    BY <2>1, <1>f DEF Known
  <2> QED  BY <2>3, <2>4, <1>3, <1>e DEF OrderOK
<1>5. CASE OpenStep(q)
  <2>1. rd'[q].pc \notin InCall  BY <1>5, <1>i, OpenFacts DEF InCall, Opening
  <2>2. \/ rd'[q].last = rd[q].last /\ rd'[q].copy = rd[q].copy
        \/ rd'[q] = Detached
    BY <1>5, <1>i, OpenKeeps
  <2>3. CASE rd'[q].last = rd[q].last /\ rd'[q].copy = rd[q].copy
    BY <2>1, <2>3, <1>3, <1>l
  <2>4. CASE rd'[q] = Detached
    <3>1. /\ rd'[q].last = Unread /\ rd'[q].rc = "none"
          /\ \A w \in Words : rd'[q].copy[w] = Unread
      BY <2>4 DEF Detached
    <3>2. Known(rd[q].last)' /\ \A w \in Words : Known(rd[q].copy[w])'
      BY <3>1, <1>u, <1>f DEF Known
    <3> QED  BY <3>1, <3>2, <2>1 DEF OrderOK
  <2> QED  BY <2>2, <2>3, <2>4
<1>6. CASE Begin(q)
  <2>1. rd'[q] = [rd[q] EXCEPT !.pc = "latest",
                               !.copy = [w \in Words |-> Unread]]
    BY <1>6, <1>2 DEF Begin
  <2>2. /\ rd'[q].last = rd[q].last
        /\ \A w \in Words : rd'[q].copy[w] = Unread
    BY <2>1, <1>2 DEF ReaderType
  <2>3. Known(rd[q].last)' /\ \A w \in Words : Known(rd[q].copy[w])'
    BY <2>2, <1>l, <1>u, <1>f DEF Known
  <2>4. ASSUME span'[q].clean, rd[q].last.gen = era.gen
        PROVE  rd[q].last.idx <= span'[q].lo
    <3>1. era.up /\ span'[q].lo = hdr.wr_count
      BY <1>6, <2>4, <1>i, BeginFacts
    <3>2. era.gen > 0  BY <3>1, <1>i DEF HeaderUp
    <3> QED  BY <3>1, <3>2, <2>4, <1>l DEF Known, Past
  <2> QED  BY <2>2, <2>3, <2>4, <1>f, <1>e DEF OrderOK
<1>7. CASE GiveUp(q) \/ SeeNothing(q) \/ BadSlot(q) \/ Duplicate(q)
           \/ TooBig(q)
  <2>1. PICK rc : Return(q, rc)
    BY <1>7 DEF GiveUp, SeeNothing, BadSlot, Duplicate, TooBig
  <2>2. rd'[q] = Ended(rd[q], rc, rd[q].last)  BY <2>1, <1>2 DEF Return
  <2>3. rd'[q].copy = rd[q].copy /\ rd'[q].last = rd[q].last
    BY <2>2 DEF Ended
  <2> QED  BY <2>3, <1>3, <1>7, <1>l DEF CallStep
<1>8. CASE Succeed(q)
  <2>1. /\ rd'[q] = Ended(rd[q], "ok", rd[q].copy["stamp"])
        /\ rd[q].pc = "data" /\ rd[q].todo = {}
    BY <1>8, <1>2 DEF Succeed
  <2>2. /\ rd'[q].pc = "idle" /\ rd'[q].copy = rd[q].copy
        /\ rd'[q].last = rd[q].copy["stamp"]
    BY <2>1 DEF Ended
  <2>3. Known(rd[q].last)' /\ \A w \in Words : Known(rd[q].copy[w])'
    BY <2>2, <1>l, <1>n, <1>f DEF Known
  <2>4. ASSUME span[q].clean, rd[q].copy["stamp"].gen = rd[q].last.gen
        PROVE  rd[q].copy["stamp"].idx >= rd[q].last.idx - 1
    <3>1. "stamp" \in Loaded(q) /\ Copying(q)
      BY <2>1, <1>n DEF Loaded, Copying
    <3>2. Within(rd[q].copy["stamp"], span[q].lo - 1)
      BY <2>4, <3>1, <1>i DEF ReaderOK, CopyOK
    <3>3. rd[q].last.idx <= span[q].lo
      BY <2>1, <2>4, <3>2, <1>i DEF OrderOK, Within, InCall
    <3>4. rd[q].copy["stamp"].idx \in Int  BY <1>h, <1>n DEF Content
    <3> QED  BY <3>2, <3>3, <3>4, <1>h DEF Within
  <2> QED  BY <2>2, <2>3, <2>4 DEF OrderOK, InCall
<1>9. CASE \/ SlotBusy(q) \/ Torn(q) \/ GoodSlot(q) \/ SlotStable(q)
           \/ CopyPayload(q) \/ LoadMagic(q) \/ LoadNSlots(q)
           \/ LoadSlotSize(q)
  <2>1. rd'[q].copy = rd[q].copy /\ rd'[q].last = rd[q].last
    <3>1. CASE SlotBusy(q) \/ Torn(q)
      BY <3>1, <1>2 DEF SlotBusy, Torn, Retry, ReaderType
    <3>2. CASE GoodSlot(q)  BY <3>2, <1>2 DEF GoodSlot, ReaderType
    <3>3. CASE SlotStable(q)
      BY <3>3, <1>2 DEF SlotStable, ReaderType
    <3>4. CASE CopyPayload(q)  BY <3>4, <1>2 DEF CopyPayload, ReaderType
    <3>5. CASE LoadMagic(q)  BY <3>5, <1>2 DEF LoadMagic, ReaderType
    <3>6. CASE LoadNSlots(q)  BY <3>6, <1>2 DEF LoadNSlots, ReaderType
    <3>7. CASE LoadSlotSize(q)  BY <3>7, <1>2 DEF LoadSlotSize, ReaderType
    <3> QED  BY <1>9, <3>1, <3>2, <3>3, <3>4, <3>5, <3>6, <3>7
  <2> QED  BY <2>1, <1>3, <1>9, <1>l DEF CallStep
<1>10. CASE PickSlot(q)
  <2>1. rd'[q] = [rd[q] EXCEPT
             !.pc = IF q \in PyReaders THEN "seq0" ELSE "bound",
             !.idx = hdr.latest, !.copy = [w \in Words |-> Unread]]
    BY <1>10, <1>2 DEF PickSlot
  <2>2. rd'[q].last = rd[q].last /\ \A w \in Words : rd'[q].copy[w] = Unread
    BY <2>1, <1>2 DEF ReaderType
  <2> QED  BY <2>2, <1>3, <1>10, <1>u DEF CallStep
<1>14. ASSUME NEW w \in Words, LoadWord(q, w)
       PROVE  rd'[q].last = rd[q].last /\ \A v \in Words : Known(rd'[q].copy[v])
  <2>1. PICK c \in Found(q, w) :
          rd' = [rd EXCEPT ![q] = [@ EXCEPT !.todo = rd[q].todo \ {w}, !.copy[w] = c]]
    BY <1>14 DEF LoadWord
  <2>2. Known(c)  BY <2>1, <1>s, <1>u DEF Found, Junk
  <2>3. /\ rd'[q].last = rd[q].last
        /\ rd'[q].copy = [rd[q].copy EXCEPT ![w] = c]
    BY <2>1, <1>2 DEF ReaderType
  <2>4. \A v \in Words : rd'[q].copy[v] \in {rd[q].copy[v], c}
    BY <2>3, <1>h
  <2> QED  BY <2>2, <2>3, <2>4, <1>l
<1>15. CASE \E w \in Words : LoadWord(q, w)
  <2>1. rd'[q].last = rd[q].last /\ \A v \in Words : Known(rd'[q].copy[v])
    BY <1>14, <1>15
  <2> QED  BY <2>1, <1>3, <1>15 DEF CallStep
<1> QED
  BY <1>5, <1>6, <1>7, <1>8, <1>9, <1>10, <1>15 DEF ReaderStep, CallStep

LEMMA OrderStep ==
  ASSUME OrderInv, [Next]_vars
  PROVE  OrderInv'
<1>0. Inv'  BY InvStep DEF OrderInv
<1>1. CASE WriterStep \/ Crash  BY <1>1, WriterOrder
<1>2. ASSUME NEW q \in Readers, ReaderStep(q), wr' = wr  PROVE OrderInv'
  <2>1. hdr' = hdr /\ seq' = seq /\ word' = word /\ era' = era
    BY <1>2, ReaderFrame DEF OrderInv, Inv, TypeOK
  <2>2. \A i \in Slots, w \in Words : Known(word[i][w])'
    BY <2>1 DEF OrderInv, Known
  <2>3. OrderOK(q)'  BY <1>2, CallerOrder
  <2>4. ASSUME NEW r \in Readers, r # q  PROVE OrderOK(r)'
    <3>1. rd'[r] = rd[r] /\ span'[r] = span[r]
      BY <1>2, <2>4, ReaderFrame DEF OrderInv, Inv, TypeOK
    <3> QED  BY <3>1, <2>1 DEF OrderInv, OrderOK, Known
  <2> QED  BY <1>0, <2>2, <2>3, <2>4 DEF OrderInv
<1>3. CASE UNCHANGED vars
  BY <1>0, <1>3 DEF vars, OrderInv, Known, OrderOK
<1> QED  BY <1>1, <1>2, <1>3 DEF Next

LEMMA OrderKept ==
  ASSUME OrderInv, [Next]_vars
  PROVE  [\A r \in Readers :
            (rd'[r].rc = "ok" /\ span[r].clean /\ rd'[r].last.gen = rd[r].last.gen)
              => rd'[r].last.idx >= rd[r].last.idx - 1]_rd
<1>t. RingTypeOK /\ \A r \in Readers : rd[r].last.idx \in Int
  BY DEF OrderInv, Inv, TypeOK, RingTypeOK, ReaderType, Content
<1>1. ASSUME NEW q \in Readers, ReaderStep(q), NEW r \in Readers,
             rd'[r].rc = "ok", span[r].clean,
             rd'[r].last.gen = rd[r].last.gen
      PROVE  rd'[r].last.idx >= rd[r].last.idx - 1
  <2>1. CASE r = q  BY <1>1, <2>1, CallerOrder
  <2>2. CASE r # q
    <3>1. rd'[r] = rd[r]  BY <1>1, <2>2, <1>t, ReaderFrame
    <3> QED  BY <3>1, <1>t
  <2> QED  BY <2>1, <2>2
<1>2. CASE WriterStep \/ Crash
  BY <1>2, WriterFrame DEF OrderInv, Inv
<1>3. CASE UNCHANGED vars  BY <1>3 DEF vars
<1> QED  BY <1>1, <1>2, <1>3 DEF Next

(* The frames that a reader gets in a row: whatever calls lie in between,  *)
(* and whatever restarts and overtaken calls, the next of one              *)
(* initialisation is at most one older, unless a re-initialisation         *)
(* overtook the very call that returns it.                                 *)
THEOREM NeverFarBack == Spec => BackwardsByAtMostOne
<1>1. Spec => []OrderInv  BY InitOrder, OrderStep, PTL DEF Spec
<1> QED  BY <1>1, OrderKept, PTL DEF Spec, BackwardsByAtMostOne

(***************************************************************************)
(* What the slots are numbered for: the slot named by latest is never the  *)
(* one being overwritten, and a reader loses an attempt only to a writer   *)
(* that has gone round the ring since the reader looked.                   *)
(***************************************************************************)
(* Where latest points: the last frame published or, between the stores of *)
(* latest and of wr_count, the frame that is about to be.                  *)
LatestPlace ==
  era.up /\ hdr.latest # NoFrame =>
    \/ wr.pc \in {"count", "down"} /\ hdr.latest = Cursor
    \/ /\ wr.pc # "count"
       /\ hdr.wr_count > 0
       /\ hdr.latest = (hdr.wr_count - 1) % NSlots

Lap == NSlots - 1

(* The frames a reader's failed attempts account for since its call began. *)
Target(r) == span[r].lo + rd[r].tries * Lap
Lapped(r) == hdr.wr_count >= Target(r) + Lap

Busy(r) == rd[r].pc \in InCall

(* The slot the reader chose has not been written since; it holds a frame  *)
(* p that was the newest when the reader looked.                           *)
Undisturbed(r) ==
  /\ Even(seq[rd[r].idx])
  /\ Copying(r) => seq[rd[r].idx] = rd[r].s0
  /\ \E p \in 0 .. hdr.wr_count :
       /\ p % NSlots = rd[r].idx
       /\ p + 1 >= Target(r)
       /\ p < hdr.wr_count \/ wr.pc \in {"count", "down"}

LapOK(r) ==
  /\ ~Busy(r) => rd[r].tries = 0
  /\ span[r].clean =>
       /\ Busy(r) => hdr.wr_count >= Target(r)
       /\ Picked(r) => Lapped(r) \/ Undisturbed(r)
       /\ rd[r].pc = "idle" /\ rd[r].rc = "raced" =>
            hdr.wr_count >= span[r].lo + MaxAttempts * Lap

LapInv ==
  /\ Inv
  /\ MagicIsLast
  /\ LatestPlace /\ LatestIsWhole
  /\ \A r \in Readers : LapOK(r)

(* Attempts and laps: the products that count them. *)
LEMMA Rounds ==
  /\ Lap \in Nat
  /\ 0 * Lap = 0
  /\ \A t \in Nat : t * Lap \in Nat /\ (t + 1) * Lap = t * Lap + Lap
<1> DEFINE L == NSlots - 1
<1>1. L \in Nat  OBVIOUS
<1> HIDE DEF L
<1>2. 0 * L = 0 /\ \A t \in Nat : t * L \in Nat /\ (t + 1) * L = t * L + L
  BY <1>1
<1> QED  BY <1>1, <1>2 DEF Lap, L

LEMMA TargetType ==
  ASSUME RingTypeOK, NEW r \in Readers
  PROVE  /\ hdr.wr_count \in Nat /\ span[r].lo \in Nat
         /\ rd[r].tries \in Nat /\ Target(r) \in Nat
<1>1. /\ hdr.wr_count \in Nat /\ span[r].lo \in Nat /\ rd[r].tries \in Nat
  BY DEF RingTypeOK, HdrType, ReaderType
<1> QED  BY <1>1, Rounds DEF Target

LEMMA InitLap ==
  ASSUME Init
  PROVE  LapInv
<1>1. Inv  BY InitInv
<1>2. MagicIsLast /\ LatestPlace /\ LatestIsWhole
  BY DEF Init, RingInit, EmptyHdr, MagicIsLast, LatestPlace, LatestIsWhole
<1>3. \A r \in Readers : LapOK(r)
  BY DEF Init, RingInit, Detached, LapOK, Busy, InCall
<1> QED  BY <1>1, <1>2, <1>3 DEF LapInv

(***************************************************************************)
(* The header under the writer's steps.                                    *)
(***************************************************************************)
LEMMA WriterMagic ==
  ASSUME Inv, MagicIsLast, WriterStep \/ Crash
  PROVE  MagicIsLast'
<1>h. hdr \in HdrType  BY DEF Inv, TypeOK, RingTypeOK
<1>c. Cursor \in Slots  BY CursorInRing DEF Inv, TypeOK
<1>1. CASE Create  BY <1>1 DEF Create, EmptyHdr, MagicIsLast
<1>2. ASSUME NEW f \in Fields, FillField(f)  PROVE MagicIsLast'
  <2>2. CASE f = "nslots"
    <3>1. hdr' = [hdr EXCEPT !.nslots = NSlots]  BY <1>2, <2>2 DEF FillField
    <3> QED  BY <1>h, <3>1 DEF HdrType, MagicIsLast
  <2>3. CASE f = "slot_size"
    <3>1. hdr' = [hdr EXCEPT !.slot_size = 1]  BY <1>2, <2>3 DEF FillField
    <3> QED  BY <1>h, <3>1 DEF HdrType, MagicIsLast
  <2>4. CASE f = "latest"
    <3>1. hdr' = [hdr EXCEPT !.latest = NoFrame]  BY <1>2, <2>4 DEF FillField
    <3> QED  BY <1>h, <3>1 DEF HdrType, MagicIsLast
  <2> QED  BY <2>2, <2>3, <2>4 DEF Fields
<1>3. CASE SetMagic
  <2>1. hdr' = [hdr EXCEPT !.magic = TRUE]  BY <1>3 DEF SetMagic
  <2>2. hdr.nslots = NSlots /\ hdr.slot_size = 1
    BY <1>3 DEF SetMagic, WriterAt, Inv, InitialisingOK
  <2> QED  BY <1>h, <2>1, <2>2 DEF HdrType, MagicIsLast
<1>4. CASE SetLatest
  <2>1. hdr' = [hdr EXCEPT !.latest = Cursor]  BY <1>4 DEF SetLatest
  <2> QED  BY <1>h, <2>1 DEF HdrType, MagicIsLast
<1>5. CASE SetCount
  <2>1. hdr' = [hdr EXCEPT !.wr_count = hdr.wr_count + 1]
    BY <1>5 DEF SetCount
  <2> QED  BY <1>h, <2>1 DEF HdrType, MagicIsLast
<1>6. CASE \/ \E i \in Slots : MemsetSlot(i)
           \/ WriteBegin \/ MarkStable \/ Crash
           \/ \E w \in Words : StoreWord(w)
  <2>1. hdr' = hdr
    BY <1>6 DEF MemsetSlot, WriteBegin, MarkStable, Crash, StoreWord,
      readerVars
  <2> QED  BY <2>1 DEF MagicIsLast
<1> QED  BY <1>1, <1>2, <1>3, <1>4, <1>5, <1>6 DEF WriterStep

LEMMA WriterLatest ==
  ASSUME Inv, LatestPlace, LatestIsWhole, WriterStep \/ Crash
  PROVE  LatestPlace' /\ LatestIsWhole'
<1>i. RingTypeOK /\ WritingOK  BY DEF Inv, TypeOK
<1>c. Cursor \in Slots  BY <1>i, CursorInRing
<1>s. /\ seq \in [Slots -> Nat] /\ word \in [Slots -> [Words -> Content]]
      /\ hdr \in HdrType /\ hdr.wr_count \in Nat
      /\ hdr.latest \in Slots \cup {NoFrame}
  BY <1>i DEF RingTypeOK, HdrType
<1>n. hdr.wr_count \in Nat  BY <1>s
<1>1. CASE Create  BY <1>1 DEF Create, LatestPlace, LatestIsWhole
<1>2. CASE \/ \E i \in Slots : MemsetSlot(i)
           \/ \E f \in Fields : FillField(f)
  <2>1. wr.pc \in {"memset", "fields"} /\ era' = era
    BY <1>2 DEF MemsetSlot, FillField, WriterAt
  <2>2. ~era'.up  BY <2>1 DEF Inv, PhaseOK
  <2> QED  BY <2>2 DEF LatestPlace, LatestIsWhole
<1>3. CASE SetMagic
  <2>1. hdr' = [hdr EXCEPT !.magic = TRUE] /\ hdr.latest = NoFrame
    BY <1>3 DEF SetMagic, WriterAt, Inv, InitialisingOK
  <2>2. hdr'.latest = NoFrame  BY <2>1, <1>s DEF HdrType
  <2> QED  BY <2>2 DEF LatestPlace, LatestIsWhole
<1>4. CASE WriteBegin
  <2>1. /\ hdr' = hdr /\ word' = word /\ era' = era
        /\ seq' = [seq EXCEPT ![Cursor] = seq[Cursor] + 1]
        /\ wr.pc = "ready" /\ wr'.pc = "copy"
    BY <1>4 DEF WriteBegin, WriterAt, Goto
  <2>2. LatestPlace'  BY <2>1 DEF LatestPlace, Cursor
  <2>3. SUFFICES ASSUME era.up, hdr.latest # NoFrame, NSlots > 1
                 PROVE  Even(seq'[hdr.latest]) /\ Whole(word[hdr.latest])
    BY <2>1, <2>2 DEF LatestIsWhole, Whole, OneFrame, Even
  <2>4. /\ hdr.wr_count > 0
        /\ hdr.latest = (hdr.wr_count - 1) % NSlots
    BY <2>1, <2>3 DEF LatestPlace
  <2>5. hdr.latest # Cursor
    <3>1. SUFFICES ASSUME hdr.latest = Cursor  PROVE FALSE
      OBVIOUS
    <3>2. hdr.wr_count >= (hdr.wr_count - 1) + NSlots
      <4>1. /\ hdr.wr_count - 1 \in Nat
            /\ hdr.wr_count - 1 < hdr.wr_count
        BY <2>4, <1>s
      <4>2. hdr.wr_count % NSlots = (hdr.wr_count - 1) % NSlots
        BY <2>4, <3>1 DEF Cursor
      <4>3. hdr.wr_count \in Nat /\ NSlots \in Nat /\ NSlots > 0
        BY <1>n
      <4> QED  BY <4>1, <4>2, <4>3, Apart
    <3> QED  BY <3>2, <2>3, <1>s
  <2>6. seq'[hdr.latest] = seq[hdr.latest]
    BY <2>1, <2>3, <2>5, <1>s
  <2> QED  BY <2>3, <2>6 DEF LatestIsWhole
<1>5. ASSUME NEW w \in Words, StoreWord(w)
      PROVE  LatestPlace' /\ LatestIsWhole'
  <2>1. /\ hdr' = hdr /\ seq' = seq /\ era' = era
        /\ word' = [word EXCEPT ![Cursor][w] = Current]
        /\ wr.pc = "copy" /\ wr'.pc = "copy" /\ ~Even(seq[Cursor])
    BY <1>5, <1>i, <1>c DEF StoreWord, WriterAt, Goto, WritingOK
  <2>2. LatestPlace'  BY <2>1 DEF LatestPlace, Cursor
  <2>3. SUFFICES ASSUME era.up, hdr.latest # NoFrame, NSlots > 1
                 PROVE  Even(seq[hdr.latest]) /\ Whole(word'[hdr.latest])
    BY <2>1, <2>2 DEF LatestIsWhole, Whole, OneFrame, Even
  <2>4. Even(seq[hdr.latest]) /\ Whole(word[hdr.latest])
    BY <2>3 DEF LatestIsWhole
  <2>5. hdr.latest # Cursor  BY <2>1, <2>4
  <2>6. word'[hdr.latest] = word[hdr.latest]
    BY <2>1, <2>3, <2>5, <1>s
  <2> QED  BY <2>4, <2>6
<1>6. CASE MarkStable
  <2>1. /\ hdr' = hdr /\ word' = word /\ era' = era
        /\ seq' = [seq EXCEPT ![Cursor] = seq[Cursor] + 1]
        /\ wr.pc = "copy" /\ wr'.pc = "latest" /\ ~Even(seq[Cursor])
    BY <1>6, <1>i, <1>c DEF MarkStable, WriterAt, Goto, WritingOK
  <2>2. LatestPlace'  BY <2>1 DEF LatestPlace, Cursor
  <2>3. SUFFICES ASSUME era.up, hdr.latest # NoFrame, NSlots > 1
                 PROVE  Even(seq'[hdr.latest]) /\ Whole(word[hdr.latest])
    BY <2>1, <2>2 DEF LatestIsWhole, Whole, OneFrame, Even
  <2>4. Even(seq[hdr.latest]) /\ Whole(word[hdr.latest])
    BY <2>3 DEF LatestIsWhole
  <2>5. hdr.latest # Cursor  BY <2>1, <2>4
  <2>6. seq'[hdr.latest] = seq[hdr.latest]
    BY <2>1, <2>3, <2>5, <1>s
  <2> QED  BY <2>4, <2>6
<1>7. CASE SetLatest
  <2>1. /\ hdr' = [hdr EXCEPT !.latest = Cursor]
        /\ seq' = seq /\ word' = word /\ era' = era
        /\ wr.pc = "latest" /\ wr'.pc = "count"
        /\ Even(seq[Cursor])
        /\ \A v \in Words : word[Cursor][v] = Current
    BY <1>7, <1>i, <1>c DEF SetLatest, WriterAt, Goto, WritingOK
  <2>2. hdr'.latest = Cursor /\ hdr'.wr_count = hdr.wr_count
    BY <2>1, <1>s DEF HdrType
  <2>3. Cursor' = Cursor  BY <2>2 DEF Cursor
  <2>4. LatestPlace'  BY <2>1, <2>2, <2>3 DEF LatestPlace
  <2>5. "stamp" \in Words  BY DEF Words, Meta
  <2>6. \A v \in Words : word[Cursor][v] = word[Cursor]["stamp"]
    BY <2>1, <2>5
  <2>7. word[Cursor]["stamp"].gen = era.gen
    BY <2>1, <2>5 DEF Current
  <2> QED  BY <2>1, <2>2, <2>4, <2>6, <2>7
           DEF LatestIsWhole, Whole, OneFrame, Even
<1>8. CASE SetCount
  <2>1. /\ hdr' = [hdr EXCEPT !.wr_count = hdr.wr_count + 1]
        /\ seq' = seq /\ word' = word /\ era' = era
        /\ hdr.latest = Cursor /\ wr'.pc = "ready"
    BY <1>8, <1>i DEF SetCount, WriterAt, Goto, WritingOK
  <2>2. hdr'.latest = hdr.latest /\ hdr'.wr_count = hdr.wr_count + 1
    BY <2>1, <1>s DEF HdrType
  <2>3. hdr'.wr_count - 1 = hdr.wr_count /\ hdr'.wr_count > 0
    BY <2>2, <1>n
  <2>4. LatestPlace'
    BY <2>1, <2>2, <2>3 DEF LatestPlace, Cursor
  <2> QED  BY <2>1, <2>2, <2>4 DEF LatestIsWhole, Whole, OneFrame, Even
<1>9. CASE Crash
  <2>1. /\ hdr' = hdr /\ word' = word /\ era' = era /\ seq' = seq
        /\ wr'.pc = "down"
    BY <1>9 DEF Crash, Goto, readerVars
  <2>2. LatestPlace'  BY <2>1 DEF LatestPlace, Cursor
  <2> QED  BY <2>1, <2>2 DEF LatestIsWhole, Whole, OneFrame, Even
<1> QED
  BY <1>1, <1>2, <1>3, <1>4, <1>5, <1>6, <1>7, <1>8, <1>9 DEF WriterStep

(***************************************************************************)
(* The attempts of the readers under the writer's steps.                   *)
(***************************************************************************)
(* The frame a reader chose is still there unless its slot is written to:  *)
(* that is a whole round later. *)
LEMMA Overwritten ==
  ASSUME RingTypeOK, NEW r \in Readers, Undisturbed(r),
         wr.pc = "ready", rd[r].idx = Cursor
  PROVE  Lapped(r)
<1>1. PICK p \in 0 .. hdr.wr_count :
        p % NSlots = rd[r].idx /\ p + 1 >= Target(r) /\ p < hdr.wr_count
  BY DEF Undisturbed
<1>2. hdr.wr_count \in Nat /\ Target(r) \in Nat  BY TargetType
<1>3. p \in Nat /\ NSlots \in Nat /\ NSlots > 0  BY <1>1, <1>2
<1>4. hdr.wr_count % NSlots = p % NSlots  BY <1>1 DEF Cursor
<1>5. hdr.wr_count >= p + NSlots  BY <1>1, <1>2, <1>3, <1>4, Apart
<1>6. hdr.wr_count >= Target(r) + (NSlots - 1)
  BY <1>1, <1>2, <1>3, <1>5
<1> QED  BY <1>6 DEF Lapped, Lap

(* A step that changes neither the counter of r's slot nor the number of   *)
(* frames leaves r where it was. *)
LEMMA LapKept ==
  ASSUME NEW r \in Readers, LapOK(r), rd' = rd, span' = span,
         hdr'.wr_count = hdr.wr_count,
         Picked(r) => seq'[rd[r].idx] = seq[rd[r].idx],
         wr.pc \in {"count", "down"} => wr'.pc \in {"count", "down"}
  PROVE  LapOK(r)'
<1>1. /\ Target(r)' = Target(r) /\ Busy(r)' = Busy(r)
      /\ Picked(r)' = Picked(r) /\ Copying(r)' = Copying(r)
  BY DEF Target, Busy, Picked, Copying
<1>2. Lapped(r)' = Lapped(r)  BY <1>1 DEF Lapped
<1>3. Picked(r) /\ Undisturbed(r) => Undisturbed(r)'
  BY <1>1 DEF Undisturbed, Even
<1> QED  BY <1>1, <1>2, <1>3 DEF LapOK

LEMMA WriterLap ==
  ASSUME Inv, \A r \in Readers : LapOK(r), WriterStep \/ Crash
  PROVE  \A r \in Readers : LapOK(r)'
<1> SUFFICES ASSUME NEW r \in Readers  PROVE LapOK(r)'
  OBVIOUS
<1>i. RingTypeOK /\ WritingOK /\ ReaderOK(r) /\ LapOK(r)
  BY DEF Inv, TypeOK
<1>c. Cursor \in Slots  BY <1>i, CursorInRing
<1>s. /\ seq \in [Slots -> Nat] /\ hdr \in HdrType
      /\ span \in [Readers -> [lo : Nat, clean : BOOLEAN]]
      /\ rd[r].idx \in Slots
  BY <1>i DEF RingTypeOK, ReaderType
<1>t. /\ hdr.wr_count \in Nat /\ span[r].lo \in Nat /\ Target(r) \in Nat
      /\ Lap \in Nat
  BY <1>i, TargetType, Rounds
<1>r. rd' = rd  BY WriterFrame DEF Inv
<1>0. CASE ~span'[r].clean
  <2>1. Busy(r)' = Busy(r)  BY <1>r DEF Busy
  <2> QED  BY <1>0, <1>r, <1>i, <2>1 DEF LapOK
<1>1. CASE Create
  <2>1. ~span'[r].clean  BY <1>1, <1>s DEF Create
  <2> QED  BY <1>0, <2>1
<1>2. CASE \/ \E i \in Slots : MemsetSlot(i)
           \/ \E f \in Fields : FillField(f)
           \/ SetMagic
  <2>1. wr.pc \in {"memset", "fields"} /\ span' = span
    BY <1>2 DEF MemsetSlot, FillField, SetMagic, WriterAt
  <2>2. ~era.up  BY <2>1 DEF Inv, PhaseOK
  <2>3. ~span'[r].clean  BY <2>1, <2>2, <1>i DEF ReaderOK, SpanOK
  <2> QED  BY <1>0, <2>3
<1>3. CASE WriteBegin
  <2>1. /\ hdr' = hdr /\ span' = span
        /\ seq' = [seq EXCEPT ![Cursor] = seq[Cursor] + 1]
        /\ wr.pc = "ready" /\ wr'.pc = "copy"
    BY <1>3 DEF WriteBegin, WriterAt, Goto
  <2>2. CASE rd[r].idx # Cursor
    <3>1. seq'[rd[r].idx] = seq[rd[r].idx]  BY <2>1, <2>2, <1>s
    <3> QED  BY <2>1, <3>1, <1>r, <1>i, LapKept
  <2>3. CASE rd[r].idx = Cursor
    <3>1. span[r].clean /\ Picked(r) => Lapped(r)
      BY <2>1, <2>3, <1>i, Overwritten DEF LapOK
    <3>2. /\ Target(r)' = Target(r) /\ Lapped(r)' = Lapped(r)
          /\ Busy(r)' = Busy(r) /\ Picked(r)' = Picked(r)
      BY <2>1, <1>r DEF Target, Lapped, Busy, Picked
    <3> QED  BY <2>1, <3>1, <3>2, <1>r, <1>i DEF LapOK
  <2> QED  BY <2>2, <2>3
<1>4. ASSUME NEW w \in Words, StoreWord(w)  PROVE LapOK(r)'
  <2>1. hdr' = hdr /\ span' = span /\ seq' = seq /\ wr.pc = "copy"
    BY <1>4 DEF StoreWord, WriterAt
  <2> QED  BY <2>1, <1>r, <1>i, LapKept
<1>5. CASE MarkStable
  <2>1. /\ hdr' = hdr /\ span' = span
        /\ seq' = [seq EXCEPT ![Cursor] = seq[Cursor] + 1]
        /\ wr.pc = "copy" /\ ~Even(seq[Cursor])
    BY <1>5, <1>i, <1>c DEF MarkStable, WriterAt, WritingOK
  <2>2. CASE rd[r].idx # Cursor
    <3>1. seq'[rd[r].idx] = seq[rd[r].idx]  BY <2>1, <2>2, <1>s
    <3> QED  BY <2>1, <3>1, <1>r, <1>i, LapKept
  <2>3. CASE rd[r].idx = Cursor
    <3>1. span[r].clean /\ Picked(r) => Lapped(r)
      BY <2>1, <2>3, <1>i DEF LapOK, Undisturbed
    <3>2. /\ Target(r)' = Target(r) /\ Lapped(r)' = Lapped(r)
          /\ Busy(r)' = Busy(r) /\ Picked(r)' = Picked(r)
      BY <2>1, <1>r DEF Target, Lapped, Busy, Picked
    <3> QED  BY <2>1, <3>1, <3>2, <1>r, <1>i DEF LapOK
  <2> QED  BY <2>2, <2>3
<1>6. CASE SetLatest
  <2>1. /\ hdr' = [hdr EXCEPT !.latest = Cursor]
        /\ span' = span /\ seq' = seq /\ wr.pc = "latest"
    BY <1>6 DEF SetLatest, WriterAt
  <2>2. hdr'.wr_count = hdr.wr_count  BY <2>1, <1>s DEF HdrType
  <2> QED  BY <2>1, <2>2, <1>r, <1>i, LapKept
<1>7. CASE SetCount
  <2>1. /\ hdr' = [hdr EXCEPT !.wr_count = hdr.wr_count + 1]
        /\ span' = span /\ seq' = seq
    BY <1>7 DEF SetCount
  <2>2. hdr'.wr_count = hdr.wr_count + 1  BY <2>1, <1>s DEF HdrType
  <2>3. /\ Target(r)' = Target(r) /\ Busy(r)' = Busy(r)
        /\ Picked(r)' = Picked(r) /\ Copying(r)' = Copying(r)
    BY <2>1, <1>r DEF Target, Busy, Picked, Copying
  <2>4. Lapped(r) => Lapped(r)'  BY <2>2, <2>3, <1>t DEF Lapped
  <2>5. Undisturbed(r) => Undisturbed(r)'
    <3> SUFFICES ASSUME Undisturbed(r)  PROVE Undisturbed(r)'
      OBVIOUS
    <3>1. PICK p \in 0 .. hdr.wr_count :
            p % NSlots = rd[r].idx /\ p + 1 >= Target(r)
      BY DEF Undisturbed
    <3>2. p \in 0 .. hdr'.wr_count /\ p < hdr'.wr_count
      BY <3>1, <2>2, <1>t
    <3>3. \E m \in 0 .. hdr'.wr_count :
            /\ m % NSlots = rd'[r].idx /\ m + 1 >= Target(r)'
            /\ m < hdr'.wr_count \/ wr'.pc \in {"count", "down"}
      BY <3>1, <3>2, <2>3, <1>r
    <3>4. /\ Even(seq'[rd'[r].idx])
          /\ Copying(r)' => seq'[rd'[r].idx] = rd'[r].s0
      BY <2>1, <2>3, <1>r DEF Undisturbed
    <3> QED  BY <3>3, <3>4 DEF Undisturbed, Even
  <2>6. ASSUME span[r].clean, Busy(r)  PROVE hdr'.wr_count >= Target(r)
    BY <2>2, <2>6, <1>i, <1>t DEF LapOK
  <2>7. ASSUME span[r].clean, rd[r].pc = "idle", rd[r].rc = "raced"
        PROVE  hdr'.wr_count >= span[r].lo + MaxAttempts * Lap
    <3> DEFINE goal == span[r].lo + MaxAttempts * Lap
    <3>1. hdr.wr_count >= goal  BY <2>7, <1>i DEF LapOK
    <3>2. MaxAttempts * Lap \in Nat  BY AttemptsAssumption, Rounds
    <3>3. goal \in Nat  BY <3>2, <1>t
    <3> HIDE DEF goal
    <3>4. hdr'.wr_count >= goal  BY <3>1, <3>3, <2>2, <1>t
    <3> QED  BY <3>4 DEF goal
  <2> QED
    BY <2>1, <2>3, <2>4, <2>5, <2>6, <2>7, <1>r, <1>i DEF LapOK
<1>8. CASE Crash
  <2>1. hdr' = hdr /\ span' = span /\ seq' = seq /\ wr'.pc = "down"
    BY <1>8 DEF Crash, Goto, readerVars
  <2> QED  BY <2>1, <1>r, <1>i, LapKept
<1> QED
  BY <1>1, <1>2, <1>3, <1>4, <1>5, <1>6, <1>7, <1>8 DEF WriterStep

(***************************************************************************)
(* The attempts of the readers under their own steps.                      *)
(***************************************************************************)
(* What a reader that looks at latest finds there. *)
LEMMA NewestIsUndisturbed ==
  ASSUME RingTypeOK, LatestPlace, LatestIsWhole, era.up,
         hdr.latest # NoFrame, NSlots > 1,
         NEW t \in Nat, hdr.wr_count >= t
  PROVE  /\ Even(seq[hdr.latest])
         /\ \E p \in 0 .. hdr.wr_count :
              /\ p % NSlots = hdr.latest
              /\ p + 1 >= t
              /\ p < hdr.wr_count \/ wr.pc \in {"count", "down"}
<1>1. Even(seq[hdr.latest])  BY DEF LatestIsWhole
<1>2. hdr.wr_count \in Nat  BY DEF RingTypeOK, HdrType
<1>3. CASE wr.pc \in {"count", "down"} /\ hdr.latest = Cursor
  <2>1. /\ hdr.wr_count \in 0 .. hdr.wr_count
        /\ hdr.wr_count % NSlots = hdr.latest
        /\ hdr.wr_count + 1 >= t
    BY <1>2, <1>3 DEF Cursor
  <2> QED  BY <1>1, <1>3, <2>1
<1>4. CASE hdr.wr_count > 0 /\ hdr.latest = (hdr.wr_count - 1) % NSlots
  <2> DEFINE p == hdr.wr_count - 1
  <2>1. /\ p \in 0 .. hdr.wr_count /\ p + 1 >= t /\ p < hdr.wr_count
    BY <1>2, <1>4
  <2>2. p % NSlots = hdr.latest  BY <1>4
  <2> HIDE DEF p
  <2> QED  BY <1>1, <2>1, <2>2
<1> QED  BY <1>3, <1>4 DEF LatestPlace

(* A call that ends is no longer counting attempts. *)
LEMMA LapEnded ==
  ASSUME NEW q \in Readers, RingTypeOK,
         rd'[q].pc = "idle", rd'[q].tries = 0,
         rd'[q].rc = "raced" /\ span'[q].clean =>
           hdr'.wr_count >= span'[q].lo + MaxAttempts * Lap
  PROVE  LapOK(q)'
BY DEF LapOK, Busy, Picked, InCall

LEMMA LapReturned ==
  ASSUME NEW q \in Readers, RingTypeOK, NEW rc, rc # "raced", Return(q, rc)
  PROVE  LapOK(q)'
<1>1. rd'[q] = Ended(rd[q], rc, rd[q].last)
  BY DEF Return, RingTypeOK
<1>2. rd'[q].pc = "idle" /\ rd'[q].tries = 0 /\ rd'[q].rc = rc
  BY <1>1 DEF Ended
<1> QED  BY <1>2, LapEnded

(* An attempt is lost only to a writer that has gone round the ring. *)
LEMMA LapRetried ==
  ASSUME NEW q \in Readers, RingTypeOK, LapOK(q), Picked(q),
         span[q].clean => ~Undisturbed(q), Retry(q), hdr' = hdr, span' = span
  PROVE  LapOK(q)'
<1>1. rd'[q] = [rd[q] EXCEPT !.pc = "latest", !.tries = rd[q].tries + 1]
  BY DEF Retry, RingTypeOK
<1>2. rd[q] \in ReaderType  BY DEF RingTypeOK
<1>3. rd'[q].pc = "latest" /\ rd'[q].tries = rd[q].tries + 1
  BY <1>1, <1>2 DEF ReaderType
<1>4. rd[q].tries \in Nat /\ span[q].lo \in Nat /\ Lap \in Nat
  BY TargetType, Rounds
<1>5. Target(q)' = Target(q) + Lap
  <2>1. Target(q)' = span[q].lo + (rd[q].tries + 1) * Lap
    BY <1>3 DEF Target
  <2>2. /\ (rd[q].tries + 1) * Lap = rd[q].tries * Lap + Lap
        /\ rd[q].tries * Lap \in Nat
    BY <1>4, Rounds
  <2> DEFINE a == rd[q].tries * Lap
             b == (rd[q].tries + 1) * Lap
  <2>3. Target(q) = span[q].lo + a /\ Target(q)' = span[q].lo + b
    BY <2>1 DEF Target
  <2>4. b = a + Lap /\ a \in Nat  BY <2>2
  <2> HIDE DEF a, b
  <2> QED  BY <2>3, <2>4, <1>4
<1>6. ASSUME span[q].clean  PROVE hdr.wr_count >= Target(q)'
  BY <1>5, <1>6 DEF LapOK, Lapped
<1> QED  BY <1>3, <1>6 DEF LapOK, Busy, Picked, InCall

LEMMA CallerLap ==
  ASSUME Inv, LatestPlace, LatestIsWhole, NEW q \in Readers, LapOK(q),
         ReaderStep(q), wr' = wr
  PROVE  LapOK(q)'
<1>i. RingTypeOK /\ ReaderOK(q)  BY DEF Inv, TypeOK
<1>f. hdr' = hdr /\ seq' = seq  BY <1>i, ReaderFrame
<1>2. rd[q] \in ReaderType /\ rd \in [Readers -> ReaderType]
  BY <1>i DEF RingTypeOK
<1>t. /\ hdr.wr_count \in Nat /\ span[q].lo \in Nat /\ Target(q) \in Nat
      /\ Lap \in Nat /\ rd[q].tries \in Nat
  BY <1>i, TargetType, Rounds
<1>s. CallStep(q) => span' = span /\ Busy(q)
  BY <1>i, CallFacts DEF Busy
<1>a. span[q].clean /\ Picked(q) => ~Astray(q)
  BY <1>i DEF ReaderOK, FitOK, Placed, Astray
<1>3. CASE OpenStep(q)
  <2>1. rd[q].tries = 0
    BY <1>3, <1>i, OpenFacts DEF LapOK, Busy, InCall, Opening
  <2>2. rd'[q].tries = 0
    BY <1>3, <1>i, <2>1, OpenKeeps DEF Detached
  <2>3. ~Busy(q)' /\ ~Picked(q)' /\ (rd'[q].pc = "idle" => ~span'[q].clean)
    BY <1>3, <1>i, OpenFacts DEF Busy, Picked, InCall, Opening
  <2> QED  BY <2>2, <2>3 DEF LapOK
<1>4. CASE Begin(q)
  <2>1. /\ rd[q].pc = "idle"
        /\ rd'[q] = [rd[q] EXCEPT !.pc = "latest",
                                  !.copy = [w \in Words |-> Unread]]
        /\ span'[q].lo = hdr.wr_count
    BY <1>4, <1>2, <1>i, BeginFacts DEF Begin
  <2>2. rd'[q].pc = "latest" /\ rd'[q].tries = rd[q].tries
    BY <2>1, <1>2 DEF ReaderType
  <2>3. rd[q].tries = 0  BY <2>1 DEF LapOK, Busy, InCall
  <2>4. Target(q)' = hdr.wr_count + 0 * Lap
    BY <2>1, <2>2, <2>3 DEF Target
  <2>5. Target(q)' = hdr.wr_count
    <3> DEFINE none == 0 * Lap
    <3>1. none = 0  BY Rounds
    <3>2. Target(q)' = hdr.wr_count + none  BY <2>4
    <3> HIDE DEF none
    <3> QED  BY <3>1, <3>2, <1>t
  <2> QED  BY <2>2, <2>5, <1>f, <1>t DEF LapOK, Busy, Picked, InCall
<1>5. CASE GiveUp(q)
  <2>1. /\ rd[q].pc = "latest" /\ rd[q].tries = MaxAttempts
        /\ rd'[q] = Ended(rd[q], "raced", rd[q].last)
    BY <1>5, <1>2 DEF GiveUp, Return
  <2>2. rd'[q].pc = "idle" /\ rd'[q].tries = 0
    BY <2>1 DEF Ended
  <2>3. span[q].clean => hdr.wr_count >= Target(q)
    BY <2>1 DEF LapOK, Busy, InCall
  <2>4. Target(q) = span[q].lo + MaxAttempts * Lap
    BY <2>1 DEF Target
  <2> QED
    BY <2>2, <2>3, <2>4, <1>i, <1>f, <1>s, <1>5, LapEnded DEF CallStep
<1>6. CASE SeeNothing(q) \/ Duplicate(q)
  <2>1. Return(q, "none")  BY <1>6 DEF SeeNothing, Duplicate
  <2> QED  BY <2>1, <1>i, LapReturned
<1>7. CASE BadSlot(q) \/ TooBig(q)
  <2>1. Return(q, "refused")  BY <1>7 DEF BadSlot, TooBig
  <2> QED  BY <2>1, <1>i, LapReturned
<1>8. CASE Succeed(q)
  <2>1. rd'[q] = Ended(rd[q], "ok", rd[q].copy["stamp"])
    BY <1>8, <1>2 DEF Succeed
  <2>2. rd'[q].pc = "idle" /\ rd'[q].tries = 0 /\ rd'[q].rc = "ok"
    BY <2>1 DEF Ended
  <2> QED  BY <2>2, <1>i, LapEnded
<1>9. CASE SlotBusy(q)
  <2>1. /\ rd[q].pc = "seq0" /\ Retry(q)
        /\ Astray(q) \/ ~Even(seq[rd[q].idx])
    BY <1>9 DEF SlotBusy
  <2>2. Picked(q) /\ (span[q].clean => ~Undisturbed(q))
    BY <2>1, <1>a DEF Picked, Undisturbed
  <2> QED
    BY <2>1, <2>2, <1>9, <1>i, <1>f, <1>s, LapRetried DEF CallStep
<1>10. CASE Torn(q)
  <2>1. /\ rd[q].pc = "data" /\ Retry(q)
        /\ Astray(q) \/ seq[rd[q].idx] # rd[q].s0
    BY <1>10 DEF Torn
  <2>2. Picked(q) /\ (span[q].clean => ~Undisturbed(q))
    BY <2>1, <1>a DEF Picked, Copying, Undisturbed
  <2> QED
    BY <2>1, <2>2, <1>10, <1>i, <1>f, <1>s, LapRetried DEF CallStep
<1>11. CASE PickSlot(q)
  <2>1. /\ Busy(q) /\ hdr.latest # NoFrame
        /\ rd'[q] = [rd[q] EXCEPT
             !.pc = IF q \in PyReaders THEN "seq0" ELSE "bound",
             !.idx = hdr.latest, !.copy = [w \in Words |-> Unread]]
    BY <1>11, <1>s, <1>2 DEF PickSlot, CallStep
  <2>2. /\ rd'[q].pc \in {"seq0", "bound"} /\ rd'[q].idx = hdr.latest
        /\ rd'[q].tries = rd[q].tries
    BY <2>1, <1>2 DEF ReaderType
  <2>3. span' = span  BY <1>11, <1>s DEF CallStep
  <2>4. Target(q)' = Target(q)  BY <2>2, <2>3 DEF Target
  <2>5. ASSUME span[q].clean
        PROVE  hdr.wr_count >= Target(q) /\ era.up
    BY <2>1, <2>5, <1>i DEF LapOK, ReaderOK, SpanOK
  <2>6. ASSUME span[q].clean  PROVE Lapped(q)' \/ Undisturbed(q)'
    <3>1. CASE NSlots = 1
      <4>1. Lap = 0  BY <3>1 DEF Lap
      <4>2. Lapped(q)'  BY <4>1, <2>4, <2>5, <2>6, <1>f, <1>t DEF Lapped
      <4> QED  BY <4>2
    <3>2. CASE NSlots > 1
      <4>1. /\ Even(seq[hdr.latest])
            /\ \E p \in 0 .. hdr.wr_count :
                 /\ p % NSlots = hdr.latest
                 /\ p + 1 >= Target(q)
                 /\ p < hdr.wr_count \/ wr.pc \in {"count", "down"}
        BY <3>2, <2>1, <2>5, <2>6, <1>i, <1>t, NewestIsUndisturbed
      <4>2. ~Copying(q)'  BY <2>2 DEF Copying
      <4>3. Undisturbed(q)'
        BY <4>1, <4>2, <2>2, <2>4, <1>f DEF Undisturbed, Even
      <4> QED  BY <4>3
    <3> QED  BY <3>1, <3>2
  <2> QED
    BY <2>2, <2>3, <2>4, <2>5, <2>6, <1>f DEF LapOK, Busy, InCall
<1>12. CASE GoodSlot(q) \/ CopyPayload(q) \/ \E w \in Words : LoadWord(q, w)
  <2>1. /\ Picked(q) /\ Picked(q)' /\ Busy(q) /\ Busy(q)'
        /\ rd'[q].idx = rd[q].idx /\ rd'[q].tries = rd[q].tries
        /\ rd'[q].s0 = rd[q].s0
        /\ Copying(q)' => Copying(q)
    <3>1. CASE GoodSlot(q)
      <4>1. rd[q].pc = "bound" /\ rd'[q] = [rd[q] EXCEPT !.pc = "seq0"]
        BY <3>1, <1>2 DEF GoodSlot
      <4> QED  BY <4>1, <1>2 DEF ReaderType, Picked, Copying, Busy, InCall
    <3>2. CASE CopyPayload(q)
      <4>1. /\ rd[q].pc = "meta"
            /\ rd'[q] = [rd[q] EXCEPT !.pc = "data",
                 !.todo = IF rd[q].copy["size"] = Zero THEN {} ELSE Payload]
        BY <3>2, <1>2 DEF CopyPayload
      <4> QED  BY <4>1, <1>2 DEF ReaderType, Picked, Copying, Busy, InCall
    <3>3. ASSUME NEW w \in Words, LoadWord(q, w)
          PROVE  /\ Picked(q) /\ Copying(q)
                 /\ rd'[q].pc = rd[q].pc /\ rd'[q].idx = rd[q].idx
                 /\ rd'[q].tries = rd[q].tries /\ rd'[q].s0 = rd[q].s0
      <4>1. /\ rd[q].pc \in {"meta", "data"}
            /\ \E c : rd'[q] = [rd[q] EXCEPT !.todo = rd[q].todo \ {w},
                                             !.copy[w] = c]
        BY <3>3, <1>2 DEF LoadWord
      <4> QED  BY <4>1, <1>2 DEF ReaderType, Picked, Copying
    <3>4. CASE \E w \in Words : LoadWord(q, w)
      BY <3>3, <3>4 DEF Picked, Copying, Busy, InCall
    <3> QED  BY <1>12, <3>1, <3>2, <3>4
  <2>2. span' = span  BY <1>12, <1>s DEF CallStep
  <2>3. Target(q)' = Target(q)  BY <2>1, <2>2 DEF Target
  <2>4. Lapped(q)' = Lapped(q)  BY <2>3, <1>f DEF Lapped
  <2>5. Undisturbed(q) => Undisturbed(q)'
    BY <2>1, <2>3, <1>f DEF Undisturbed, Even
  <2>6. rd'[q].pc # "idle"  BY <2>1 DEF Busy, InCall
  <2> QED  BY <2>1, <2>2, <2>3, <2>4, <2>5, <2>6, <1>f DEF LapOK
<1>13. CASE SlotStable(q)
  <2>1. /\ rd[q].pc = "seq0" /\ Picked(q)
        /\ \E n : /\ rd'[q] = [rd[q] EXCEPT !.pc = "meta", !.todo = Meta, !.s0 = n]
                  /\ ~Astray(q) => n = seq[rd[q].idx]
    BY <1>13, <1>2 DEF SlotStable, Picked
  <2>2. /\ rd'[q].pc = "meta" /\ rd'[q].idx = rd[q].idx
        /\ rd'[q].tries = rd[q].tries
        /\ span[q].clean => rd'[q].s0 = seq[rd[q].idx]
    BY <2>1, <1>a, <1>2 DEF ReaderType
  <2>3. span' = span /\ Busy(q)  BY <1>13, <1>s DEF CallStep
  <2>4. Target(q)' = Target(q)  BY <2>2, <2>3 DEF Target
  <2>5. Lapped(q)' = Lapped(q)  BY <2>4, <1>f DEF Lapped
  <2>6. span[q].clean /\ Undisturbed(q) => Undisturbed(q)'
    BY <2>1, <2>2, <2>4, <1>f DEF Undisturbed, Even
  <2> QED
    BY <2>1, <2>2, <2>3, <2>4, <2>5, <2>6, <1>f DEF LapOK, Busy, InCall
<1>14. CASE LoadMagic(q) \/ LoadNSlots(q) \/ LoadSlotSize(q)
  <2>1. /\ rd'[q].pc \in {"nslots", "slot_size", "index"}
        /\ rd'[q].tries = rd[q].tries
    <3>1. CASE LoadMagic(q)  BY <3>1, <1>2 DEF LoadMagic, ReaderType
    <3>2. CASE LoadNSlots(q)  BY <3>2, <1>2 DEF LoadNSlots, ReaderType
    <3>3. CASE LoadSlotSize(q)  BY <3>3, <1>2 DEF LoadSlotSize, ReaderType
    <3> QED  BY <1>14, <3>1, <3>2, <3>3
  <2>2. span' = span /\ Busy(q)  BY <1>14, <1>s DEF CallStep
  <2>3. Target(q)' = Target(q)  BY <2>1, <2>2 DEF Target
  <2> QED
    BY <2>1, <2>2, <2>3, <1>f DEF LapOK, Busy, Picked, InCall
<1> QED
  BY <1>3, <1>4, <1>5, <1>6, <1>7, <1>8, <1>9, <1>10, <1>11, <1>12, <1>13,
     <1>14
  DEF ReaderStep, CallStep

LEMMA ReaderLap ==
  ASSUME LapInv, NEW q \in Readers, ReaderStep(q), wr' = wr
  PROVE  \A r \in Readers : LapOK(r)'
<1>i. RingTypeOK  BY DEF LapInv, Inv, TypeOK
<1>1. LapOK(q)'  BY CallerLap DEF LapInv
<1>2. ASSUME NEW r \in Readers, r # q  PROVE LapOK(r)'
  <2>1. /\ hdr' = hdr /\ seq' = seq
        /\ rd'[r] = rd[r] /\ span'[r] = span[r]
    BY <1>i, <1>2, ReaderFrame
  <2>2. /\ Target(r)' = Target(r) /\ Busy(r)' = Busy(r)
        /\ Picked(r)' = Picked(r) /\ Copying(r)' = Copying(r)
    BY <2>1 DEF Target, Busy, Picked, Copying
  <2>3. Lapped(r)' = Lapped(r)  BY <2>1, <2>2 DEF Lapped
  <2>4. Undisturbed(r) => Undisturbed(r)'
    BY <2>1, <2>2 DEF Undisturbed, Even
  <2> QED  BY <2>1, <2>2, <2>3, <2>4 DEF LapInv, LapOK
<1> QED  BY <1>1, <1>2

LEMMA LapStep ==
  ASSUME LapInv, [Next]_vars
  PROVE  LapInv'
<1>1. Inv'  BY InvStep DEF LapInv
<1>2. CASE WriterStep \/ Crash
  BY <1>1, <1>2, WriterMagic, WriterLatest, WriterLap DEF LapInv
<1>3. ASSUME NEW q \in Readers, ReaderStep(q), wr' = wr  PROVE LapInv'
  <2>1. hdr' = hdr /\ seq' = seq /\ word' = word /\ era' = era
    BY <1>3, ReaderFrame DEF LapInv, Inv, TypeOK
  <2>2. MagicIsLast' /\ LatestPlace' /\ LatestIsWhole'
    BY <2>1, <1>3 DEF LapInv, MagicIsLast, LatestPlace, LatestIsWhole,
      Cursor, Whole, OneFrame, Even
  <2> QED  BY <1>1, <1>3, <2>2, ReaderLap DEF LapInv
<1>4. CASE UNCHANGED vars
  <2>1. /\ hdr' = hdr /\ seq' = seq /\ word' = word /\ era' = era
        /\ rd' = rd /\ span' = span /\ wr' = wr
    BY <1>4 DEF vars
  <2>2. MagicIsLast' /\ LatestPlace' /\ LatestIsWhole'
    BY <2>1 DEF LapInv, MagicIsLast, LatestPlace, LatestIsWhole, Cursor,
      Whole, OneFrame, Even
  <2>3. \A r \in Readers : LapOK(r)'  BY <2>1, LapKept DEF LapInv
  <2> QED  BY <1>1, <2>2, <2>3 DEF LapInv
<1> QED  BY <1>2, <1>3, <1>4 DEF Next

THEOREM LapInvariance == Spec => []LapInv
BY InitLap, LapStep, PTL DEF Spec

(* The magic is written last during init (bat_ring.h:81): a reader that    *)
(* opens the ring always computes its slots from the right geometry. *)
THEOREM OpensTheRightGeometry == Spec => []MagicIsLast
<1>1. LapInv => MagicIsLast  BY DEF LapInv
<1> QED  BY <1>1, LapInvariance, PTL

(* With two slots or more the newest frame is never being overwritten,     *)
(* wherever the writer is slow or dies (bat_ring.h:179-214). *)
THEOREM NewestStaysReadable == Spec => []LatestIsWhole
<1>1. LapInv => LatestIsWhole  BY DEF LapInv
<1> QED  BY <1>1, LapInvariance, PTL

(* BAT_RING_ERR_RACED (bat_ring.h:277) means what its name says: the       *)
(* writer went round the ring once for every attempt of the call. *)
THEOREM RacedOnlyIfLapped == Spec => []RacedMeansLapped
<1>1. LapInv => RacedMeansLapped
  BY DEF LapInv, LapOK, RacedMeansLapped, Returned, Lap
<1> QED  BY <1>1, LapInvariance, PTL

-------------------------------------------------------------------------------
(***************************************************************************)
(* bat_ring is a latest-frame-wins register (FrameRegister), whatever the  *)
(* number of slots, readers, attempts, frames and restarts: every step of  *)
(* writer, readers, crash and restart is a step of the register or none.   *)
(***************************************************************************)

(* What the words hold, in every state: frames of this ring, or zeros. *)
Stored == [gen : 0 .. MaxGen, idx : 0 .. MaxFrames]
Seen   == [gen : 0 .. MaxGen, idx : -1 .. MaxFrames]

BoundsOK ==
  /\ hdr.wr_count <= MaxFrames /\ era.gen <= MaxGen
  /\ wr.pc \in {"copy", "latest", "count"} => hdr.wr_count < MaxFrames
  /\ \A i \in Slots, w \in Words : word[i][w] \in Stored

(* Before a write no slot holds the frame that is about to be written. *)
NotYetThere ==
  wr.pc = "ready" => \A i \in Slots : word[i]["stamp"] # Current

(* A slot holds the frames of its own number. *)
InItsSlot ==
  era.up => \A i \in Slots, w \in Words :
    word[i][w].gen = era.gen => word[i][w].idx % NSlots = i

(* A stamp that has been loaded came from the ring, or from its pixels. *)
StampLoaded(r) ==
  \/ rd[r].pc = "data"
  \/ rd[r].pc = "meta" /\ "stamp" \notin rd[r].todo

StampOK(r) == StampLoaded(r) => rd[r].copy["stamp"] \in Seen

(* Who has not attached has no frame. *)
AwayOK(r) ==
  rd[r].pc \in {"closed"} \cup Opening =>
    rd[r].rc = "none" /\ rd[r].last = Unread

(* Only Python looks at the whole header again at every attempt. *)
PyOnly(r) == rd[r].pc \in {"nslots", "slot_size", "index"} => r \in PyReaders

RegInv ==
  /\ LapInv
  /\ BoundsOK /\ NotYetThere /\ InItsSlot
  /\ \A r \in Readers : StampOK(r) /\ AwayOK(r) /\ PyOnly(r)

LEMMA StoredFacts ==
  /\ Zero \in Stored
  /\ \A g, i \in Int : 0 <= g /\ g <= MaxGen /\ 0 <= i /\ i <= MaxFrames
       => [gen |-> g, idx |-> i] \in Stored
  /\ Zero \in Seen /\ Unread \in Seen /\ Stored \subseteq Seen
BY DEF Stored, Seen, Zero, Unread

LEMMA InitReg ==
  ASSUME Init
  PROVE  RegInv
<1>1. LapInv  BY InitLap
<1>2. BoundsOK /\ NotYetThere /\ InItsSlot
  BY StoredFacts DEF Init, RingInit, EmptyHdr, BoundsOK, NotYetThere,
    InItsSlot
<1>3. \A r \in Readers : StampOK(r)
  BY DEF Init, RingInit, Detached, StampOK, StampLoaded
<1>4. \A r \in Readers : AwayOK(r) /\ PyOnly(r)
  BY DEF Init, RingInit, Detached, AwayOK, PyOnly
<1> QED  BY <1>1, <1>2, <1>3, <1>4 DEF RegInv

(***************************************************************************)
(* The strengthened invariant.                                             *)
(***************************************************************************)
LEMMA WriterBounds ==
  ASSUME Inv, BoundsOK, NotYetThere, WriterStep \/ Crash
  PROVE  BoundsOK' /\ NotYetThere'
<1>i. RingTypeOK  BY DEF Inv, TypeOK
<1>c. Cursor \in Slots  BY <1>i, CursorInRing
<1>s. /\ seq \in [Slots -> Nat] /\ word \in [Slots -> [Words -> Content]]
      /\ hdr \in HdrType /\ hdr.wr_count \in Nat
      /\ era \in [gen : Nat, up : BOOLEAN] /\ era.gen \in Nat
  BY <1>i DEF RingTypeOK, HdrType
<1>n. "stamp" \in Words  BY DEF Words, Meta
<1>1. CASE Create
  <2>1. /\ hdr'.wr_count = 0 /\ era'.gen = era.gen + 1
        /\ era.gen < MaxGen /\ word' = word /\ wr'.pc = "memset"
    BY <1>1 DEF Create, EmptyHdr, Goto
  <2>2. era'.gen <= MaxGen /\ hdr'.wr_count <= MaxFrames
    BY <2>1, <1>s
  <2> QED  BY <2>1, <2>2 DEF BoundsOK, NotYetThere
<1>2. ASSUME NEW i \in Slots, MemsetSlot(i)  PROVE BoundsOK' /\ NotYetThere'
  <2>1. /\ hdr' = hdr /\ era' = era /\ wr'.pc \in {"memset", "fields"}
        /\ word' = [word EXCEPT ![i] = [w \in Words |-> Zero]]
    BY <1>2 DEF MemsetSlot, Goto
  <2>2. \A j \in Slots, w \in Words : word'[j][w] \in {word[j][w], Zero}
    BY <2>1, <1>s
  <2>3. \A j \in Slots, w \in Words : word'[j][w] \in Stored
    BY <2>2, StoredFacts DEF BoundsOK
  <2> QED  BY <2>1, <2>3 DEF BoundsOK, NotYetThere
<1>3. ASSUME NEW f \in Fields, FillField(f)
      PROVE  BoundsOK' /\ NotYetThere'
  <2>1. era' = era /\ word' = word /\ wr'.pc = "fields"
    BY <1>3 DEF FillField, Goto
  <2>2. hdr'.wr_count = hdr.wr_count
    <3>1. CASE f = "nslots"
      <4>1. hdr' = [hdr EXCEPT !.nslots = NSlots]
        BY <1>3, <3>1 DEF FillField
      <4> QED  BY <4>1, <1>s DEF HdrType
    <3>2. CASE f = "slot_size"
      <4>1. hdr' = [hdr EXCEPT !.slot_size = 1]
        BY <1>3, <3>2 DEF FillField
      <4> QED  BY <4>1, <1>s DEF HdrType
    <3>3. CASE f = "latest"
      <4>1. hdr' = [hdr EXCEPT !.latest = NoFrame]
        BY <1>3, <3>3 DEF FillField
      <4> QED  BY <4>1, <1>s DEF HdrType
    <3> QED  BY <3>1, <3>2, <3>3 DEF Fields
  <2> QED  BY <2>1, <2>2 DEF BoundsOK, NotYetThere
<1>4. CASE SetMagic
  <2>1. /\ hdr' = [hdr EXCEPT !.magic = TRUE] /\ era'.gen = era.gen
        /\ word' = word /\ wr'.pc = "ready" /\ wr.pc = "fields"
    BY <1>4, <1>s DEF SetMagic, Goto, WriterAt
  <2>2. hdr'.wr_count = hdr.wr_count  BY <2>1, <1>s DEF HdrType
  <2>3. era.gen > 0 /\ \A i \in Slots : word[i]["stamp"] = Zero
    BY <2>1, <1>n DEF Inv, PhaseOK, InitialisingOK, Cleared
  <2>4. Current'.gen = era.gen  BY <2>1 DEF Current
  <2>5. Zero.gen = 0  BY DEF Zero
  <2>6. Zero # Current'  BY <2>3, <2>4, <2>5, <1>s
  <2>7. NotYetThere'  BY <2>1, <2>3, <2>6 DEF NotYetThere
  <2> QED  BY <2>1, <2>2, <2>7 DEF BoundsOK
<1>5. CASE WriteBegin
  <2>1. /\ hdr' = hdr /\ era' = era /\ word' = word
        /\ hdr.wr_count < MaxFrames /\ wr'.pc = "copy"
    BY <1>5 DEF WriteBegin, Goto
  <2> QED  BY <2>1 DEF BoundsOK, NotYetThere
<1>6. ASSUME NEW v \in Words, StoreWord(v)  PROVE BoundsOK' /\ NotYetThere'
  <2>1. /\ hdr' = hdr /\ era' = era /\ wr.pc = "copy" /\ wr'.pc = "copy"
        /\ word' = [word EXCEPT ![Cursor][v] = Current]
    BY <1>6 DEF StoreWord, WriterAt, Goto
  <2>2. \A j \in Slots, w \in Words : word'[j][w] \in {word[j][w], Current}
    BY <2>1, <1>s, <1>c
  <2>3. Current \in Stored
    BY <1>s, StoredFacts DEF BoundsOK, Current
  <2>4. \A j \in Slots, w \in Words : word'[j][w] \in Stored
    BY <2>2, <2>3 DEF BoundsOK
  <2> QED  BY <2>1, <2>4 DEF BoundsOK, NotYetThere
<1>7. CASE MarkStable
  <2>1. /\ hdr' = hdr /\ era' = era /\ word' = word
        /\ wr.pc = "copy" /\ wr'.pc = "latest"
    BY <1>7 DEF MarkStable, WriterAt, Goto
  <2> QED  BY <2>1 DEF BoundsOK, NotYetThere
<1>8. CASE SetLatest
  <2>1. /\ hdr' = [hdr EXCEPT !.latest = Cursor] /\ era' = era
        /\ word' = word /\ wr.pc = "latest" /\ wr'.pc = "count"
    BY <1>8 DEF SetLatest, WriterAt, Goto
  <2>2. hdr'.wr_count = hdr.wr_count  BY <2>1, <1>s DEF HdrType
  <2> QED  BY <2>1, <2>2 DEF BoundsOK, NotYetThere
<1>9. CASE SetCount
  <2>1. /\ hdr' = [hdr EXCEPT !.wr_count = hdr.wr_count + 1] /\ era' = era
        /\ word' = word /\ wr.pc = "count" /\ wr'.pc = "ready"
    BY <1>9 DEF SetCount, WriterAt, Goto
  <2>2. hdr'.wr_count = hdr.wr_count + 1  BY <2>1, <1>s DEF HdrType
  <2>3. hdr.wr_count < MaxFrames  BY <2>1 DEF BoundsOK
  <2>4. hdr'.wr_count <= MaxFrames  BY <2>2, <2>3, <1>s
  <2>5. \A i \in Slots :
          word[i]["stamp"].idx \in Int /\ word[i]["stamp"].idx <= hdr.wr_count
    <3>1. era.up  BY <2>1 DEF Inv, PhaseOK, Writing
    <3>2. \A i \in Slots : word[i]["stamp"] \in Content  BY <1>s, <1>n
    <3> QED  BY <3>1, <3>2, <1>n DEF Inv, SlotsOK, Content
  <2>6. Current'.idx = hdr.wr_count + 1  BY <2>2 DEF Current
  <2>7. \A i \in Slots : word[i]["stamp"] # Current'
    <3> SUFFICES ASSUME NEW i \in Slots, word[i]["stamp"] = Current'
                 PROVE  FALSE
      OBVIOUS
    <3>1. word[i]["stamp"].idx = hdr.wr_count + 1  BY <2>6
    <3> QED  BY <3>1, <2>5, <1>s
  <2>8. NotYetThere'  BY <2>1, <2>7 DEF NotYetThere
  <2> QED  BY <2>1, <2>4, <2>8 DEF BoundsOK
<1>10. CASE Crash
  <2>1. hdr' = hdr /\ era' = era /\ word' = word /\ wr'.pc = "down"
    BY <1>10 DEF Crash, Goto, readerVars
  <2> QED  BY <2>1 DEF BoundsOK, NotYetThere
<1> QED
  BY <1>1, <1>2, <1>3, <1>4, <1>5, <1>6, <1>7, <1>8, <1>9, <1>10
  DEF WriterStep

LEMMA WriterInSlot ==
  ASSUME Inv, InItsSlot, WriterStep \/ Crash
  PROVE  InItsSlot'
<1>i. RingTypeOK /\ PhaseOK /\ InitialisingOK
  BY DEF Inv, TypeOK
<1>c. Cursor \in Slots  BY <1>i, CursorInRing
<1>s. /\ word \in [Slots -> [Words -> Content]]
      /\ era \in [gen : Nat, up : BOOLEAN]
  BY <1>i DEF RingTypeOK
<1>1. CASE Create  BY <1>1 DEF Create, InItsSlot
<1>2. CASE \/ \E i \in Slots : MemsetSlot(i)
           \/ \E f \in Fields : FillField(f)
  <2>1. wr.pc \in {"memset", "fields"} /\ era' = era
    BY <1>2 DEF MemsetSlot, FillField, WriterAt
  <2> QED  BY <2>1, <1>i DEF PhaseOK, InItsSlot
<1>3. CASE SetMagic
  <2>1. /\ era'.gen = era.gen /\ word' = word /\ wr.pc = "fields"
    BY <1>3, <1>s DEF SetMagic, WriterAt
  <2>2. /\ era.gen > 0
        /\ \A i \in Slots, w \in Words : word[i][w].gen = 0
    BY <2>1, <1>i DEF PhaseOK, InitialisingOK, Cleared, Zero
  <2> QED  BY <2>1, <2>2, <1>s DEF InItsSlot
<1>4. ASSUME NEW v \in Words, StoreWord(v)  PROVE InItsSlot'
  <2>1. /\ era' = era /\ word' = [word EXCEPT ![Cursor][v] = Current]
    BY <1>4 DEF StoreWord
  <2>2. Current.idx % NSlots = Cursor  BY DEF Current, Cursor
  <2>3. ASSUME era.up, NEW i \in Slots, NEW w \in Words,
               word'[i][w].gen = era.gen
        PROVE  word'[i][w].idx % NSlots = i
    <3>1. CASE i = Cursor /\ w = v
      <4>1. word'[i][w] = Current  BY <2>1, <3>1, <1>s, <1>c
      <4> QED  BY <4>1, <2>2, <3>1
    <3>2. CASE ~(i = Cursor /\ w = v)
      <4>1. word'[i][w] = word[i][w]  BY <2>1, <3>2, <1>s, <1>c
      <4> QED  BY <4>1, <2>3 DEF InItsSlot
    <3> QED  BY <3>1, <3>2
  <2> QED  BY <2>1, <2>3 DEF InItsSlot
<1>5. CASE WriteBegin \/ MarkStable \/ SetLatest \/ SetCount \/ Crash
  <2>1. era' = era /\ word' = word
    BY <1>5 DEF WriteBegin, MarkStable, SetLatest, SetCount, Crash,
      readerVars
  <2> QED  BY <2>1 DEF InItsSlot
<1> QED  BY <1>1, <1>2, <1>3, <1>4, <1>5 DEF WriterStep

LEMMA ReaderStamp ==
  ASSUME RingTypeOK, BoundsOK, NEW q \in Readers, ReaderStep(q),
         \A r \in Readers : StampOK(r)
  PROVE  \A r \in Readers : StampOK(r)'
<1>2. rd[q] \in ReaderType /\ rd \in [Readers -> ReaderType]
  BY DEF RingTypeOK
<1>n. "stamp" \in Meta /\ "stamp" \in Words  BY DEF Words, Meta
<1>3. ASSUME NEW r \in Readers, r # q  PROVE StampOK(r)'
  <2>1. rd'[r] = rd[r]  BY <1>3, ReaderFrame
  <2> QED  BY <2>1 DEF StampOK, StampLoaded
<1> SUFFICES StampOK(q)'  BY <1>3
<1>4. ASSUME rd'[q].pc \notin {"meta", "data"}  PROVE StampOK(q)'
  BY <1>4 DEF StampOK, StampLoaded
<1>5. ASSUME NEW w \in Words, LoadWord(q, w)  PROVE StampOK(q)'
  <2>1. PICK c \in Found(q, w) :
          rd' = [rd EXCEPT ![q] = [@ EXCEPT !.todo = rd[q].todo \ {w}, !.copy[w] = c]]
    BY <1>5 DEF LoadWord
  <2>2. /\ w \in rd[q].todo
        /\ rd'[q].pc = rd[q].pc /\ rd'[q].todo = rd[q].todo \ {w}
        /\ rd'[q].copy = [rd[q].copy EXCEPT ![w] = c]
    BY <2>1, <1>2, <1>5 DEF ReaderType, LoadWord
  <2>3. rd[q].copy \in [Words -> Content] /\ rd[q].idx \in Slots
    BY <1>2 DEF ReaderType
  <2>4. CASE w = "stamp"
    <3>1. rd'[q].copy["stamp"] = c
      BY <2>2, <2>3, <2>4
    <3>2. c \in Seen
      BY <2>1, <2>3, <2>4, <1>n, StoredFacts DEF BoundsOK, Found, Junk
    <3> QED  BY <3>1, <3>2 DEF StampOK
  <2>5. CASE w # "stamp"
    <3>1. rd'[q].copy["stamp"] = rd[q].copy["stamp"]
      BY <2>2, <2>3, <2>5, <1>n
    <3>2. StampLoaded(q)' => StampLoaded(q)
      BY <2>2, <2>5 DEF StampLoaded
    <3> QED  BY <3>1, <3>2 DEF StampOK
  <2> QED  BY <2>4, <2>5
<1>6. CASE SlotStable(q)
  <2>1. \E n : rd'[q] = [rd[q] EXCEPT !.pc = "meta", !.todo = Meta, !.s0 = n]
    BY <1>6, <1>2 DEF SlotStable
  <2>2. rd'[q].pc = "meta" /\ rd'[q].todo = Meta
    BY <2>1, <1>2 DEF ReaderType
  <2> QED  BY <2>2, <1>n DEF StampOK, StampLoaded
<1>7. CASE CopyPayload(q)
  <2>1. /\ rd[q].pc = "meta" /\ rd[q].todo = {}
        /\ rd'[q] = [rd[q] EXCEPT !.pc = "data",
             !.todo = IF rd[q].copy["size"] = Zero THEN {} ELSE Payload]
    BY <1>7, <1>2 DEF CopyPayload
  <2>2. rd'[q].copy = rd[q].copy  BY <2>1, <1>2 DEF ReaderType
  <2>3. rd[q].copy["stamp"] \in Seen  BY <2>1 DEF StampOK, StampLoaded
  <2> QED  BY <2>2, <2>3 DEF StampOK
<1>8. CASE OpenStep(q)
  <2>1. rd'[q].pc \in {"closed", "idle"} \cup Opening  BY <1>8, OpenFacts
  <2> QED  BY <2>1, <1>4 DEF Opening
<1>9. CASE Begin(q)
  <2>1. rd'[q] = [rd[q] EXCEPT !.pc = "latest",
                               !.copy = [w \in Words |-> Unread]]
    BY <1>9, <1>2 DEF Begin
  <2>2. rd'[q].pc = "latest"  BY <2>1, <1>2 DEF ReaderType
  <2> QED  BY <2>2, <1>4
<1>10. CASE SlotBusy(q) \/ Torn(q)
  <2>1. rd'[q] = [rd[q] EXCEPT !.pc = "latest", !.tries = rd[q].tries + 1]
    BY <1>10, <1>2 DEF SlotBusy, Torn, Retry
  <2>2. rd'[q].pc = "latest"  BY <2>1, <1>2 DEF ReaderType
  <2> QED  BY <2>2, <1>4
<1>11. CASE PickSlot(q)
  <2>1. rd'[q] = [rd[q] EXCEPT
             !.pc = IF q \in PyReaders THEN "seq0" ELSE "bound",
             !.idx = hdr.latest, !.copy = [w \in Words |-> Unread]]
    BY <1>11, <1>2 DEF PickSlot
  <2>2. rd'[q].pc \in {"seq0", "bound"}  BY <2>1, <1>2 DEF ReaderType
  <2> QED  BY <2>2, <1>4
<1>12. CASE GoodSlot(q)
  <2>1. rd'[q] = [rd[q] EXCEPT !.pc = "seq0"]
    BY <1>12, <1>2 DEF GoodSlot
  <2>2. rd'[q].pc = "seq0"  BY <2>1, <1>2 DEF ReaderType
  <2> QED  BY <2>2, <1>4
<1>13. CASE \/ GiveUp(q) \/ SeeNothing(q) \/ BadSlot(q) \/ Duplicate(q)
            \/ TooBig(q) \/ Succeed(q)
  <2>1. rd'[q].pc = "idle"
    BY <1>13, <1>2 DEF GiveUp, SeeNothing, BadSlot, Duplicate, TooBig,
      Succeed, Return, Ended
  <2> QED  BY <2>1, <1>4
<1>14. CASE LoadMagic(q) \/ LoadNSlots(q) \/ LoadSlotSize(q)
  <2>1. rd'[q].pc \in {"nslots", "slot_size", "index"}
    <3>1. CASE LoadMagic(q)  BY <3>1, <1>2 DEF LoadMagic, ReaderType
    <3>2. CASE LoadNSlots(q)  BY <3>2, <1>2 DEF LoadNSlots, ReaderType
    <3>3. CASE LoadSlotSize(q)  BY <3>3, <1>2 DEF LoadSlotSize, ReaderType
    <3> QED  BY <1>14, <3>1, <3>2, <3>3
  <2> QED  BY <2>1, <1>4
<1> QED
  BY <1>5, <1>6, <1>7, <1>8, <1>9, <1>10, <1>11, <1>12, <1>13, <1>14
  DEF ReaderStep, CallStep

LEMMA ReaderAway ==
  ASSUME RingTypeOK, NEW q \in Readers, ReaderStep(q),
         \A r \in Readers : AwayOK(r)
  PROVE  \A r \in Readers : AwayOK(r)'
<1>3. ASSUME NEW r \in Readers, r # q  PROVE AwayOK(r)'
  <2>1. rd'[r] = rd[r]  BY <1>3, ReaderFrame
  <2> QED  BY <2>1 DEF AwayOK
<1> SUFFICES AwayOK(q)'  BY <1>3
<1>4. CASE OpenStep(q)
  <2>1. rd[q].pc \in {"closed"} \cup Opening  BY <1>4, OpenFacts
  <2>2. rd[q].rc = "none" /\ rd[q].last = Unread  BY <2>1 DEF AwayOK
  <2>3. rd'[q].rc = "none" /\ rd'[q].last = Unread
    BY <1>4, <2>2, OpenKeeps DEF Detached
  <2> QED  BY <2>3 DEF AwayOK
<1>5. CASE Begin(q)  BY <1>5, BeginFacts DEF AwayOK, Opening
<1>6. CASE CallStep(q)
  <2>1. rd'[q].pc \in InCall \cup {"idle"}  BY <1>6, CallFacts
  <2> QED  BY <2>1 DEF AwayOK, InCall, Opening
<1> QED  BY <1>4, <1>5, <1>6 DEF ReaderStep

LEMMA ReaderPyOnly ==
  ASSUME RingTypeOK, NEW q \in Readers, ReaderStep(q),
         \A r \in Readers : PyOnly(r)
  PROVE  \A r \in Readers : PyOnly(r)'
<1>2. rd[q] \in ReaderType /\ rd \in [Readers -> ReaderType]
  BY DEF RingTypeOK
<1>3. ASSUME NEW r \in Readers, r # q  PROVE PyOnly(r)'
  <2>1. rd'[r] = rd[r]  BY <1>3, ReaderFrame
  <2> QED  BY <2>1 DEF PyOnly
<1> SUFFICES ASSUME rd'[q].pc \in {"nslots", "slot_size", "index"}
             PROVE  q \in PyReaders
  BY <1>3 DEF PyOnly
<1>4. CASE OpenStep(q)  BY <1>4, OpenFacts DEF Opening
<1>5. CASE Begin(q)  BY <1>5, BeginFacts
<1>6. CASE LoadMagic(q)  BY <1>6 DEF LoadMagic
<1>7. CASE LoadNSlots(q) \/ LoadSlotSize(q)
  BY <1>7 DEF LoadNSlots, LoadSlotSize, PyOnly
<1>8. CASE GiveUp(q) \/ SeeNothing(q) \/ BadSlot(q) \/ Duplicate(q)
           \/ TooBig(q) \/ Succeed(q)
  BY <1>8, <1>2 DEF GiveUp, SeeNothing, BadSlot, Duplicate, TooBig, Succeed,
    Return, Ended
<1>9. CASE SlotBusy(q) \/ Torn(q)
  <2>1. rd'[q] = [rd[q] EXCEPT !.pc = "latest", !.tries = rd[q].tries + 1]
    BY <1>9, <1>2 DEF SlotBusy, Torn, Retry
  <2> QED  BY <2>1, <1>2 DEF ReaderType
<1>10. CASE PickSlot(q)
  <2>1. rd'[q] = [rd[q] EXCEPT
             !.pc = IF q \in PyReaders THEN "seq0" ELSE "bound",
             !.idx = hdr.latest, !.copy = [w \in Words |-> Unread]]
    BY <1>10, <1>2 DEF PickSlot
  <2> QED  BY <2>1, <1>2 DEF ReaderType
<1>11. CASE GoodSlot(q)  BY <1>11, <1>2 DEF GoodSlot, ReaderType
<1>12. CASE SlotStable(q)
  <2>1. \E n : rd'[q] = [rd[q] EXCEPT !.pc = "meta", !.todo = Meta, !.s0 = n]
    BY <1>12, <1>2 DEF SlotStable
  <2> QED  BY <2>1, <1>2 DEF ReaderType
<1>13. CASE CopyPayload(q)
  <2>1. \E t : rd'[q] = [rd[q] EXCEPT !.pc = "data", !.todo = t]
    BY <1>13, <1>2 DEF CopyPayload
  <2> QED  BY <2>1, <1>2 DEF ReaderType
<1>14. CASE \E w \in Words : LoadWord(q, w)
  <2>1. rd[q].pc \in {"meta", "data"} /\ rd'[q].pc = rd[q].pc
    <3>1. PICK w \in Words : LoadWord(q, w)  BY <1>14
    <3>2. rd[q].pc \in {"meta", "data"}  BY <3>1 DEF LoadWord
    <3>3. PICK c \in Found(q, w) :
            rd' = [rd EXCEPT ![q] = [@ EXCEPT !.todo = rd[q].todo \ {w},
                                              !.copy[w] = c]]
      BY <3>1 DEF LoadWord
    <3> QED  BY <3>2, <3>3, <1>2 DEF ReaderType
  <2> QED  BY <2>1
<1> QED
  BY <1>4, <1>5, <1>6, <1>7, <1>8, <1>9, <1>10, <1>11, <1>12, <1>13, <1>14
  DEF ReaderStep, CallStep

(* What a reader computes its addresses from stays as it is in a call. *)
LEMMA CallFits ==
  ASSUME RingTypeOK, NEW q \in Readers, CallStep(q), PyOnly(q)
  PROVE  Fits(q)' <=> Fits(q)
<1>1. CASE rd'[q].stride = rd[q].stride /\ rd'[q].buf = rd[q].buf
  BY <1>1 DEF Fits, Placed
<1>2. CASE LoadSlotSize(q)
  <2>1. q \notin CReaders
    BY <1>2, ReadersAssumption DEF LoadSlotSize, PyOnly
  <2> QED  BY <2>1 DEF Fits
<1> QED  BY <1>1, <1>2, CallFacts

LEMMA RegStep ==
  ASSUME RegInv, [Next]_vars
  PROVE  RegInv'
<1>1. LapInv'  BY LapStep DEF RegInv
<1>2. CASE WriterStep \/ Crash
  <2>1. BoundsOK' /\ NotYetThere' /\ InItsSlot'
    BY <1>2, WriterBounds, WriterInSlot DEF RegInv, LapInv
  <2>2. rd' = rd  BY <1>2, WriterFrame DEF RegInv, LapInv, Inv
  <2>3. \A r \in Readers : StampOK(r)' /\ AwayOK(r)' /\ PyOnly(r)'
    BY <2>2 DEF RegInv, StampOK, StampLoaded, AwayOK, PyOnly
  <2> QED  BY <1>1, <2>1, <2>3 DEF RegInv
<1>3. ASSUME NEW q \in Readers, ReaderStep(q), wr' = wr  PROVE RegInv'
  <2>1. hdr' = hdr /\ word' = word /\ era' = era
    BY <1>3, ReaderFrame DEF RegInv, LapInv, Inv, TypeOK
  <2>2. BoundsOK' /\ NotYetThere' /\ InItsSlot'
    BY <2>1, <1>3 DEF RegInv, BoundsOK, NotYetThere, InItsSlot, Current
  <2>3. \A r \in Readers : StampOK(r)' /\ AwayOK(r)' /\ PyOnly(r)'
    BY <1>3, ReaderStamp, ReaderAway, ReaderPyOnly DEF RegInv, LapInv, Inv, TypeOK
  <2> QED  BY <1>1, <2>2, <2>3 DEF RegInv
<1>4. CASE UNCHANGED vars
  <2>1. /\ hdr' = hdr /\ word' = word /\ era' = era
        /\ rd' = rd /\ wr' = wr
    BY <1>4 DEF vars
  <2> QED  BY <2>1, <1>1 DEF RegInv, BoundsOK, NotYetThere, InItsSlot,
             Current, StampOK, StampLoaded, AwayOK, PyOnly
<1> QED  BY <1>2, <1>3, <1>4 DEF Next

(***************************************************************************)
(* The writer's steps are the register's.                                  *)
(***************************************************************************)
Done ==
  /\ era.up
  /\ Even(seq[Cursor])
  /\ word[Cursor]["stamp"] = Current

LEMMA VisibleIs ==
  /\ Done => CompleteFrames = hdr.wr_count + 1
  /\ ~Done => CompleteFrames = hdr.wr_count
BY DEF Done, CompleteFrames

LEMMA VisibleNext ==
  /\ Done' => CompleteFrames' = hdr'.wr_count + 1
  /\ ~Done' => CompleteFrames' = hdr'.wr_count
BY DEF Done, CompleteFrames

LEMMA CallsKept ==
  ASSUME rd' = rd, span' = span
  PROVE  Calls' = Calls
BY DEF Calls, CallOf, Standing, Attached, Fits, Placed

(* How the steps of the register change the record of a call. *)
LEMMA CallCleared ==
  ASSUME NEW a, NEW n, NEW c, NEW rc, NEW got, NEW f, NEW k, NEW c2,
         k = [at |-> a, lo |-> n, clean |-> c, rc |-> rc, got |-> got, fit |-> f]
  PROVE  [k EXCEPT !.clean = c2] =
           [at |-> a, lo |-> n, clean |-> c2, rc |-> rc, got |-> got, fit |-> f]
OBVIOUS

LEMMA CallMoved ==
  ASSUME NEW a, NEW n, NEW c, NEW rc, NEW got, NEW f, NEW k, NEW a2,
         k = [at |-> a, lo |-> n, clean |-> c, rc |-> rc, got |-> got, fit |-> f]
  PROVE  [k EXCEPT !.at = a2] =
           [at |-> a2, lo |-> n, clean |-> c, rc |-> rc, got |-> got, fit |-> f]
OBVIOUS

LEMMA WriterRefines ==
  ASSUME RegInv, WriterStep \/ Crash
  PROVE  [Register!Next]_Register!regVars
<1>i. RingTypeOK /\ WritingOK /\ PhaseOK /\ NotYetThere
  BY DEF RegInv, LapInv, Inv, TypeOK
<1>c. Cursor \in Slots  BY <1>i, CursorInRing
<1>s. /\ seq \in [Slots -> Nat] /\ word \in [Slots -> [Words -> Content]]
      /\ hdr \in HdrType /\ hdr.wr_count \in Nat
      /\ era \in [gen : Nat, up : BOOLEAN]
  BY <1>i DEF RingTypeOK, HdrType
<1>n. "stamp" \in Words  BY DEF Words, Meta
<1>r. rd' = rd  BY WriterFrame DEF RegInv, LapInv, Inv
<1>q. ASSUME era' = era, span' = span, hdr'.wr_count = hdr.wr_count,
             Done' <=> Done
      PROVE  [Register!Next]_Register!regVars
  <2>1. Calls' = Calls  BY <1>q, <1>r, CallsKept
  <2>2. CompleteFrames' = CompleteFrames
    BY <1>q, VisibleIs, VisibleNext
  <2> QED  BY <1>q, <2>1, <2>2 DEF Register!regVars
<1>1. CASE Create
  <2>1. /\ hdr'.wr_count = 0 /\ era'.gen = era.gen + 1 /\ ~era'.up
        /\ span' = [r \in Readers |-> [span[r] EXCEPT !.clean = FALSE]]
    BY <1>1 DEF Create, EmptyHdr
  <2>2. CompleteFrames' = 0  BY <2>1, VisibleNext DEF Done
  <2>3. Calls' = [r \in Readers |-> [Calls[r] EXCEPT !.clean = FALSE]]
    <3>1. ASSUME NEW r \in Readers
          PROVE  CallOf(r)' = [CallOf(r) EXCEPT !.clean = FALSE]
      <4>1. span[r] \in [lo : Nat, clean : BOOLEAN]
        BY <1>i DEF RingTypeOK
      <4>2. span'[r].lo = span[r].lo /\ span'[r].clean = FALSE
        BY <2>1, <4>1
      <4> DEFINE a == Standing(r)
                 n == span[r].lo
                 c == span[r].clean
                 rc == rd[r].rc
                 got == rd[r].last
                 f == Attached(r) /\ Fits(r)
                 k == CallOf(r)
                 next == CallOf(r)'
                 no == FALSE
      <4>3. Standing(r)' = a /\ (Attached(r) /\ Fits(r))' = f
        BY <1>r DEF Standing, Attached, Fits, Placed
      <4>4. k = [at |-> a, lo |-> n, clean |-> c, rc |-> rc, got |-> got, fit |-> f]
        BY DEF CallOf
      <4>5. next = [at |-> a, lo |-> n, clean |-> no,
                    rc |-> rc, got |-> got, fit |-> f]
        BY <4>2, <4>3, <1>r DEF CallOf
      <4> HIDE DEF a, n, c, rc, got, f, k, next, no
      <4>6. next = [k EXCEPT !.clean = no]  BY <4>4, <4>5, CallCleared
      <4> QED  BY <4>6 DEF k, next, no
    <3> QED  BY <3>1 DEF Calls
  <2>4. era'.up = FALSE  BY <1>1 DEF Create
  <2> QED
    BY <2>1, <2>2, <2>3, <2>4 DEF Register!Next, Register!Reset
<1>2. CASE \/ \E i \in Slots : MemsetSlot(i)
           \/ \E f \in Fields : FillField(f)
  <2>1. /\ wr.pc \in {"memset", "fields"} /\ era' = era /\ span' = span
    BY <1>2 DEF MemsetSlot, FillField, WriterAt
  <2>2. ~era.up  BY <2>1, <1>i DEF PhaseOK
  <2>3. hdr'.wr_count = hdr.wr_count
    <3>1. CASE \E i \in Slots : MemsetSlot(i)  BY <3>1 DEF MemsetSlot
    <3>2. ASSUME NEW f \in Fields, FillField(f)
          PROVE  hdr'.wr_count = hdr.wr_count
      <4>1. \E v : hdr' = [hdr EXCEPT ![f] = v]  BY <3>2 DEF FillField
      <4>2. f # "wr_count"  BY DEF Fields
      <4> QED  BY <4>1, <4>2, <1>s DEF HdrType
    <3> QED  BY <1>2, <3>1, <3>2
  <2>4. ~Done /\ ~Done'  BY <2>1, <2>2 DEF Done
  <2> QED  BY <2>1, <2>3, <2>4, <1>q
<1>3. CASE SetMagic
  <2>1. /\ hdr' = [hdr EXCEPT !.magic = TRUE] /\ wr.pc = "fields"
        /\ seq' = seq /\ word' = word /\ span' = span
        /\ era' = [era EXCEPT !.up = TRUE]
        /\ wr.todo = {}
    BY <1>3 DEF SetMagic, WriterAt
  <2>2. era'.up = TRUE /\ era'.gen = era.gen  BY <2>1, <1>s
  <2>3. hdr'.wr_count = hdr.wr_count  BY <2>1, <1>s DEF HdrType
  <2>4. ~era.up /\ era.gen > 0  BY <2>1, <1>i DEF PhaseOK
  <2>5. \A i \in Slots : word[i]["stamp"] = Zero
    BY <2>1, <1>n DEF RegInv, LapInv, Inv, InitialisingOK, Cleared
  <2>6. Cursor' = Cursor  BY <2>3 DEF Cursor
  <2>7. ~Done'
    <3>1. Current'.gen = era.gen  BY <2>2 DEF Current
    <3>2. Zero # Current'  BY <3>1, <2>4, <1>s DEF Zero
    <3>3. word'[Cursor']["stamp"] = Zero  BY <2>1, <2>5, <2>6, <1>c
    <3> QED  BY <3>2, <3>3 DEF Done
  <2>8. CompleteFrames' = CompleteFrames
    BY <2>3, <2>4, <2>7, VisibleIs, VisibleNext DEF Done
  <2>9. Calls' = Calls  BY <2>1, <1>r, CallsKept
  <2> QED
    BY <2>2, <2>3, <2>4, <2>8, <2>9 DEF Register!Next, Register!Launch
<1>4. CASE WriteBegin
  <2>1. /\ hdr' = hdr /\ word' = word /\ era' = era /\ span' = span
        /\ seq' = [seq EXCEPT ![Cursor] = seq[Cursor] + 1]
        /\ wr.pc = "ready"
    BY <1>4 DEF WriteBegin, WriterAt
  <2>2. word[Cursor]["stamp"] # Current
    BY <2>1, <1>c, <1>i DEF NotYetThere
  <2>3. Cursor' = Cursor /\ Current' = Current
    BY <2>1 DEF Cursor, Current
  <2>4. ~Done /\ ~Done'  BY <2>1, <2>2, <2>3 DEF Done
  <2> QED  BY <2>1, <2>4, <1>q
<1>5. ASSUME NEW w \in Words, StoreWord(w)
      PROVE  [Register!Next]_Register!regVars
  <2>1. /\ hdr' = hdr /\ seq' = seq /\ era' = era /\ span' = span
        /\ wr.pc = "copy"
    BY <1>5 DEF StoreWord, WriterAt
  <2>2. ~Even(seq[Cursor])  BY <2>1, <1>c, <1>i DEF WritingOK
  <2>3. Cursor' = Cursor  BY <2>1 DEF Cursor
  <2>4. ~Even(seq'[Cursor'])  BY <2>1, <2>2, <2>3
  <2>5. ~Done /\ ~Done'  BY <2>2, <2>4 DEF Done, Even
  <2> QED  BY <2>1, <2>5, <1>q
<1>6. CASE MarkStable
  <2>1. /\ hdr' = hdr /\ word' = word /\ era' = era /\ span' = span
        /\ seq' = [seq EXCEPT ![Cursor] = seq[Cursor] + 1]
        /\ wr.pc = "copy" /\ wr.todo = {}
    BY <1>6 DEF MarkStable, WriterAt
  <2>2. era.up  BY <2>1, <1>i DEF PhaseOK, Writing
  <2>3. /\ ~Even(seq[Cursor])
        /\ word[Cursor]["stamp"] = Current
    BY <2>1, <1>c, <1>n, <1>i DEF WritingOK
  <2>4. Cursor' = Cursor /\ Current' = Current
    BY <2>1 DEF Cursor, Current
  <2>5. seq'[Cursor'] = seq[Cursor] + 1  BY <2>1, <2>4, <1>c, <1>s
  <2>6. Even(seq[Cursor] + 1)  BY <2>3, <1>c, <1>s, Parity
  <2>7. ~Done  BY <2>3 DEF Done
  <2>8. Done'  BY <2>1, <2>2, <2>3, <2>4, <2>5, <2>6 DEF Done, Even
  <2>9. CompleteFrames = hdr.wr_count /\ CompleteFrames' = hdr.wr_count + 1
    BY <2>1, <2>7, <2>8, VisibleIs, VisibleNext
  <2>10. Calls' = Calls  BY <2>1, <1>r, CallsKept
  <2> QED
    BY <2>1, <2>2, <2>9, <2>10 DEF Register!Next, Register!Complete
<1>7. CASE SetLatest
  <2>1. /\ hdr' = [hdr EXCEPT !.latest = Cursor] /\ seq' = seq
        /\ word' = word /\ era' = era /\ span' = span
    BY <1>7 DEF SetLatest
  <2>2. hdr'.wr_count = hdr.wr_count  BY <2>1, <1>s DEF HdrType
  <2>3. Cursor' = Cursor /\ Current' = Current
    BY <2>1, <2>2 DEF Cursor, Current
  <2>4. Done' <=> Done  BY <2>1, <2>3 DEF Done, Even
  <2> QED  BY <2>1, <2>2, <2>4, <1>q
<1>8. CASE SetCount
  <2>1. /\ hdr' = [hdr EXCEPT !.wr_count = hdr.wr_count + 1] /\ seq' = seq
        /\ word' = word /\ era' = era /\ span' = span
        /\ wr.pc = "count" /\ wr'.pc = "ready"
    BY <1>8 DEF SetCount, WriterAt, Goto
  <2>2. hdr'.wr_count = hdr.wr_count + 1  BY <2>1, <1>s DEF HdrType
  <2>3. era.up  BY <2>1, <1>i DEF PhaseOK, Writing
  <2>4. Even(seq[Cursor]) /\ word[Cursor]["stamp"] = Current
    BY <2>1, <1>c, <1>n, <1>i DEF WritingOK
  <2>5. Done  BY <2>3, <2>4 DEF Done
  <2>6. NotYetThere'
    BY WriterBounds DEF RegInv, LapInv
  <2>7. Cursor' \in Slots
    <3>1. RingTypeOK'
      BY WriterTyping DEF RegInv, LapInv, Inv, TypeOK
    <3>2. hdr'.wr_count \in Nat  BY <2>2, <1>s
    <3>3. NSlots \in Nat /\ NSlots > 0  OBVIOUS
    <3>4. hdr'.wr_count % NSlots \in 0 .. NSlots - 1
      BY <3>2, <3>3, Remainder
    <3> QED  BY <3>4 DEF Cursor, Slots
  <2>8. ~Done'  BY <2>1, <2>6, <2>7 DEF NotYetThere, Done
  <2>9. /\ CompleteFrames = hdr.wr_count + 1
        /\ CompleteFrames' = hdr.wr_count + 1
    BY <2>2, <2>5, <2>8, VisibleIs, VisibleNext
  <2>10. Calls' = Calls  BY <2>1, <1>r, CallsKept
  <2> QED
    BY <2>1, <2>2, <2>3, <2>9, <2>10 DEF Register!Next, Register!Publish
<1>9. CASE Crash
  <2>1. /\ hdr' = hdr /\ seq' = seq /\ word' = word /\ era' = era
        /\ span' = span
    BY <1>9 DEF Crash, readerVars
  <2>2. Done' <=> Done  BY <2>1 DEF Done, Cursor, Current, Even
  <2> QED  BY <2>1, <2>2, <1>q
<1> QED
  BY <1>1, <1>2, <1>3, <1>4, <1>5, <1>6, <1>7, <1>8, <1>9 DEF WriterStep

(***************************************************************************)
(* The readers' steps are the register's.                                  *)
(***************************************************************************)
LEMMA OneCallMoves ==
  ASSUME RingTypeOK, NEW q \in Readers, ReaderStep(q)
  PROVE  /\ era' = era /\ hdr' = hdr /\ CompleteFrames' = CompleteFrames
         /\ Calls' = [Calls EXCEPT ![q] = CallOf(q)']
<1>1. UNCHANGED <<hdr, seq, word, era>>  BY ReaderFrame
<1>2. Done' <=> Done  BY <1>1 DEF Done, Cursor, Current, Even
<1>3. CompleteFrames' = CompleteFrames
  BY <1>1, <1>2, VisibleIs, VisibleNext
<1>4. ASSUME NEW r \in Readers, r # q  PROVE CallOf(r)' = CallOf(r)
  <2>1. rd'[r] = rd[r] /\ span'[r] = span[r]  BY <1>4, ReaderFrame
  <2> QED  BY <2>1 DEF CallOf, Standing, Attached, Fits, Placed
<1> DEFINE next(r) == CallOf(r)'
           call(r) == CallOf(r)
<1>5. Calls' = [r \in Readers |-> next(r)]  BY DEF Calls
<1>6. Calls = [r \in Readers |-> call(r)]  BY DEF Calls
<1>7. \A r \in Readers \ {q} : next(r) = call(r)  BY <1>4
<1> HIDE DEF next, call
<1>8. Calls' = [Calls EXCEPT ![q] = next(q)]  BY <1>5, <1>6, <1>7
<1> QED  BY <1>1, <1>3, <1>8 DEF next

LEMMA Quiet ==
  ASSUME RingTypeOK, NEW q \in Readers, ReaderStep(q),
         CallOf(q)' = CallOf(q)
  PROVE  UNCHANGED Register!regVars
<1>1. /\ era' = era /\ hdr' = hdr /\ CompleteFrames' = CompleteFrames
      /\ Calls' = [Calls EXCEPT ![q] = CallOf(q)']
  BY OneCallMoves
<1>2. Calls' = Calls
  <2> DEFINE next == CallOf(q)'
  <2>1. Calls[q] = next /\ Calls = [r \in Readers |-> Calls[r]]
    BY DEF Calls
  <2>2. Calls' = [Calls EXCEPT ![q] = next]  BY <1>1
  <2> HIDE DEF next
  <2> QED  BY <2>1, <2>2
<1> QED  BY <1>1, <1>2 DEF Register!regVars

(* A step in the middle of a call is none of the register's. *)
LEMMA QuietInCall ==
  ASSUME RingTypeOK, NEW q \in Readers, CallStep(q), PyOnly(q), Busy(q)',
         rd'[q].rc = rd[q].rc, rd'[q].last = rd[q].last
  PROVE  UNCHANGED Register!regVars
<1>0. ReaderStep(q)  BY DEF ReaderStep
<1>1. span' = span /\ Busy(q)  BY CallFacts DEF Busy
<1>2. Standing(q) = "busy" /\ Standing(q)' = "busy"
  BY <1>1 DEF Standing, Busy, InCall, Opening
<1>3. Attached(q) /\ Attached(q)'  BY <1>1 DEF Attached, Busy
<1>4. Fits(q)' <=> Fits(q)  BY CallFits
<1>5. (Attached(q) /\ Fits(q))' = (Attached(q) /\ Fits(q))
  BY <1>3, <1>4
<1>6. CallOf(q)' = CallOf(q)  BY <1>1, <1>2, <1>5 DEF CallOf
<1> QED  BY <1>0, <1>6, Quiet

LEMMA CallFields ==
  ASSUME NEW q \in Readers
  PROVE  /\ Calls[q].lo = span[q].lo /\ Calls[q].clean = span[q].clean
         /\ Calls[q].got = rd[q].last
<1> DEFINE a == Standing(q)
           n == span[q].lo
           c == span[q].clean
           rc == rd[q].rc
           got == rd[q].last
           f == Attached(q) /\ Fits(q)
           k == CallOf(q)
<1>1. k = [at |-> a, lo |-> n, clean |-> c, rc |-> rc, got |-> got, fit |-> f]
  BY DEF CallOf
<1>2. Calls[q] = k  BY DEF Calls
<1> HIDE DEF a, n, c, rc, got, f, k
<1>3. k.lo = n /\ k.clean = c /\ k.got = got  BY <1>1
<1>4. Calls[q].lo = n /\ Calls[q].clean = c /\ Calls[q].got = got
  BY <1>2, <1>3
<1> QED  BY <1>4 DEF n, c, got

(* The end of a call is an answer of the register. *)
LEMMA Answers ==
  ASSUME RingTypeOK, NEW q \in Readers, CallStep(q), PyOnly(q),
         rd'[q].pc = "idle",
         NEW rc, rd'[q].rc = rc, NEW got, rd'[q].last = got
  PROVE  /\ Register!Answer(q, rc, got)
         /\ Calls'[q].rc = rc /\ Calls'[q].got = got
<1>0. ReaderStep(q)  BY DEF ReaderStep
<1>1. /\ era' = era /\ hdr' = hdr /\ CompleteFrames' = CompleteFrames
      /\ Calls' = [Calls EXCEPT ![q] = CallOf(q)']
  BY <1>0, OneCallMoves
<1>2. span' = span /\ Busy(q)  BY CallFacts DEF Busy
<1> DEFINE n == span[q].lo
           c == span[q].clean
           rc1 == rd[q].rc
           got1 == rd[q].last
           f == Attached(q) /\ Fits(q)
           k == CallOf(q)
           next == CallOf(q)'
           busy == "busy"
           idle == "idle"
<1>3. Standing(q) = busy  BY <1>2 DEF Standing, Busy, InCall, Opening
<1>4. Standing(q)' = idle  BY DEF Standing, Opening, InCall
<1>5. (Attached(q) /\ Fits(q))' = f
  <2>1. Attached(q) /\ Attached(q)'  BY <1>2 DEF Attached, Busy
  <2>2. Fits(q)' <=> Fits(q)  BY CallFits
  <2> QED  BY <2>1, <2>2
<1>6. k = [at |-> busy, lo |-> n, clean |-> c, rc |-> rc1, got |-> got1,
           fit |-> f]
  BY <1>3 DEF CallOf
<1>7. next = [at |-> idle, lo |-> n, clean |-> c, rc |-> rc, got |-> got,
              fit |-> f]
  BY <1>2, <1>4, <1>5 DEF CallOf
<1>8. Calls[q] = k  BY DEF Calls
<1>9. Calls'[q] = next  BY DEF Calls
<1>10. Calls' = [Calls EXCEPT ![q] = next]  BY <1>1
<1> HIDE DEF n, c, rc1, got1, f, k, next
<1>11. k.at = busy  BY <1>6
<1> HIDE DEF busy, idle
<1>e. [k EXCEPT !.at = idle, !.rc = rc, !.got = got] =
        [at |-> idle, lo |-> n, clean |-> c, rc |-> rc, got |-> got, fit |-> f]
  <2> DEFINE u == [k EXCEPT !.at = idle]
             v == [u EXCEPT !.rc = rc]
             w == [v EXCEPT !.got = got]
  <2>1. u =
          [at |-> idle, lo |-> n, clean |-> c, rc |-> rc1, got |-> got1,
           fit |-> f]
    BY <1>6
  <2>2. [k EXCEPT !.at = idle, !.rc = rc, !.got = got] = w  OBVIOUS
  <2> HIDE DEF u
  <2>3. v =
          [at |-> idle, lo |-> n, clean |-> c, rc |-> rc, got |-> got1,
           fit |-> f]
    BY <2>1
  <2> HIDE DEF v
  <2>4. w =
          [at |-> idle, lo |-> n, clean |-> c, rc |-> rc, got |-> got,
           fit |-> f]
    BY <2>3
  <2> HIDE DEF w
  <2> QED  BY <2>2, <2>4
<1>12. next = [k EXCEPT !.at = idle, !.rc = rc, !.got = got]
  BY <1>7, <1>e
<1>13. next.rc = rc /\ next.got = got  BY <1>7
<1>14. Calls' = [Calls EXCEPT ![q] =
                   [Calls[q] EXCEPT !.at = idle, !.rc = rc, !.got = got]]
  BY <1>8, <1>10, <1>12
<1> QED
  BY <1>1, <1>8, <1>9, <1>11, <1>13, <1>14 DEF Register!Answer, busy, idle

(* The beginning of a call is an invocation of the register. *)
LEMMA Invokes ==
  ASSUME RingTypeOK, NEW q \in Readers, Begin(q)
  PROVE  Register!Invoke(q)
<1>0. ReaderStep(q)  BY DEF ReaderStep
<1>1. /\ era' = era /\ hdr' = hdr /\ CompleteFrames' = CompleteFrames
      /\ Calls' = [Calls EXCEPT ![q] = CallOf(q)']
  BY <1>0, OneCallMoves
<1>2. /\ rd[q].pc = "idle"
      /\ rd'[q] = [rd[q] EXCEPT !.pc = "latest",
                                !.copy = [w \in Words |-> Unread]]
  BY DEF Begin, RingTypeOK
<1>3. /\ rd'[q].pc = "latest" /\ rd'[q].rc = rd[q].rc
      /\ rd'[q].last = rd[q].last
  <2>1. rd[q] \in ReaderType  BY DEF RingTypeOK
  <2> QED  BY <1>2, <2>1 DEF ReaderType
<1> DEFINE n == span[q].lo
           c == span[q].clean
           rc == rd[q].rc
           got == rd[q].last
           f == Attached(q) /\ Fits(q)
           k == CallOf(q)
           next == CallOf(q)'
           busy == "busy"
           idle == "idle"
           up == era.up /\ Fits(q)
           count == hdr.wr_count
           g == era.up /\ Calls[q].fit
<1>4. Standing(q) = idle  BY <1>2 DEF Standing, Opening, InCall
<1>5. Standing(q)' = busy  BY <1>3 DEF Standing, Opening, InCall
<1>6. (Attached(q) /\ Fits(q))' = f
  <2>1. Attached(q) /\ Attached(q)'  BY <1>2, <1>3 DEF Attached, InCall
  <2>2. Fits(q)' <=> Fits(q)  BY BeginFacts DEF Fits, Placed
  <2> QED  BY <2>1, <2>2
<1>7. span'[q].lo = count /\ span'[q].clean = up
  <2>1. span'[q] = [lo |-> count, clean |-> up]  BY BeginFacts
  <2> HIDE DEF count, up
  <2> QED  BY <2>1
<1>8. k = [at |-> idle, lo |-> n, clean |-> c, rc |-> rc, got |-> got,
           fit |-> f]
  BY <1>4 DEF CallOf
<1>9. next = [at |-> busy, lo |-> count, clean |-> up, rc |-> rc,
              got |-> got, fit |-> f]
  BY <1>3, <1>5, <1>6, <1>7 DEF CallOf
<1>10. Calls[q] = k  BY DEF Calls
<1>11. Calls' = [Calls EXCEPT ![q] = next]  BY <1>1
<1>12. up = (era.up /\ f)  BY <1>2 DEF Attached
<1> HIDE DEF n, c, rc, got, f, k, next, up, count
<1>13. k.at = idle /\ k.fit = f  BY <1>8
<1>14. up = g  BY <1>10, <1>12, <1>13
<1> HIDE DEF g
<1> HIDE DEF busy, idle
<1>e. [k EXCEPT !.at = busy, !.lo = count, !.clean = g] =
        [at |-> busy, lo |-> count, clean |-> g, rc |-> rc, got |-> got, fit |-> f]
  <2> DEFINE u == [k EXCEPT !.at = busy]
             v == [u EXCEPT !.lo = count]
             w == [v EXCEPT !.clean = g]
  <2>1. u =
          [at |-> busy, lo |-> n, clean |-> c, rc |-> rc, got |-> got,
           fit |-> f]
    BY <1>8
  <2>2. [k EXCEPT !.at = busy, !.lo = count, !.clean = g] = w  OBVIOUS
  <2> HIDE DEF u
  <2>3. v =
          [at |-> busy, lo |-> count, clean |-> c, rc |-> rc, got |-> got,
           fit |-> f]
    BY <2>1
  <2> HIDE DEF v
  <2>4. w =
          [at |-> busy, lo |-> count, clean |-> g, rc |-> rc, got |-> got,
           fit |-> f]
    BY <2>3
  <2> HIDE DEF w
  <2> QED  BY <2>2, <2>4
<1>15. next = [k EXCEPT !.at = busy, !.lo = count, !.clean = g]
  BY <1>9, <1>14, <1>e
<1>16. Calls' = [Calls EXCEPT ![q] =
                   [Calls[q] EXCEPT !.at = busy, !.lo = count, !.clean = g]]
  BY <1>10, <1>11, <1>15
<1> QED
  BY <1>1, <1>10, <1>13, <1>16 DEF Register!Invoke, count, g, busy, idle

(* So are the beginning and the two ends of attaching. *)
LEMMA Attaches ==
  ASSUME RingTypeOK, NEW q \in Readers, Open(q)
  PROVE  Register!Attach(q)
<1>0. ReaderStep(q)  BY DEF ReaderStep, OpenStep
<1>1. /\ era' = era /\ hdr' = hdr /\ CompleteFrames' = CompleteFrames
      /\ Calls' = [Calls EXCEPT ![q] = CallOf(q)']
  BY <1>0, OneCallMoves
<1>2. /\ rd[q].pc = "closed"
      /\ rd'[q] = [rd[q] EXCEPT !.pc = "open"]
      /\ span'[q] = [lo |-> hdr.wr_count, clean |-> era.up]
  BY DEF Open, RingTypeOK
<1>3. /\ rd'[q].pc = "open" /\ rd'[q].rc = rd[q].rc
      /\ rd'[q].last = rd[q].last
  <2>1. rd[q] \in ReaderType  BY DEF RingTypeOK
  <2> QED  BY <1>2, <2>1 DEF ReaderType
<1> DEFINE n == span[q].lo
           c == span[q].clean
           rc == rd[q].rc
           got == rd[q].last
           f == FALSE
           k == CallOf(q)
           next == CallOf(q)'
           away == "away"
           coming == "attaching"
           up == era.up
           count == hdr.wr_count
<1>4. Standing(q) = away /\ (Attached(q) /\ Fits(q)) = f
  BY <1>2 DEF Standing, Attached, InCall, Opening
<1>5. Standing(q)' = coming /\ (Attached(q) /\ Fits(q))' = f
  BY <1>3 DEF Standing, Attached, Opening, InCall
<1>7. span'[q].lo = count /\ span'[q].clean = up  BY <1>2
<1>8. k = [at |-> away, lo |-> n, clean |-> c, rc |-> rc, got |-> got,
           fit |-> f]
  BY <1>4 DEF CallOf
<1>9. next = [at |-> coming, lo |-> count, clean |-> up, rc |-> rc,
              got |-> got, fit |-> f]
  BY <1>3, <1>5, <1>7 DEF CallOf
<1>10. Calls[q] = k  BY DEF Calls
<1>11. Calls' = [Calls EXCEPT ![q] = next]  BY <1>1
<1> HIDE DEF n, c, rc, got, f, k, next, up, count
<1>13. k.at = away  BY <1>8
<1> HIDE DEF away, coming
<1>e. [k EXCEPT !.at = coming, !.lo = count, !.clean = up] =
        [at |-> coming, lo |-> count, clean |-> up, rc |-> rc, got |-> got,
         fit |-> f]
  <2> DEFINE u == [k EXCEPT !.at = coming]
             v == [u EXCEPT !.lo = count]
             w == [v EXCEPT !.clean = up]
  <2>1. u =
          [at |-> coming, lo |-> n, clean |-> c, rc |-> rc, got |-> got,
           fit |-> f]
    BY <1>8
  <2>2. [k EXCEPT !.at = coming, !.lo = count, !.clean = up] = w  OBVIOUS
  <2> HIDE DEF u
  <2>3. v =
          [at |-> coming, lo |-> count, clean |-> c, rc |-> rc, got |-> got,
           fit |-> f]
    BY <2>1
  <2> HIDE DEF v
  <2>4. w =
          [at |-> coming, lo |-> count, clean |-> up, rc |-> rc, got |-> got,
           fit |-> f]
    BY <2>3
  <2> HIDE DEF w
  <2> QED  BY <2>2, <2>4
<1>15. next = [k EXCEPT !.at = coming, !.lo = count, !.clean = up]
  BY <1>9, <1>e
<1>16. Calls' = [Calls EXCEPT ![q] =
                   [Calls[q] EXCEPT !.at = coming, !.lo = count, !.clean = up]]
  BY <1>10, <1>11, <1>15
<1> QED
  BY <1>1, <1>10, <1>13, <1>16 DEF Register!Attach, count, up, away, coming

LEMMA AttachEnds ==
  ASSUME RingTypeOK, NEW q \in Readers, OpenStep(q),
         rd[q].pc \in Opening, rd'[q].pc = "idle",
         rd'[q].rc = rd[q].rc, rd'[q].last = rd[q].last,
         span'[q].lo = span[q].lo,
         span[q].clean => Fits(q)'
  PROVE  Register!Attached(q)
<1>0. ReaderStep(q)  BY DEF ReaderStep
<1>1. /\ era' = era /\ hdr' = hdr /\ CompleteFrames' = CompleteFrames
      /\ Calls' = [Calls EXCEPT ![q] = CallOf(q)']
  BY <1>0, OneCallMoves
<1> DEFINE n == span[q].lo
           c == span[q].clean
           rc == rd[q].rc
           got == rd[q].last
           f == FALSE
           f2 == (Attached(q) /\ Fits(q))'
           k == CallOf(q)
           next == CallOf(q)'
           coming == "attaching"
           idle == "idle"
           no == FALSE
<1>4. Standing(q) = coming /\ (Attached(q) /\ Fits(q)) = f
  BY DEF Standing, Attached, InCall, Opening
<1>5. Standing(q)' = idle /\ (Attached(q) /\ Fits(q))' = f2
  BY DEF Standing, Opening, InCall
<1>6. span'[q].clean = no
  BY OpenFacts
<1>7. c \in BOOLEAN  BY DEF RingTypeOK
<1>8. k = [at |-> coming, lo |-> n, clean |-> c, rc |-> rc, got |-> got,
           fit |-> f]
  BY <1>4 DEF CallOf
<1>9. next = [at |-> idle, lo |-> n, clean |-> no, rc |-> rc,
              got |-> got, fit |-> f2]
  BY <1>5, <1>6 DEF CallOf
<1>10. Calls[q] = k  BY DEF Calls
<1>11. Calls' = [Calls EXCEPT ![q] = next]  BY <1>1
<1>12. f2 \in {TRUE, c}
  <2>1. CASE Fits(q)'
    <3>1. f2 = TRUE  BY <2>1 DEF Attached
    <3> QED  BY <3>1
  <2>2. CASE ~Fits(q)'
    <3>1. f2 = FALSE  BY <2>2
    <3>2. c = FALSE  BY <1>7, <2>2
    <3> QED  BY <3>1, <3>2
  <2> QED  BY <2>1, <2>2
<1> HIDE DEF n, c, rc, got, f, f2, k, next, no
<1>13. k.at = coming /\ k.clean = c  BY <1>8
<1> HIDE DEF idle, coming
<1>e. [k EXCEPT !.at = idle, !.clean = no, !.fit = f2] =
        [at |-> idle, lo |-> n, clean |-> no, rc |-> rc, got |-> got, fit |-> f2]
  <2> DEFINE u == [k EXCEPT !.at = idle]
             v == [u EXCEPT !.clean = no]
             w == [v EXCEPT !.fit = f2]
  <2>1. u =
          [at |-> idle, lo |-> n, clean |-> c, rc |-> rc, got |-> got,
           fit |-> f]
    BY <1>8
  <2>2. [k EXCEPT !.at = idle, !.clean = no, !.fit = f2] = w  OBVIOUS
  <2> HIDE DEF u
  <2>3. v =
          [at |-> idle, lo |-> n, clean |-> no, rc |-> rc, got |-> got,
           fit |-> f]
    BY <2>1
  <2> HIDE DEF v
  <2>4. w =
          [at |-> idle, lo |-> n, clean |-> no, rc |-> rc, got |-> got,
           fit |-> f2]
    BY <2>3
  <2> HIDE DEF w
  <2> QED  BY <2>2, <2>4
<1>15. next = [k EXCEPT !.at = idle, !.clean = no, !.fit = f2]
  BY <1>9, <1>e
<1>16. Calls' = [Calls EXCEPT ![q] =
                   [Calls[q] EXCEPT !.at = idle, !.clean = no, !.fit = f2]]
  BY <1>10, <1>11, <1>15
<1>17. f2 \in {TRUE, Calls[q].clean}  BY <1>10, <1>12, <1>13
<1> QED
  BY <1>1, <1>10, <1>13, <1>16, <1>17 DEF Register!Attached, no, idle, coming

LEMMA AttachFails ==
  ASSUME RingTypeOK, NEW q \in Readers, OpenStep(q), AwayOK(q),
         rd[q].pc \in Opening, rd'[q] = Detached,
         span'[q].lo = span[q].lo, ~span[q].clean
  PROVE  Register!Refused(q)
<1>0. ReaderStep(q)  BY DEF ReaderStep
<1>1. /\ era' = era /\ hdr' = hdr /\ CompleteFrames' = CompleteFrames
      /\ Calls' = [Calls EXCEPT ![q] = CallOf(q)']
  BY <1>0, OneCallMoves
<1>2. /\ rd'[q].pc = "closed" /\ rd'[q].rc = rd[q].rc
      /\ rd'[q].last = rd[q].last
  BY DEF AwayOK, Detached
<1> DEFINE n == span[q].lo
           c == FALSE
           rc == rd[q].rc
           got == rd[q].last
           f == FALSE
           k == CallOf(q)
           next == CallOf(q)'
           coming == "attaching"
           away == "away"
<1>4. Standing(q) = coming /\ (Attached(q) /\ Fits(q)) = f
  BY DEF Standing, Attached, InCall, Opening
<1>5. Standing(q)' = away /\ (Attached(q) /\ Fits(q))' = f
  BY <1>2 DEF Standing, Attached, InCall, Opening
<1>6. span[q].clean = c /\ span'[q].clean = c
  BY <1>2, OpenFacts DEF RingTypeOK
<1>8. k = [at |-> coming, lo |-> n, clean |-> c, rc |-> rc, got |-> got,
           fit |-> f]
  BY <1>4, <1>6 DEF CallOf
<1>9. next = [at |-> away, lo |-> n, clean |-> c, rc |-> rc,
              got |-> got, fit |-> f]
  BY <1>2, <1>5, <1>6 DEF CallOf
<1>10. Calls[q] = k  BY DEF Calls
<1>11. Calls' = [Calls EXCEPT ![q] = next]  BY <1>1
<1> HIDE DEF n, c, rc, got, f, k, next
<1>13. k.at = coming /\ k.clean = c  BY <1>8
<1>15. next = [k EXCEPT !.at = away]
  BY <1>8, <1>9, CallMoved
<1>16. Calls' = [Calls EXCEPT ![q] = [Calls[q] EXCEPT !.at = away]]
  BY <1>10, <1>11, <1>15
<1>17. ~Calls[q].clean  BY <1>10, <1>13 DEF c
<1> QED
  BY <1>1, <1>10, <1>13, <1>16, <1>17 DEF Register!Refused

LEMMA OpenRefines ==
  ASSUME RegInv, NEW q \in Readers, OpenStep(q)
  PROVE  [Register!Next]_Register!regVars
<1>i. /\ RingTypeOK /\ HeaderUp /\ ReaderOK(q) /\ AwayOK(q)
  BY DEF RegInv, LapInv, Inv, TypeOK
<1>2. /\ rd[q] \in ReaderType /\ rd \in [Readers -> ReaderType]
      /\ span \in [Readers -> [lo : Nat, clean : BOOLEAN]]
  BY <1>i DEF RingTypeOK
<1>k. rd'[q] # Detached => rd'[q].rc = rd[q].rc /\ rd'[q].last = rd[q].last
  BY <1>i, OpenKeeps
<1>d. Detached.pc = "closed"  BY DEF Detached
<1>u. span[q].clean => hdr.nslots = NSlots /\ hdr.slot_size = 1
  BY <1>i DEF ReaderOK, SpanOK, HeaderUp
<1>a. ASSUME span' = [span EXCEPT ![q].clean = FALSE]
      PROVE  span'[q].lo = span[q].lo
  BY <1>a, <1>2
<1>q. ASSUME rd'[q].pc \in Opening, rd[q].pc \in Opening, span' = span
      PROVE  UNCHANGED Register!regVars
  <2>0. ReaderStep(q)  BY DEF ReaderStep
  <2>1. /\ Standing(q) = "attaching" /\ Standing(q)' = "attaching"
        /\ ~Attached(q) /\ ~Attached(q)'
    BY <1>q DEF Standing, Attached, InCall, Opening
  <2>2. (Attached(q) /\ Fits(q))' = (Attached(q) /\ Fits(q))  BY <2>1
  <2>3. rd'[q].rc = rd[q].rc /\ rd'[q].last = rd[q].last
    BY <1>q, <1>k, <1>d DEF Opening
  <2>4. CallOf(q)' = CallOf(q)  BY <1>q, <2>1, <2>2, <2>3 DEF CallOf
  <2> QED  BY <2>0, <2>4, <1>i, Quiet
<1>1. CASE Open(q)
  BY <1>1, <1>i, Attaches DEF Register!Next
<1>3. CASE Refuse(q)
  <2>1. /\ rd[q].pc = "open" /\ rd'[q] = Detached /\ hdr.nslots # NSlots
        /\ span' = [span EXCEPT ![q].clean = FALSE]
    BY <1>3, <1>2 DEF Refuse, Attach
  <2>2. rd[q].pc \in Opening /\ ~span[q].clean
    BY <2>1, <1>u DEF Opening
  <2>3. Register!Refused(q)
    BY <2>1, <2>2, <1>a, <1>i, AttachFails
  <2> QED  BY <2>3 DEF Register!Next
<1>4. CASE CheckHeader(q)
  <2>1. rd[q].pc = "open"  BY <1>4 DEF CheckHeader
  <2>2. CASE q \in PyReaders
    <3>1. /\ rd'[q] = [rd[q] EXCEPT !.pc = "idle"]
          /\ span' = [span EXCEPT ![q].clean = FALSE]
      BY <1>4, <2>2, <1>2 DEF CheckHeader, Attach
    <3>2. rd'[q].pc = "idle"  BY <3>1, <1>2 DEF ReaderType
    <3>3. Fits(q)'  BY <2>2, ReadersAssumption DEF Fits
    <3>4. Register!Attached(q)
      BY <2>1, <3>1, <3>2, <3>3, <1>a, <1>i, <1>k, <1>d, AttachEnds
      DEF Opening
    <3> QED  BY <3>4 DEF Register!Next
  <2>3. CASE q \notin PyReaders
    <3>1. /\ rd'[q] = [rd[q] EXCEPT !.pc = "map"] /\ span' = span
      BY <1>4, <2>3, <1>2 DEF CheckHeader, Observe
    <3>2. rd'[q].pc = "map"  BY <3>1, <1>2 DEF ReaderType
    <3> QED  BY <2>1, <3>1, <3>2, <1>q DEF Opening
  <2> QED  BY <2>2, <2>3
<1>5. CASE MapSlots(q)
  <2>1. /\ rd[q].pc = "map" /\ span' = span
        /\ rd'[q] = [rd[q] EXCEPT !.pc = "buffer", !.stride = hdr.slot_size]
    BY <1>5, <1>2 DEF MapSlots, Observe
  <2>2. rd'[q].pc = "buffer"  BY <2>1, <1>2 DEF ReaderType
  <2> QED  BY <2>1, <2>2, <1>q DEF Opening
<1>6. CASE SizeBuffer(q)
  <2>0. rd[q].pc = "buffer" /\ rd[q].pc \in Opening
    BY <1>6 DEF SizeBuffer, Opening
  <2>s. span' = [span EXCEPT ![q].clean = FALSE]
    BY <1>6 DEF SizeBuffer, Attach
  <2>1. CASE rd'[q] = [rd[q] EXCEPT !.pc = "idle", !.buf = hdr.slot_size]
    <3>1. /\ rd'[q].pc = "idle" /\ rd'[q].buf = hdr.slot_size
          /\ rd'[q].stride = rd[q].stride
      BY <2>1, <1>2 DEF ReaderType
    <3>2. span[q].clean => Fits(q)'
      <4>1. span[q].clean => rd[q].stride = 1
        BY <2>0, <1>i DEF ReaderOK, FitOK
      <4> QED  BY <3>1, <4>1, <1>u DEF Fits, Placed
    <3>3. Register!Attached(q)
      BY <2>0, <2>s, <3>1, <3>2, <1>a, <1>i, <1>k, <1>d, AttachEnds
    <3> QED  BY <3>3 DEF Register!Next
  <2>2. CASE rd'[q] = Detached /\ hdr.slot_size = 0
    <3>1. ~span[q].clean  BY <2>2, <1>u
    <3>2. Register!Refused(q)
      BY <2>0, <2>2, <2>s, <3>1, <1>a, <1>i, AttachFails
    <3> QED  BY <3>2 DEF Register!Next
  <2> QED  BY <1>6, <2>1, <2>2, <1>2 DEF SizeBuffer, Attach
<1> QED  BY <1>1, <1>3, <1>4, <1>5, <1>6 DEF OpenStep

LEMMA ReaderRefines ==
  ASSUME RegInv, RegInv', NEW q \in Readers, ReaderStep(q)
  PROVE  [Register!Next]_Register!regVars
<1>i. /\ RingTypeOK /\ HeaderUp /\ ReaderOK(q) /\ LapOK(q) /\ StampOK(q)
      /\ SlotsOK /\ ReaderOK(q)' /\ PyOnly(q)
  BY DEF RegInv, LapInv, Inv, TypeOK
<1>f. UNCHANGED <<hdr, seq, word, era>>  BY <1>i, ReaderFrame
<1>2. rd[q] \in ReaderType /\ rd \in [Readers -> ReaderType]
  BY <1>i DEF RingTypeOK
<1>t. hdr.wr_count \in Nat /\ span[q].lo \in Nat
  BY <1>i, TargetType
<1>s. CallStep(q) => span' = span  BY <1>i, CallFacts
<1>c. /\ Calls[q].lo = span[q].lo /\ Calls[q].clean = span[q].clean
      /\ Calls[q].got = rd[q].last
  BY CallFields
<1>a. CallStep(q) => Busy(q)  BY <1>i, CallFacts DEF Busy
<1>b. span[q].clean /\ Picked(q) => ~Astray(q) /\ rd[q].buf = 1
  BY <1>i DEF ReaderOK, FitOK, Placed, Astray
<1>u. ASSUME ~span[q].clean,
             NEW rc \in {"ok", "none", "raced", "refused"},
             NEW got \in Seen \cup {rd[q].last}, Register!Answer(q, rc, got),
             Calls'[q].rc = rc, Calls'[q].got = got
      PROVE  Register!Next
  <2>1. got \in [gen : 0 .. MaxGen, idx : -1 .. MaxFrames]
                  \cup {Calls[q].got}
    BY <1>u, <1>c DEF Seen
  <2>2. Register!Answer(q, Calls'[q].rc, Calls'[q].got)  BY <1>u
  <2>3. Register!Undefined(q)
    BY <2>1, <2>2, <1>u, <1>c DEF Register!Undefined
  <2> QED  BY <2>3 DEF Register!Next
<1>3. CASE OpenStep(q)  BY <1>3, OpenRefines
<1>4. CASE Begin(q)
  BY <1>4, <1>i, Invokes DEF Register!Next
<1>5. CASE GiveUp(q)
  <2>1. /\ rd[q].pc = "latest" /\ rd[q].tries = MaxAttempts
        /\ rd'[q] = Ended(rd[q], "raced", rd[q].last)
    BY <1>5, <1>2 DEF GiveUp, Return
  <2>2. /\ Register!Answer(q, "raced", rd[q].last)
        /\ Calls'[q].rc = "raced" /\ Calls'[q].got = rd[q].last
    <3>1. /\ rd'[q].pc = "idle" /\ rd'[q].rc = "raced"
          /\ rd'[q].last = rd[q].last
      BY <2>1 DEF Ended
    <3>2. CallStep(q)  BY <1>5 DEF CallStep
    <3> QED  BY <3>1, <3>2, <1>i, Answers
  <2>3. CASE span[q].clean
    <3>1. hdr.wr_count >= span[q].lo + MaxAttempts * (NSlots - 1)
      BY <2>1, <2>3, <1>i DEF LapOK, Busy, InCall, Target, Lap
    <3>2. Register!Raced(q)  BY <2>2, <3>1, <1>c DEF Register!Raced
    <3> QED  BY <3>2 DEF Register!Next
  <2>4. CASE ~span[q].clean  BY <2>2, <2>4, <1>u
  <2> QED  BY <2>3, <2>4
<1>6. CASE SeeNothing(q) \/ Duplicate(q)
  <2>1. rd'[q] = Ended(rd[q], "none", rd[q].last)
    BY <1>6, <1>2 DEF SeeNothing, Duplicate, Return
  <2>2. /\ rd'[q].pc = "idle" /\ rd'[q].rc = "none"
        /\ rd'[q].last = rd[q].last
    BY <2>1 DEF Ended
  <2>3. CallStep(q) /\ span' = span  BY <1>6, <1>s DEF CallStep
  <2>4. /\ Register!Answer(q, "none", rd[q].last)
        /\ Calls'[q].rc = "none" /\ Calls'[q].got = rd[q].last
    BY <2>2, <2>3, <1>i, Answers
  <2>5. CASE span[q].clean
    <3>1. \/ span[q].lo = 0
          \/ /\ q \in PyReaders
             /\ rd[q].last.idx >= span[q].lo - 1
             /\ rd[q].last.idx <= hdr.wr_count
      BY <2>2, <2>3, <2>5, <1>i, <1>f DEF ReaderOK, ResultOK, Returned
    <3>2. rd[q].last.idx \in Int  BY <1>2 DEF ReaderType, Content
    <3>3. \/ span[q].lo = 0
          \/ /\ q \in PyReaders
             /\ rd[q].last.idx + 1 \in span[q].lo .. hdr.wr_count + 1
      BY <3>1, <3>2, <1>t
    <3>4. Register!NothingNew(q)
      BY <2>4, <3>3, <1>c DEF Register!NothingNew
    <3> QED  BY <3>4 DEF Register!Next
  <2>6. CASE ~span[q].clean  BY <2>4, <2>6, <1>u
  <2> QED  BY <2>5, <2>6
<1>7. CASE BadSlot(q) \/ TooBig(q)
  <2>1. rd'[q] = Ended(rd[q], "refused", rd[q].last)
    BY <1>7, <1>2 DEF BadSlot, TooBig, Return
  <2>2. /\ rd'[q].pc = "idle" /\ rd'[q].rc = "refused"
        /\ rd'[q].last = rd[q].last
    BY <2>1 DEF Ended
  <2>3. CallStep(q) /\ span' = span  BY <1>7, <1>s DEF CallStep
  <2>4. /\ Register!Answer(q, "refused", rd[q].last)
        /\ Calls'[q].rc = "refused" /\ Calls'[q].got = rd[q].last
    BY <2>2, <2>3, <1>i, Answers
  <2>5. ~span[q].clean
    <3> SUFFICES ASSUME span[q].clean  PROVE FALSE
      OBVIOUS
    <3>1. era.up  BY <1>i DEF ReaderOK, SpanOK
    <3>2. hdr.nslots = NSlots /\ hdr.slot_size = 1
      BY <3>1, <1>i DEF HeaderUp
    <3>3. rd[q].idx < NSlots  BY <1>2 DEF ReaderType, Slots
    <3>4. ~Astray(q) /\ rd[q].buf = 1
      BY <1>7, <1>b DEF BadSlot, TooBig, Picked
    <3>5. rd[q].idx >= hdr.nslots \/ hdr.slot_size = 0
      BY <1>7, <3>4 DEF BadSlot, TooBig, Oversize
    <3>6. rd[q].idx \in Nat  BY <1>2 DEF ReaderType, Slots
    <3> QED  BY <3>2, <3>3, <3>5, <3>6
  <2> QED  BY <2>4, <2>5, <1>u
<1>8. CASE Succeed(q)
  <2> DEFINE stamp == rd[q].copy["stamp"]
             i == rd[q].idx
  <2>1. /\ rd[q].pc = "data" /\ rd[q].todo = {}
        /\ Astray(q) \/ seq[i] = rd[q].s0
        /\ rd'[q] = Ended(rd[q], "ok", stamp)
    BY <1>8, <1>2 DEF Succeed
  <2>2. rd'[q].pc = "idle" /\ rd'[q].rc = "ok" /\ rd'[q].last = stamp
    BY <2>1 DEF Ended
  <2>3. CallStep(q) /\ span' = span  BY <1>8, <1>s DEF CallStep
  <2>4. /\ Register!Answer(q, "ok", stamp)
        /\ Calls'[q].rc = "ok" /\ Calls'[q].got = stamp
    BY <2>2, <2>3, <1>i, Answers
  <2>5. stamp \in Seen  BY <2>1, <1>i DEF StampOK, StampLoaded
  <2>6. CASE span[q].clean
    <3>n. "stamp" \in Words /\ i \in Slots
      BY <1>2 DEF Words, Meta, ReaderType
    <3>1. era.up  BY <2>6, <1>i DEF ReaderOK, SpanOK
    <3>e. seq[i] = rd[q].s0  BY <2>1, <2>6, <1>b DEF Picked
    <3>2. /\ Even(rd[q].s0) /\ stamp = word[i]["stamp"]
          /\ Within(stamp, span[q].lo - 1)
      BY <2>1, <2>6, <3>e, <3>n, <1>i DEF ReaderOK, CopyOK, Copying, Loaded
    <3>3. /\ stamp.gen = era.gen /\ stamp.idx >= span[q].lo - 1
          /\ stamp.idx <= hdr.wr_count
      BY <3>2 DEF Within
    <3>w. stamp \in Stored
      BY <3>2, <3>n DEF RegInv, BoundsOK
    <3>4. stamp.idx \in Nat /\ stamp = [gen |-> stamp.gen, idx |-> stamp.idx]
      BY <3>w DEF Stored
    <3>5. stamp.idx + 1 <= CompleteFrames
      <4>1. CASE stamp.idx < hdr.wr_count
        <5>1. CompleteFrames \in {hdr.wr_count, hdr.wr_count + 1}
          BY VisibleIs
        <5> QED  BY <4>1, <5>1, <3>4, <1>t
      <4>2. CASE stamp.idx = hdr.wr_count
        <5>1. stamp = Current  BY <4>2, <3>3, <3>4 DEF Current
        <5>2. i = Cursor
          BY <4>2, <3>1, <3>2, <3>3, <3>n DEF RegInv, InItsSlot, Cursor
        <5>3. Done  BY <3>e, <3>1, <3>2, <5>1, <5>2 DEF Done
        <5> QED  BY <5>3, <4>2, <1>t, VisibleIs
      <4> QED  BY <4>1, <4>2, <3>3, <3>4, <1>t
    <3> DEFINE n == stamp.idx + 1
    <3>6. n \in Nat /\ n >= 1 /\ n <= CompleteFrames /\ span[q].lo <= n
      BY <3>3, <3>4, <3>5, <1>t
    <3>7. stamp = [gen |-> era.gen, idx |-> n - 1]
      <4>1. n - 1 = stamp.idx  BY <3>4
      <4> QED  BY <4>1, <3>3, <3>4
    <3>8. CompleteFrames \in Int  BY VisibleIs, <1>t
    <3> HIDE DEF n
    <3>9. n \in 1 .. CompleteFrames  BY <3>6, <3>8
    <3>10. Register!Deliver(q)
      BY <2>4, <3>6, <3>7, <3>9, <1>c DEF Register!Deliver
    <3> QED  BY <3>10 DEF Register!Next
  <2>7. CASE ~span[q].clean  BY <2>4, <2>5, <2>7, <1>u
  <2> QED  BY <2>6, <2>7
<1>9. ASSUME Busy(q)', rd'[q].rc = rd[q].rc, rd'[q].last = rd[q].last,
             CallStep(q)
      PROVE  [Register!Next]_Register!regVars
  BY <1>9, <1>i, QuietInCall
<1>10. CASE SlotBusy(q) \/ Torn(q)
  <2>1. rd'[q] = [rd[q] EXCEPT !.pc = "latest", !.tries = rd[q].tries + 1]
    BY <1>10, <1>2 DEF SlotBusy, Torn, Retry
  <2>2. /\ rd'[q].pc = "latest" /\ rd'[q].rc = rd[q].rc
        /\ rd'[q].last = rd[q].last
    BY <2>1, <1>2 DEF ReaderType
  <2> QED  BY <2>2, <1>9, <1>10 DEF Busy, InCall, CallStep
<1>11. CASE PickSlot(q)
  <2>1. rd'[q] = [rd[q] EXCEPT
             !.pc = IF q \in PyReaders THEN "seq0" ELSE "bound",
             !.idx = hdr.latest, !.copy = [w \in Words |-> Unread]]
    BY <1>11, <1>2 DEF PickSlot
  <2>2. /\ rd'[q].pc \in {"seq0", "bound"} /\ rd'[q].rc = rd[q].rc
        /\ rd'[q].last = rd[q].last
    BY <2>1, <1>2 DEF ReaderType
  <2> QED  BY <2>2, <1>9, <1>11 DEF Busy, InCall, CallStep
<1>12. CASE GoodSlot(q)
  <2>1. rd'[q] = [rd[q] EXCEPT !.pc = "seq0"]
    BY <1>12, <1>2 DEF GoodSlot
  <2>2. /\ rd'[q].pc = "seq0" /\ rd'[q].rc = rd[q].rc
        /\ rd'[q].last = rd[q].last
    BY <2>1, <1>2 DEF ReaderType
  <2> QED  BY <2>2, <1>9, <1>12 DEF Busy, InCall, CallStep
<1>13. CASE SlotStable(q)
  <2>1. \E n : rd'[q] = [rd[q] EXCEPT !.pc = "meta", !.todo = Meta, !.s0 = n]
    BY <1>13, <1>2 DEF SlotStable
  <2>2. /\ rd'[q].pc = "meta" /\ rd'[q].rc = rd[q].rc
        /\ rd'[q].last = rd[q].last
    BY <2>1, <1>2 DEF ReaderType
  <2> QED  BY <2>2, <1>9, <1>13 DEF Busy, InCall, CallStep
<1>14. CASE CopyPayload(q)
  <2>1. rd'[q] = [rd[q] EXCEPT !.pc = "data",
             !.todo = IF rd[q].copy["size"] = Zero THEN {} ELSE Payload]
    BY <1>14, <1>2 DEF CopyPayload
  <2>2. /\ rd'[q].pc = "data" /\ rd'[q].rc = rd[q].rc
        /\ rd'[q].last = rd[q].last
    BY <2>1, <1>2 DEF ReaderType
  <2> QED  BY <2>2, <1>9, <1>14 DEF Busy, InCall, CallStep
<1>15. ASSUME NEW w \in Words, LoadWord(q, w)
       PROVE  [Register!Next]_Register!regVars
  <2>1. /\ rd[q].pc \in {"meta", "data"}
        /\ \E c : rd'[q] = [rd[q] EXCEPT !.todo = rd[q].todo \ {w}, !.copy[w] = c]
    BY <1>15, <1>2 DEF LoadWord
  <2>2. /\ rd'[q].pc = rd[q].pc /\ rd'[q].rc = rd[q].rc
        /\ rd'[q].last = rd[q].last
    BY <2>1, <1>2 DEF ReaderType
  <2> QED  BY <2>1, <2>2, <1>9, <1>15 DEF Busy, InCall, CallStep
<1>16. CASE LoadMagic(q) \/ LoadNSlots(q) \/ LoadSlotSize(q)
  <2>1. /\ rd'[q].pc \in {"nslots", "slot_size", "index"}
        /\ rd'[q].rc = rd[q].rc /\ rd'[q].last = rd[q].last
    <3>1. CASE LoadMagic(q)  BY <3>1, <1>2 DEF LoadMagic, ReaderType
    <3>2. CASE LoadNSlots(q)  BY <3>2, <1>2 DEF LoadNSlots, ReaderType
    <3>3. CASE LoadSlotSize(q)  BY <3>3, <1>2 DEF LoadSlotSize, ReaderType
    <3> QED  BY <1>16, <3>1, <3>2, <3>3
  <2> QED  BY <2>1, <1>9, <1>16 DEF Busy, InCall, CallStep
<1> QED
  BY <1>3, <1>4, <1>5, <1>6, <1>7, <1>8, <1>10, <1>11, <1>12, <1>13, <1>14,
    <1>15, <1>16 DEF ReaderStep, CallStep

LEMMA InitRefines ==
  ASSUME Init
  PROVE  Register!Init
<1>1. era.gen = 0 /\ era.up = FALSE /\ hdr.wr_count = 0
  BY DEF Init, RingInit, EmptyHdr
<1>2. CompleteFrames = 0  BY <1>1 DEF CompleteFrames
<1>3. \A r \in Readers : CallOf(r) = Register!NoCall
  BY DEF Init, RingInit, Detached, CallOf, Standing, Attached, InCall,
    Opening, Register!NoCall, Register!Nothing, Unread
<1>4. Calls = [r \in Readers |-> Register!NoCall]  BY <1>3 DEF Calls
<1> QED  BY <1>1, <1>2, <1>4 DEF Register!Init

LEMMA StepRefines ==
  ASSUME RegInv, RegInv', [Next]_vars
  PROVE  [Register!Next]_Register!regVars
<1>1. CASE WriterStep \/ Crash  BY <1>1, WriterRefines
<1>2. ASSUME NEW q \in Readers, ReaderStep(q), wr' = wr
      PROVE  [Register!Next]_Register!regVars
  BY <1>2, ReaderRefines
<1>3. CASE UNCHANGED vars
  BY <1>3 DEF vars, Register!regVars, Calls, CallOf, Standing, Attached,
    Fits, Placed, CompleteFrames, Cursor, Current, Even
<1> QED  BY <1>1, <1>2, <1>3 DEF Next

THEOREM RegInvariance == Spec => []RegInv
BY InitReg, RegStep, PTL DEF Spec

(* bat_ring implements the latest-frame-wins register it is documented as  *)
(* (bat_ring.h:4-16), for C readers and Python readers alike. *)
THEOREM Refinement == Spec => ImplementsRegister
BY RegInvariance, InitRefines, StepRefines, PTL
DEF Spec, ImplementsRegister, Register!Spec
===============================================================================
