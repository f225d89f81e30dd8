--------------------------- MODULE RingReader_proof ---------------------------
(***************************************************************************)
(* What a reader's step preserves, whichever writer fills the ring.        *)
(***************************************************************************)
EXTENDS RingReader, TLAPS

USE NSlotsAssumption, AttemptsAssumption, PayloadAssumption, ReadersAssumption

-------------------------------------------------------------------------------
(* Arithmetic of the counters.                                             *)
(* The counter's parity is its busy bit: 0 is even, and a store of n + 1   *)
(* flips it. *)
LEMMA Parity ==
  /\ Even(0)
  /\ \A n \in Nat : Even(n + 1) <=> ~Even(n)
BY DEF Even

LEMMA Remainder ==
  ASSUME NEW a \in Nat, NEW b \in Nat, b > 0
  PROVE  a % b \in 0 .. b - 1
OBVIOUS

LEMMA Quotient ==
  ASSUME NEW a \in Nat, NEW b \in Nat, b > 0
  PROVE  a \div b \in Nat /\ a = b * (a \div b) + (a % b)
OBVIOUS

(* Frames that share a slot are a whole round apart. *)
LEMMA Apart ==
  ASSUME NEW a \in Nat, NEW p \in Nat, NEW b \in Nat, b > 0,
         p < a, a % b = p % b
  PROVE  a >= p + b
<1> DEFINE q == a \div b
           s == p \div b
           m == a % b
<1>1. /\ q \in Nat /\ s \in Nat /\ m \in Nat
      /\ a = b * q + m /\ p = b * s + m
  BY Quotient, Remainder
<1> HIDE DEF q, s, m
<1>2. b * s < b * q  BY <1>1
<1>3. s < q
  <2>1. CASE q <= s
    <3>1. b * q <= b * s  BY <1>1, <2>1, Z3
    <3> QED  BY <1>1, <1>2, <3>1
  <2> QED  BY <1>1, <2>1
<1>4. PICK d \in Nat : q = s + 1 + d
  <2>1. q - s - 1 \in Nat /\ q = s + 1 + (q - s - 1)  BY <1>1, <1>3
  <2> QED  BY <2>1
<1>5. b * q = b * s + b + b * d  BY <1>1, <1>4
<1>6. b * d \in Nat  BY <1>4
<1> QED  BY <1>1, <1>5, <1>6

-------------------------------------------------------------------------------
(* A reader writes nothing but its own state, and the record of what held  *)
(* when its call began. *)
LEMMA ReaderFrame ==
  ASSUME NEW q \in Readers, ReaderStep(q), RingTypeOK
  PROVE  /\ UNCHANGED <<hdr, seq, word, era>>
         /\ rd' = [rd EXCEPT ![q] = rd'[q]]
         /\ span' = [span EXCEPT ![q] = span'[q]]
         /\ \A r \in Readers \ {q} : rd'[r] = rd[r] /\ span'[r] = span[r]
<1> USE DEF RingTypeOK, shm, Observe, Return, Retry
<1>1. CASE OpenStep(q)
  <2>1. CASE Open(q)  BY <2>1 DEF Open
  <2>2. CASE Refuse(q)  BY <2>2 DEF Refuse, Attach
  <2>3. CASE CheckHeader(q)
    <3>1. CASE q \in PyReaders  BY <2>3, <3>1 DEF CheckHeader, Attach
    <3>2. CASE q \notin PyReaders  BY <2>3, <3>2 DEF CheckHeader
    <3> QED  BY <3>1, <3>2
  <2>4. CASE MapSlots(q)  BY <2>4 DEF MapSlots
  <2>5. CASE SizeBuffer(q)  BY <2>5 DEF SizeBuffer, Attach
  <2> QED  BY <1>1, <2>1, <2>2, <2>3, <2>4, <2>5 DEF OpenStep
<1>2. CASE Begin(q)  BY <1>2 DEF Begin
<1>3. CASE CallStep(q)
  <2>1. CASE GiveUp(q)  BY <2>1 DEF GiveUp
  <2>2. CASE SeeNothing(q)  BY <2>2 DEF SeeNothing
  <2>3. CASE LoadMagic(q)  BY <2>3 DEF LoadMagic
  <2>4. CASE LoadNSlots(q)  BY <2>4 DEF LoadNSlots
  <2>5. CASE LoadSlotSize(q)  BY <2>5 DEF LoadSlotSize
  <2>6. CASE PickSlot(q)  BY <2>6 DEF PickSlot
  <2>7. CASE BadSlot(q)  BY <2>7 DEF BadSlot
  <2>8. CASE GoodSlot(q)  BY <2>8 DEF GoodSlot
  <2>9. CASE SlotBusy(q)  BY <2>9 DEF SlotBusy
  <2>10. CASE SlotStable(q)  BY <2>10 DEF SlotStable
  <2>11. CASE \E w \in Words : LoadWord(q, w)  BY <2>11 DEF LoadWord
  <2>12. CASE Duplicate(q)  BY <2>12 DEF Duplicate
  <2>13. CASE TooBig(q)  BY <2>13 DEF TooBig
  <2>14. CASE CopyPayload(q)  BY <2>14 DEF CopyPayload
  <2>15. CASE Succeed(q)  BY <2>15 DEF Succeed
  <2>16. CASE Torn(q)  BY <2>16 DEF Torn
  <2> QED  BY <1>3, <2>1, <2>2, <2>3, <2>4, <2>5, <2>6, <2>7, <2>8, <2>9,
              <2>10, <2>11, <2>12, <2>13, <2>14, <2>15, <2>16 DEF CallStep
<1> QED  BY <1>1, <1>2, <1>3 DEF ReaderStep

(* The two ways an attempt ends keep the record's type. *)
LEMMA ReturnTyping ==
  ASSUME NEW q \in Readers, rd \in [Readers -> ReaderType],
         NEW rc \in {"none", "ok", "raced", "refused"}, Return(q, rc)
  PROVE  rd'[q] \in ReaderType
<1>1. rd'[q] = Ended(rd[q], rc, rd[q].last)  BY DEF Return
<1>2. rd[q] \in ReaderType /\ 0 \in Slots  BY DEF Slots
<1> QED  BY <1>1, <1>2 DEF Ended, ReaderType

LEMMA RetryTyping ==
  ASSUME NEW q \in Readers, rd \in [Readers -> ReaderType], Retry(q)
  PROVE  /\ rd'[q] \in ReaderType /\ rd'[q].pc = "latest"
         /\ rd'[q].stride = rd[q].stride /\ rd'[q].buf = rd[q].buf
<1> DEFINE c == rd[q]
           n == rd[q].tries + 1
           d == [c EXCEPT !.pc = "latest"]
<1>1. rd'[q] = [d EXCEPT !.tries = n]  BY DEF Retry
<1>2. c \in ReaderType  OBVIOUS
<1>3. n \in Nat  BY <1>2 DEF ReaderType
<1> HIDE DEF n
<1>4. /\ d \in ReaderType /\ d.pc = "latest"
      /\ d.stride = c.stride /\ d.buf = c.buf
  <2> HIDE DEF c
  <2> QED  BY <1>2 DEF ReaderType, InCall
<1> HIDE DEF c, d
<1>5. /\ rd'[q] \in ReaderType /\ rd'[q].pc = d.pc
      /\ rd'[q].stride = d.stride /\ rd'[q].buf = d.buf
  BY <1>1, <1>3, <1>4 DEF ReaderType
<1> QED  BY <1>4, <1>5 DEF c

(* What the steps of attaching leave: a reader that is attached, or not, has *)
(* no call to its credit yet, and one that is under way has not read.      *)
LEMMA OpenFacts ==
  ASSUME NEW q \in Readers, OpenStep(q), RingTypeOK
  PROVE  /\ rd'[q] \in ReaderType
         /\ span'[q] \in [lo : Nat, clean : BOOLEAN]
         /\ rd[q].pc \in {"closed"} \cup Opening
         /\ rd'[q].pc \in {"closed", "idle"} \cup Opening
         /\ rd'[q].pc \in {"closed", "idle"} => ~span'[q].clean
         /\ \/ span'[q] = [lo |-> hdr.wr_count, clean |-> era.up]
            \/ span'[q] = span[q]
            \/ ~span'[q].clean
         /\ rd'[q].pc = "buffer" =>
              rd'[q].stride = hdr.slot_size /\ span'[q] = span[q]
<1>q. rd[q] \in ReaderType /\ hdr \in HdrType /\ span[q] \in [lo : Nat, clean : BOOLEAN]
  BY DEF RingTypeOK
<1>d. /\ rd \in [Readers -> ReaderType]
      /\ span \in [Readers -> [lo : Nat, clean : BOOLEAN]]
  BY DEF RingTypeOK
<1>u. Detached \in ReaderType /\ Detached.pc = "closed"
  BY DEF Detached, ReaderType, Unread, Content, Slots
<1> USE DEF Opening
<1>a. ASSUME NEW c \in ReaderType, Attach(q, c)
      PROVE  /\ rd'[q] = c
             /\ span'[q] \in [lo : Nat, clean : BOOLEAN] /\ ~span'[q].clean
  BY <1>a, <1>q, <1>d DEF Attach
<1>1. CASE Open(q)
  <2>1. rd'[q] = [rd[q] EXCEPT !.pc = "open"]  BY <1>1, <1>d DEF Open
  <2>2. span'[q] = [lo |-> hdr.wr_count, clean |-> era.up]
    BY <1>1, <1>d DEF Open
  <2>3. rd'[q] \in ReaderType /\ rd'[q].pc = "open"
    BY <2>1, <1>q DEF ReaderType
  <2>4. rd[q].pc = "closed"  BY <1>1 DEF Open
  <2>5. span'[q] \in [lo : Nat, clean : BOOLEAN]
    BY <2>2, <1>q DEF HdrType, RingTypeOK
  <2> QED  BY <2>2, <2>3, <2>4, <2>5
<1>2. CASE Refuse(q)
  <2>1. rd[q].pc = "open"  BY <1>2 DEF Refuse
  <2> QED  BY <2>1, <1>2, <1>a, <1>u DEF Refuse
<1>3. CASE CheckHeader(q)
  <2>1. rd[q].pc = "open"  BY <1>3 DEF CheckHeader
  <2>2. CASE q \in PyReaders
    <3> DEFINE c == [rd[q] EXCEPT !.pc = "idle"]
    <3>1. c \in ReaderType /\ c.pc = "idle"  BY <1>q DEF ReaderType
    <3>2. Attach(q, c)  BY <1>3, <2>2 DEF CheckHeader
    <3> HIDE DEF c
    <3> QED  BY <3>1, <3>2, <2>1, <1>a
  <2>3. CASE q \notin PyReaders
    <3>1. rd'[q] = [rd[q] EXCEPT !.pc = "map"] /\ span' = span
      BY <1>3, <2>3, <1>d DEF CheckHeader, Observe
    <3>2. rd'[q] \in ReaderType /\ rd'[q].pc = "map"
      BY <3>1, <1>q DEF ReaderType
    <3> QED  BY <3>1, <3>2, <2>1, <1>q
  <2> QED  BY <2>2, <2>3
<1>4. CASE MapSlots(q)
  <2>1. rd[q].pc = "map"  BY <1>4 DEF MapSlots
  <2>2. rd'[q] = [rd[q] EXCEPT !.pc = "buffer", !.stride = hdr.slot_size]
    BY <1>4, <1>d DEF MapSlots
  <2>3. hdr.slot_size \in {0, 1}  BY <1>q DEF HdrType
  <2>4. /\ rd'[q] \in ReaderType /\ rd'[q].pc = "buffer"
        /\ rd'[q].stride = hdr.slot_size
    BY <2>2, <2>3, <1>q DEF ReaderType
  <2>5. span' = span  BY <1>4 DEF MapSlots, Observe
  <2> QED  BY <2>1, <2>4, <2>5, <1>q
<1>5. CASE SizeBuffer(q)
  <2>1. rd[q].pc = "buffer"  BY <1>5 DEF SizeBuffer
  <2> DEFINE c == [rd[q] EXCEPT !.pc = "idle", !.buf = hdr.slot_size]
  <2>2. hdr.slot_size \in {0, 1}  BY <1>q DEF HdrType
  <2>3. c \in ReaderType /\ c.pc = "idle"  BY <2>2, <1>q DEF ReaderType
  <2>4. Attach(q, c) \/ Attach(q, Detached)  BY <1>5 DEF SizeBuffer
  <2> HIDE DEF c
  <2> QED  BY <2>1, <2>3, <2>4, <1>a, <1>u
<1> QED  BY <1>1, <1>2, <1>3, <1>4, <1>5 DEF OpenStep

(* What the steps of a call leave: only Python's look at slot_size changes *)
(* where the reader takes the slots to be. *)
LEMMA CallFacts ==
  ASSUME NEW q \in Readers, CallStep(q), RingTypeOK
  PROVE  /\ rd'[q] \in ReaderType
         /\ span' = span
         /\ rd[q].pc \in InCall /\ rd'[q].pc \in InCall \cup {"idle"}
         /\ rd'[q].pc = "index" => LoadSlotSize(q)
         /\ \/ rd'[q].stride = rd[q].stride /\ rd'[q].buf = rd[q].buf
            \/ /\ LoadSlotSize(q) /\ rd'[q].pc = "index"
               /\ rd'[q].stride = hdr.slot_size /\ rd'[q].buf = hdr.slot_size
<1>0. 0 \in Slots  BY DEF Slots
<1>u. /\ Unread \in Content /\ [w \in Words |-> Unread] \in [Words -> Content]
      /\ Junk \subseteq Content
  BY DEF Unread, Content, Junk, Zero
<1>q. rd[q] \in ReaderType /\ hdr \in HdrType  BY DEF RingTypeOK
<1>d. rd \in [Readers -> ReaderType]  BY DEF RingTypeOK
<1>s. Meta \subseteq Words /\ Payload \subseteq Words /\ "stamp" \in Words
  BY DEF Words, Meta
<1>i. rd[q].idx \in Slots  BY <1>q DEF ReaderType
<1>e. ASSUME NEW rc, NEW last, rd'[q] = Ended(rd[q], rc, last)
      PROVE  rd'[q].pc = "idle" /\ rd'[q].stride = rd[q].stride /\ rd'[q].buf = rd[q].buf
  BY <1>e DEF Ended
<1>r. ASSUME NEW rc \in {"none", "ok", "raced", "refused"}, Return(q, rc)
      PROVE  /\ rd'[q] \in ReaderType /\ rd'[q].pc = "idle"
             /\ rd'[q].stride = rd[q].stride /\ rd'[q].buf = rd[q].buf
  <2>1. rd'[q] = Ended(rd[q], rc, rd[q].last)  BY <1>r, <1>d DEF Return
  <2> QED  BY <2>1, <1>e, <1>r, <1>d, ReturnTyping
<1> USE DEF InCall
<1>1. CASE GiveUp(q)
  BY <1>1, <1>r DEF GiveUp, Observe
<1>2. CASE SeeNothing(q)
  <2>1. Return(q, "none") /\ span' = span  BY <1>2 DEF SeeNothing, Observe
  <2>2. rd[q].pc \in InCall  BY <1>2 DEF SeeNothing, Trying
  <2> QED  BY <2>1, <2>2, <1>r
<1>3. CASE LoadMagic(q)
  <2>1. rd'[q] = [rd[q] EXCEPT !.pc = "nslots"]  BY <1>3, <1>d DEF LoadMagic
  <2>2. rd[q].pc = "latest" /\ span' = span
    BY <1>3 DEF LoadMagic, Trying, Observe
  <2>3. /\ rd'[q] \in ReaderType /\ rd'[q].pc = "nslots"
        /\ rd'[q].stride = rd[q].stride /\ rd'[q].buf = rd[q].buf
    BY <2>1, <1>q DEF ReaderType
  <2> QED  BY <2>2, <2>3
<1>4. CASE LoadNSlots(q)
  <2>1. rd'[q] = [rd[q] EXCEPT !.pc = "slot_size"]
    BY <1>4, <1>d DEF LoadNSlots
  <2>2. rd[q].pc = "nslots" /\ span' = span  BY <1>4 DEF LoadNSlots, Observe
  <2>3. /\ rd'[q] \in ReaderType /\ rd'[q].pc = "slot_size"
        /\ rd'[q].stride = rd[q].stride /\ rd'[q].buf = rd[q].buf
    BY <2>1, <1>q DEF ReaderType
  <2> QED  BY <2>2, <2>3
<1>5. CASE LoadSlotSize(q)
  <2>1. rd'[q] = [rd[q] EXCEPT !.pc = "index", !.stride = hdr.slot_size,
                               !.buf = hdr.slot_size]
    BY <1>5, <1>d DEF LoadSlotSize
  <2>2. rd[q].pc = "slot_size" /\ span' = span
    BY <1>5 DEF LoadSlotSize, Observe
  <2>3. hdr.slot_size \in {0, 1}  BY <1>q DEF HdrType
  <2>4. /\ rd'[q] \in ReaderType /\ rd'[q].pc = "index"
        /\ rd'[q].stride = hdr.slot_size /\ rd'[q].buf = hdr.slot_size
    BY <2>1, <2>3, <1>q DEF ReaderType
  <2> QED  BY <2>2, <2>4, <1>5
<1>6. CASE PickSlot(q)
  <2> DEFINE at == IF q \in PyReaders THEN "seq0" ELSE "bound"
             none == [w \in Words |-> Unread]
  <2>1. rd'[q] = [rd[q] EXCEPT !.pc = at, !.idx = hdr.latest, !.copy = none]
    BY <1>6, <1>d DEF PickSlot
  <2>2. rd[q].pc \in InCall /\ span' = span
    BY <1>6 DEF PickSlot, Trying, Observe
  <2>3. hdr.latest \in Slots  BY <1>6, <1>q DEF PickSlot, HdrType
  <2>4. at \in {"seq0", "bound"} /\ none \in [Words -> Content]  BY <1>u
  <2> HIDE DEF at, none
  <2>5. /\ rd'[q] \in ReaderType /\ rd'[q].pc = at
        /\ rd'[q].stride = rd[q].stride /\ rd'[q].buf = rd[q].buf
    BY <2>1, <2>3, <2>4, <1>q DEF ReaderType
  <2> QED  BY <2>2, <2>4, <2>5
<1>7. CASE BadSlot(q)  BY <1>7, <1>r DEF BadSlot, Observe
<1>8. CASE GoodSlot(q)
  <2>1. rd'[q] = [rd[q] EXCEPT !.pc = "seq0"]  BY <1>8, <1>d DEF GoodSlot
  <2>2. rd[q].pc = "bound" /\ span' = span  BY <1>8 DEF GoodSlot, Observe
  <2>3. /\ rd'[q] \in ReaderType /\ rd'[q].pc = "seq0"
        /\ rd'[q].stride = rd[q].stride /\ rd'[q].buf = rd[q].buf
    BY <2>1, <1>q DEF ReaderType
  <2> QED  BY <2>2, <2>3
<1>9. CASE SlotBusy(q)
  <2>1. Retry(q) /\ rd[q].pc = "seq0" /\ span' = span
    BY <1>9 DEF SlotBusy, Observe
  <2> QED  BY <2>1, <1>d, RetryTyping
<1>10. CASE SlotStable(q)
  <2> DEFINE n == IF Astray(q) THEN 0 ELSE seq[rd[q].idx]
  <2>1. n \in Nat  BY <1>i DEF RingTypeOK
  <2>2. rd'[q] = [rd[q] EXCEPT !.pc = "meta", !.todo = Meta, !.s0 = n]
    BY <1>10, <1>d DEF SlotStable
  <2>3. rd[q].pc = "seq0" /\ span' = span  BY <1>10 DEF SlotStable, Observe
  <2> HIDE DEF n
  <2>4. /\ rd'[q] \in ReaderType /\ rd'[q].pc = "meta"
        /\ rd'[q].stride = rd[q].stride /\ rd'[q].buf = rd[q].buf
    BY <2>1, <2>2, <1>s, <1>q DEF ReaderType
  <2> QED  BY <2>3, <2>4
<1>11. ASSUME NEW w \in Words, LoadWord(q, w)
       PROVE  /\ rd'[q] \in ReaderType /\ span' = span
              /\ rd[q].pc \in {"meta", "data"} /\ rd'[q].pc = rd[q].pc
              /\ rd'[q].stride = rd[q].stride /\ rd'[q].buf = rd[q].buf
  <2>1. PICK c \in Found(q, w) :
          rd' = [rd EXCEPT ![q] = [@ EXCEPT !.todo = rd[q].todo \ {w}, !.copy[w] = c]]
    BY <1>11 DEF LoadWord
  <2>2. c \in Content  BY <1>i, <1>u DEF Found, RingTypeOK
  <2> DEFINE t == rd[q].todo \ {w}
             k == [rd[q].copy EXCEPT ![w] = c]
  <2>3. rd'[q] = [rd[q] EXCEPT !.todo = t, !.copy = k]  BY <2>1, <1>d
  <2>4. k \in [Words -> Content]  BY <2>2, <1>q DEF ReaderType
  <2>5. t \in SUBSET Words  BY <1>q DEF ReaderType
  <2>6. rd[q].pc \in {"meta", "data"} /\ span' = span
    BY <1>11 DEF LoadWord, Observe
  <2> HIDE DEF t, k
  <2>7. /\ rd'[q] \in ReaderType /\ rd'[q].pc = rd[q].pc
        /\ rd'[q].stride = rd[q].stride /\ rd'[q].buf = rd[q].buf
    BY <2>3, <2>4, <2>5, <1>q DEF ReaderType
  <2> QED  BY <2>6, <2>7
<1>12. CASE Duplicate(q)  BY <1>12, <1>r DEF Duplicate, Observe
<1>13. CASE TooBig(q)  BY <1>13, <1>r DEF TooBig, Observe
<1>14. CASE CopyPayload(q)
  <2> DEFINE t == IF rd[q].copy["size"] = Zero THEN {} ELSE Payload
  <2>1. rd'[q] = [rd[q] EXCEPT !.pc = "data", !.todo = t]
    BY <1>14, <1>d DEF CopyPayload
  <2>2. t \in SUBSET Words  BY <1>s
  <2>3. rd[q].pc = "meta" /\ span' = span  BY <1>14 DEF CopyPayload, Observe
  <2> HIDE DEF t
  <2>4. /\ rd'[q] \in ReaderType /\ rd'[q].pc = "data"
        /\ rd'[q].stride = rd[q].stride /\ rd'[q].buf = rd[q].buf
    BY <2>1, <2>2, <1>q DEF ReaderType
  <2> QED  BY <2>3, <2>4
<1>15. CASE Succeed(q)
  <2>1. rd[q].copy["stamp"] \in Content  BY <1>q, <1>s DEF ReaderType
  <2>2. rd'[q] = Ended(rd[q], "ok", rd[q].copy["stamp"])
    BY <1>15, <1>d DEF Succeed
  <2>3. rd[q].pc = "data" /\ span' = span  BY <1>15 DEF Succeed, Observe
  <2>4. rd'[q] \in ReaderType
    BY <2>1, <2>2, <1>0, <1>q DEF Ended, ReaderType
  <2> QED  BY <2>2, <2>3, <2>4, <1>e
<1>16. CASE Torn(q)
  <2>1. Retry(q) /\ rd[q].pc = "data" /\ span' = span
    BY <1>16 DEF Torn, Observe
  <2> QED  BY <2>1, <1>d, RetryTyping
<1> HIDE DEF InCall
<1>17. CASE \E w \in Words : LoadWord(q, w)
  <2>1. rd[q].pc \in InCall /\ rd[q].pc # "index"
    BY <1>11, <1>17 DEF InCall
  <2> QED  BY <2>1, <1>11, <1>17
<1> QED  BY <1>1, <1>2, <1>3, <1>4, <1>5, <1>6, <1>7, <1>8, <1>9, <1>10,
            <1>17, <1>12, <1>13, <1>14, <1>15, <1>16 DEF CallStep

LEMMA BeginFacts ==
  ASSUME NEW q \in Readers, Begin(q), RingTypeOK
  PROVE  /\ rd'[q] \in ReaderType /\ rd'[q].pc = "latest"
         /\ rd'[q].stride = rd[q].stride /\ rd'[q].buf = rd[q].buf
         /\ span'[q] = [lo |-> hdr.wr_count, clean |-> era.up /\ Fits(q)]
         /\ span'[q] \in [lo : Nat, clean : BOOLEAN]
         /\ span'[q].lo = hdr.wr_count
         /\ span'[q].clean => era.up /\ Fits(q)
<1> DEFINE none == [w \in Words |-> Unread]
<1>1. none \in [Words -> Content]  BY DEF Unread, Content
<1>2. rd'[q] = [rd[q] EXCEPT !.pc = "latest", !.copy = none]
  BY DEF Begin, RingTypeOK
<1>3. rd[q] \in ReaderType  BY DEF RingTypeOK
<1> HIDE DEF none
<1>4. /\ rd'[q] \in ReaderType /\ rd'[q].pc = "latest"
      /\ rd'[q].stride = rd[q].stride /\ rd'[q].buf = rd[q].buf
  BY <1>1, <1>2, <1>3 DEF ReaderType, InCall
<1>5. span'[q] = [lo |-> hdr.wr_count, clean |-> era.up /\ Fits(q)]
  BY DEF Begin, RingTypeOK
<1>6. hdr.wr_count \in Nat /\ (era.up /\ Fits(q)) \in BOOLEAN
  BY DEF RingTypeOK, HdrType, Fits, Placed
<1> DEFINE b == era.up /\ Fits(q)
<1>7. b \in BOOLEAN /\ span'[q] = [lo |-> hdr.wr_count, clean |-> b]
  BY <1>5, <1>6
<1>8. b => era.up /\ Fits(q)  OBVIOUS
<1> HIDE DEF b
<1>9. span'[q].lo = hdr.wr_count /\ span'[q].clean = b  BY <1>7
<1> QED  BY <1>4, <1>5, <1>6, <1>7, <1>8, <1>9

LEMMA ReaderTyping ==
  ASSUME NEW q \in Readers, ReaderStep(q), RingTypeOK
  PROVE  RingTypeOK'
<1>1. rd'[q] \in ReaderType
  BY OpenFacts, CallFacts, BeginFacts DEF ReaderStep
<1>2. span'[q] \in [lo : Nat, clean : BOOLEAN]
  BY OpenFacts, CallFacts, BeginFacts DEF ReaderStep, RingTypeOK
<1> QED  BY <1>1, <1>2, ReaderFrame DEF RingTypeOK

(* A reader's step does not concern the other readers. *)
LEMMA Bystander ==
  ASSUME NEW q \in Readers, NEW r \in Readers, r # q,
         ReaderStep(q), RingTypeOK, ReaderOK(r)
  PROVE  ReaderOK(r)'
<1>1. /\ hdr' = hdr /\ seq' = seq /\ word' = word /\ era' = era
      /\ rd'[r] = rd[r] /\ span'[r] = span[r]
  BY ReaderFrame
<1> QED
  BY <1>1 DEF ReaderOK, SpanOK, FitOK, Fits, Placed, SlotFresh, CopyOK,
    ResultOK, Within, Picked, Copying, Loaded, Returned, Whole, OneFrame

LEMMA SpanStep ==
  ASSUME NEW q \in Readers, ReaderStep(q), RingTypeOK, SpanOK(q)
  PROVE  SpanOK(q)'
<1>0. hdr.wr_count \in Nat  BY DEF RingTypeOK, HdrType
<1>1. CASE Begin(q)
  <2>1. /\ rd'[q].pc = "latest" /\ span'[q].lo = hdr.wr_count
        /\ span'[q].clean => era.up
    BY <1>1, BeginFacts
  <2>2. hdr'.wr_count = hdr.wr_count /\ era' = era  BY ReaderFrame
  <2>3. span'[q].lo <= hdr'.wr_count  BY <2>1, <2>2, <1>0
  <2> QED  BY <2>1, <2>2, <2>3 DEF SpanOK
<1>2. CASE OpenStep(q)
  <2>1. span'[q].clean => rd'[q].pc # "closed"  BY <1>2, OpenFacts
  <2>2. span'[q].clean => era.up /\ span'[q].lo <= hdr.wr_count
    BY <1>0, <1>2, OpenFacts DEF SpanOK
  <2> QED  BY <2>1, <2>2, ReaderFrame DEF SpanOK
<1>3. CASE CallStep(q)
  <2>1. rd'[q].pc # "closed" /\ span' = span
    BY <1>3, CallFacts DEF InCall
  <2> QED  BY <2>1, ReaderFrame DEF SpanOK
<1> QED  BY <1>1, <1>2, <1>3 DEF ReaderStep

(* A slot index comes from the header, and lasts as long as the attempt. *)
LEMMA PickedBy ==
  ASSUME NEW q \in Readers, ReaderStep(q), RingTypeOK, Picked(q)', ~PickSlot(q)
  PROVE  /\ CallStep(q) /\ Picked(q) /\ rd'[q].idx = rd[q].idx
         /\ span' = span
<1>1. rd[q] \in ReaderType /\ rd \in [Readers -> ReaderType]
  BY DEF RingTypeOK
<1>2. CASE OpenStep(q) \/ Begin(q)
  BY <1>2, OpenFacts, BeginFacts DEF Picked, Opening
<1>3. CASE CallStep(q)
  <2>1. span' = span  BY <1>3, CallFacts
  <2>2. CASE GoodSlot(q)
    BY <1>3, <2>1, <2>2, <1>1 DEF GoodSlot, Picked, ReaderType
  <2>3. CASE SlotStable(q)
    BY <1>3, <2>1, <2>3, <1>1 DEF SlotStable, Picked, ReaderType
  <2>4. CASE \E w \in Words : LoadWord(q, w)
    BY <1>3, <2>1, <2>4, <1>1 DEF LoadWord, Picked, ReaderType
  <2>5. CASE CopyPayload(q)
    BY <1>3, <2>1, <2>5, <1>1 DEF CopyPayload, Picked, ReaderType
  <2>6. CASE SlotBusy(q) \/ Torn(q)
    <3>1. rd'[q].pc = "latest"
      BY <2>6, <1>1, RetryTyping DEF SlotBusy, Torn
    <3> QED  BY <3>1 DEF Picked
  <2>7. CASE \/ GiveUp(q) \/ SeeNothing(q) \/ BadSlot(q)
             \/ Duplicate(q) \/ TooBig(q) \/ Succeed(q)
    BY <2>7, <1>1 DEF GiveUp, SeeNothing, BadSlot, Duplicate, TooBig,
      Succeed, Return, Ended, Picked
  <2>8. CASE LoadMagic(q)
    BY <2>8, <1>1 DEF LoadMagic, Picked, ReaderType
  <2>9. CASE LoadNSlots(q)
    BY <2>9, <1>1 DEF LoadNSlots, Picked, ReaderType
  <2>10. CASE LoadSlotSize(q)
    BY <2>10, <1>1 DEF LoadSlotSize, Picked, ReaderType
  <2> QED  BY <1>3, <2>1, <2>2, <2>3, <2>4, <2>5, <2>6, <2>7, <2>8, <2>9,
              <2>10 DEF CallStep
<1> QED  BY <1>2, <1>3 DEF ReaderStep

(* A reader that mapped a ring while it was up has the slots in place. *)
LEMMA FitStep ==
  ASSUME NEW q \in Readers, ReaderStep(q), RingTypeOK, FitOK(q),
         era.up => hdr.slot_size = 1, span[q].clean => era.up
  PROVE  FitOK(q)'
<1>1. hdr' = hdr /\ era' = era  BY ReaderFrame
<1> SUFFICES ASSUME span'[q].clean
             PROVE  /\ rd'[q].pc \notin Opening => Fits(q)'
                    /\ rd'[q].pc = "buffer" => rd'[q].stride = 1
                    /\ rd'[q].pc = "index" \/ Picked(q)' => Placed(q)'
  BY DEF FitOK
<1>2. CASE OpenStep(q)
  <2>1. rd'[q].pc \in Opening  BY <1>2, OpenFacts
  <2>2. rd'[q].pc = "buffer" => rd'[q].stride = 1
    BY <1>2, OpenFacts
  <2>3. rd'[q].pc # "index" /\ ~Picked(q)'  BY <2>1 DEF Opening, Picked
  <2> QED  BY <2>1, <2>2, <2>3
<1>3. CASE Begin(q)
  <2>1. Fits(q) /\ rd'[q].pc = "latest"  BY <1>3, BeginFacts
  <2>2. Fits(q)'  BY <2>1, <1>3, BeginFacts DEF Fits, Placed
  <2> QED  BY <2>1, <2>2 DEF Picked
<1>4. CASE CallStep(q)
  <2>1. span[q].clean /\ hdr.slot_size = 1
    BY <1>4, CallFacts
  <2>2. rd[q].pc \notin Opening /\ rd'[q].pc # "buffer"
    BY <1>4, CallFacts DEF InCall, Opening
  <2>3. Fits(q)  BY <2>1, <2>2 DEF FitOK
  <2>4. CASE rd'[q].pc = "index"
    <3>1. rd'[q].pc # rd[q].pc  
      BY <1>4, <2>4, CallFacts DEF LoadSlotSize
    <3>2. LoadSlotSize(q)  BY <1>4, <2>4, CallFacts
    <3>3. rd'[q].stride = hdr.slot_size /\ rd'[q].buf = hdr.slot_size
      <4>1. rd[q] \in ReaderType /\ rd \in [Readers -> ReaderType]
        BY DEF RingTypeOK
      <4> QED  BY <3>2, <4>1 DEF LoadSlotSize, ReaderType
    <3> QED  BY <3>3, <2>1, <2>2 DEF Placed, Fits
  <2>5. CASE rd'[q].pc # "index"
    <3>1. rd'[q].stride = rd[q].stride /\ rd'[q].buf = rd[q].buf
      BY <1>4, <2>5, CallFacts
    <3>2. Fits(q)'  BY <2>3, <3>1 DEF Fits, Placed
    <3>3. ASSUME Picked(q)'  PROVE Placed(q)
      <4>1. CASE PickSlot(q)
        <5>1. CASE q \in PyReaders
          BY <4>1, <5>1, <2>1 DEF PickSlot, FitOK
        <5>2. CASE q \notin PyReaders
          BY <5>2, <2>3 DEF Fits, Readers
        <5> QED  BY <5>1, <5>2
      <4>2. CASE ~PickSlot(q)
        BY <4>2, <3>3, <2>1, PickedBy DEF FitOK
      <4> QED  BY <4>1, <4>2
    <3>4. Picked(q)' => Placed(q)'  BY <3>1, <3>3 DEF Placed
    <3> QED  BY <2>2, <2>5, <3>2, <3>4
  <2> QED  BY <2>4, <2>5
<1> QED  BY <1>2, <1>3, <1>4 DEF ReaderStep

LEMMA SlotFreshStep ==
  ASSUME NEW q \in Readers, ReaderStep(q), RingTypeOK, HeaderUp, SlotsOK,
         SpanOK(q), SlotFresh(q)
  PROVE  SlotFresh(q)'
<1>1. hdr' = hdr /\ seq' = seq /\ word' = word /\ era' = era
  BY ReaderFrame
<1>2. rd[q] \in ReaderType /\ rd \in [Readers -> ReaderType]
  BY DEF RingTypeOK
<1>3. CASE PickSlot(q)
  <2>1. span' = span  BY <1>3, CallFacts DEF CallStep
  <2>2. rd'[q].idx = hdr.latest /\ hdr.latest \in Slots
    BY <1>3, <1>2 DEF PickSlot, RingTypeOK, HdrType, ReaderType
  <2>3. ASSUME span[q].clean, NEW w \in Words
        PROVE  Within(word[hdr.latest][w], span[q].lo - 1)
    <3>1. Within(word[hdr.latest][w], hdr.wr_count - 1)
      BY <2>2, <2>3 DEF SlotsOK, SpanOK
    <3>2. /\ span[q].lo \in Nat /\ hdr.wr_count \in Nat
          /\ span[q].lo <= hdr.wr_count
      BY <2>3 DEF SpanOK, RingTypeOK, HdrType
    <3>3. word[hdr.latest][w].idx \in Int
      BY <2>2 DEF RingTypeOK, Content
    <3> QED  BY <3>1, <3>2, <3>3 DEF Within
  <2> QED  BY <2>1, <2>2, <2>3, <1>1 DEF SlotFresh, Within
<1>4. CASE ~PickSlot(q)
  <2>1. Picked(q)' => Picked(q) /\ rd'[q].idx = rd[q].idx /\ span' = span
    BY <1>4, PickedBy
  <2> QED  BY <2>1, <1>1 DEF SlotFresh, Within
<1> QED  BY <1>3, <1>4

(* What is loaded while the counter stands still is what the slot holds. *)
LEMMA CopyStep ==
  ASSUME NEW q \in Readers, ReaderStep(q), RingTypeOK, HeaderUp,
         SpanOK(q), FitOK(q), SlotFresh(q), CopyOK(q)
  PROVE  CopyOK(q)'
<1>1. hdr' = hdr /\ seq' = seq /\ word' = word /\ era' = era
  BY ReaderFrame
<1>2. rd[q] \in ReaderType /\ rd \in [Readers -> ReaderType]
  BY DEF RingTypeOK
<1>p. span[q].clean /\ Picked(q) => ~Astray(q)
  BY DEF FitOK, Placed, Astray
<1>3. CASE SlotStable(q)
  <2>1. span' = span  BY <1>3, CallFacts DEF CallStep
  <2> SUFFICES ASSUME span[q].clean  PROVE CopyOK(q)'
    BY <2>1 DEF CopyOK
  <2>a. ~Astray(q) /\ rd[q].pc = "seq0"
    BY <1>3, <1>p DEF SlotStable, Picked
  <2>2. /\ rd'[q].pc = "meta" /\ rd'[q].todo = Meta
        /\ rd'[q].s0 = seq[rd[q].idx] /\ rd'[q].idx = rd[q].idx
        /\ Even(seq[rd[q].idx])
    BY <1>3, <1>2, <2>a DEF SlotStable, ReaderType
  <2>3. seq[rd[q].idx] \in Nat  BY <1>2 DEF RingTypeOK, ReaderType
  <2> QED  BY <2>1, <2>2, <2>3, <1>1 DEF CopyOK, Copying, Loaded, Even
<1>4. ASSUME NEW w \in Words, LoadWord(q, w)  PROVE CopyOK(q)'
  <2>1. span' = span  BY <1>4, CallFacts DEF CallStep
  <2> SUFFICES ASSUME span[q].clean  PROVE CopyOK(q)'
    BY <2>1 DEF CopyOK
  <2>a. Copying(q) /\ ~Astray(q)
    BY <1>4, <1>p DEF LoadWord, Copying, Picked
  <2>b. rd' = [rd EXCEPT ![q] = [@ EXCEPT !.todo = rd[q].todo \ {w},
                                          !.copy[w] = word[rd[q].idx][w]]]
    BY <1>4, <2>a DEF LoadWord, Found
  <2>2. /\ rd'[q].pc = rd[q].pc /\ rd'[q].idx = rd[q].idx
        /\ rd'[q].s0 = rd[q].s0 /\ Copying(q)
        /\ rd'[q].todo = rd[q].todo \ {w}
        /\ rd'[q].copy = [rd[q].copy EXCEPT ![w] = word[rd[q].idx][w]]
    BY <2>a, <2>b, <1>2 DEF ReaderType
  <2>3. Picked(q)  BY <2>2 DEF Picked, Copying
  <2>4. SUFFICES ASSUME span[q].clean, NEW v \in Loaded(q)'
                 PROVE  /\ Within(rd'[q].copy[v], span[q].lo - 1)
                        /\ seq[rd[q].idx] = rd[q].s0
                             => rd'[q].copy[v] = word[rd[q].idx][v]
    BY <2>1, <2>2, <1>1 DEF CopyOK, Copying, Within, Even
  <2>5. rd[q].copy \in [Words -> Content]  BY <1>2 DEF ReaderType
  <2>6. CASE v = w
    BY <2>6, <2>5, <2>2, <2>3, <2>4 DEF SlotFresh
  <2>7. CASE v # w
    <3>1. v \in Loaded(q) /\ v \in Words
      BY <2>7, <2>2, <2>4 DEF Loaded, Words
    <3>2. rd'[q].copy[v] = rd[q].copy[v]  BY <3>1, <2>7, <2>2, <2>5
    <3> QED  BY <3>1, <3>2, <2>2, <2>4 DEF CopyOK
  <2> QED  BY <2>6, <2>7
<1>5. CASE CopyPayload(q)
  <2>1. span' = span  BY <1>5, CallFacts DEF CallStep
  <2>2. /\ rd[q].pc = "meta" /\ rd[q].todo = {} /\ rd'[q].pc = "data"
        /\ rd'[q].idx = rd[q].idx /\ rd'[q].s0 = rd[q].s0
        /\ rd'[q].copy = rd[q].copy
        /\ rd[q].copy["size"] # Zero => rd'[q].todo = Payload
    BY <1>5, <1>2 DEF CopyPayload, ReaderType
  <2>3. Copying(q) /\ Loaded(q) = Meta  BY <2>2 DEF Copying, Loaded
  <2>4. SUFFICES ASSUME span[q].clean
                 PROVE  Loaded(q)' = Loaded(q)
    BY <2>1, <2>2, <2>3, <1>1 DEF CopyOK, Copying, Within, Even
  <2>5. rd[q].copy["size"] # Zero
    <3>1. Within(rd[q].copy["size"], span[q].lo - 1)
      BY <2>3, <2>4 DEF CopyOK, Meta
    <3>2. era.gen > 0  BY <2>4 DEF SpanOK, HeaderUp
    <3> QED  BY <3>1, <3>2 DEF Within, Zero
  <2> QED  BY <2>2, <2>3, <2>5 DEF Loaded, Words
<1>6. CASE ~(SlotStable(q) \/ CopyPayload(q) \/ \E w \in Words : LoadWord(q, w))
  <2>1. ~Copying(q)'
    <3>1. CASE OpenStep(q) \/ Begin(q)
      BY <3>1, OpenFacts, BeginFacts DEF Copying, Opening
    <3>4. CASE PickSlot(q) \/ GoodSlot(q)
      <4>1. CASE PickSlot(q)
        <5>1. rd'[q].pc = IF q \in PyReaders THEN "seq0" ELSE "bound"
          BY <4>1, <1>2 DEF PickSlot, ReaderType
        <5> QED  BY <5>1 DEF Copying
      <4>2. CASE GoodSlot(q)
        BY <4>2, <1>2 DEF GoodSlot, ReaderType, Copying
      <4> QED  BY <3>4, <4>1, <4>2
    <3>5. CASE LoadMagic(q) \/ LoadNSlots(q) \/ LoadSlotSize(q)
      <4>1. CASE LoadMagic(q)
        BY <4>1, <1>2 DEF LoadMagic, ReaderType, Copying
      <4>2. CASE LoadNSlots(q)
        BY <4>2, <1>2 DEF LoadNSlots, ReaderType, Copying
      <4>3. CASE LoadSlotSize(q)
        BY <4>3, <1>2 DEF LoadSlotSize, ReaderType, Copying
      <4> QED  BY <3>5, <4>1, <4>2, <4>3
    <3>2. CASE SlotBusy(q) \/ Torn(q)
      <4>1. rd'[q].pc = "latest"
        BY <3>2, <1>2, RetryTyping DEF SlotBusy, Torn
      <4> QED  BY <4>1 DEF Copying
    <3>3. CASE \/ GiveUp(q) \/ SeeNothing(q) \/ BadSlot(q)
               \/ Duplicate(q) \/ TooBig(q) \/ Succeed(q)
      BY <3>3, <1>2 DEF GiveUp, SeeNothing, BadSlot, Duplicate, TooBig,
        Succeed, Return, Ended, Copying
    <3> QED  BY <3>1, <3>2, <3>3, <3>4, <3>5, <1>6 DEF ReaderStep, CallStep
  <2> QED  BY <2>1 DEF CopyOK
<1> QED  BY <1>3, <1>4, <1>5, <1>6

(* What a call hands over is one frame, whole and no staler than allowed. *)
LEMMA ResultStep ==
  ASSUME NEW q \in Readers, ReaderStep(q), RingTypeOK, HeaderUp, SlotsOK,
         ReaderOK(q)
  PROVE  ResultOK(q)'
<1>1. hdr' = hdr /\ seq' = seq /\ word' = word /\ era' = era
  BY ReaderFrame
<1>2. rd[q] \in ReaderType /\ rd \in [Readers -> ReaderType]
  BY DEF RingTypeOK
<1>3. CASE Succeed(q)
  <2>1. span' = span  BY <1>3, CallFacts DEF CallStep
  <2>2. /\ rd[q].pc = "data" /\ rd[q].todo = {}
        /\ Astray(q) \/ seq[rd[q].idx] = rd[q].s0
        /\ rd'[q].rc = "ok" /\ rd'[q].copy = rd[q].copy
    BY <1>3, <1>2 DEF Succeed, Ended
  <2>3. SUFFICES ASSUME span[q].clean
                 PROVE  /\ Whole(rd[q].copy)
                        /\ Within(rd[q].copy["stamp"], span[q].lo - 1)
    BY <2>1, <2>2, <1>1 DEF ResultOK, Returned, Whole, OneFrame, Within
  <2>4. Loaded(q) = Words /\ Copying(q) /\ "stamp" \in Words
    BY <2>2 DEF Loaded, Copying, Words, Meta
  <2>8. seq[rd[q].idx] = rd[q].s0
    BY <2>2, <2>3 DEF ReaderOK, FitOK, Picked, Placed, Astray
  <2>5. \A w \in Words : /\ Within(rd[q].copy[w], span[q].lo - 1)
                         /\ rd[q].copy[w] = word[rd[q].idx][w]
    BY <2>8, <2>3, <2>4 DEF ReaderOK, CopyOK
  <2>6. OneFrame(word[rd[q].idx])
    BY <2>8, <2>3, <2>4, <1>2
      DEF ReaderOK, CopyOK, SpanOK, SlotsOK, ReaderType
  <2>7. OneFrame(rd[q].copy)  BY <2>4, <2>5, <2>6 DEF OneFrame
  <2> QED  BY <2>4, <2>5, <2>7 DEF Whole, Within
<1>4. CASE SeeNothing(q)
  <2>1. span' = span  BY <1>4, CallFacts DEF CallStep
  <2>2. rd'[q].rc = "none" /\ rd'[q].last = rd[q].last
    BY <1>4, <1>2 DEF SeeNothing, Return, Ended
  <2>3. SUFFICES ASSUME span[q].clean  PROVE span[q].lo = 0
    BY <2>1, <2>2, <1>1 DEF ResultOK, Returned
  <2>4. era.up /\ span[q].lo <= hdr.wr_count
    BY <2>3 DEF ReaderOK, SpanOK
  <2>5. hdr.latest = NoFrame
    BY <2>4, <1>4 DEF SeeNothing, HeaderUp
  <2>6. span[q].lo \in Nat  BY DEF RingTypeOK
  <2> QED  BY <2>4, <2>5, <2>6 DEF HeaderUp
<1>5. CASE Duplicate(q)
  <2>1. span' = span  BY <1>5, CallFacts DEF CallStep
  <2>2. /\ rd[q].pc = "meta" /\ rd[q].todo = {} /\ q \in PyReaders
        /\ rd[q].copy["stamp"].idx = rd[q].last.idx
        /\ rd'[q].rc = "none" /\ rd'[q].last = rd[q].last
    BY <1>5, <1>2 DEF Duplicate, SameAsLast, Return, Ended
  <2>3. SUFFICES ASSUME span[q].clean
                 PROVE  Within(rd[q].copy["stamp"], span[q].lo - 1)
    BY <2>1, <2>2, <1>1 DEF ResultOK, Returned, Within
  <2>4. "stamp" \in Loaded(q) /\ Copying(q)
    BY <2>2 DEF Loaded, Copying, Meta
  <2> QED  BY <2>3, <2>4 DEF ReaderOK, CopyOK
<1>6. CASE OpenStep(q)
  BY <1>6, OpenFacts DEF ResultOK, Returned
<1>7. CASE ~(Succeed(q) \/ SeeNothing(q) \/ Duplicate(q) \/ OpenStep(q))
  <2>1. rd'[q].pc # "idle" \/ rd'[q].rc \in {"raced", "refused"}
    <3>1. CASE Begin(q) \/ PickSlot(q)
      <4>1. CASE Begin(q)  BY <4>1, BeginFacts
      <4>2. CASE PickSlot(q)
        <5>1. rd'[q].pc = IF q \in PyReaders THEN "seq0" ELSE "bound"
          BY <4>2, <1>2 DEF PickSlot, ReaderType
        <5> QED  BY <5>1
      <4> QED  BY <3>1, <4>1, <4>2
    <3>5. CASE GoodSlot(q) \/ SlotStable(q) \/ CopyPayload(q)
      <4>1. CASE GoodSlot(q)  BY <4>1, <1>2 DEF GoodSlot, ReaderType
      <4>2. CASE SlotStable(q)  BY <4>2, <1>2 DEF SlotStable, ReaderType
      <4>3. CASE CopyPayload(q)  BY <4>3, <1>2 DEF CopyPayload, ReaderType
      <4> QED  BY <3>5, <4>1, <4>2, <4>3
    <3>6. CASE LoadMagic(q) \/ LoadNSlots(q) \/ LoadSlotSize(q)
      <4>1. CASE LoadMagic(q)  BY <4>1, <1>2 DEF LoadMagic, ReaderType
      <4>2. CASE LoadNSlots(q)  BY <4>2, <1>2 DEF LoadNSlots, ReaderType
      <4>3. CASE LoadSlotSize(q)
        BY <4>3, <1>2 DEF LoadSlotSize, ReaderType
      <4> QED  BY <3>6, <4>1, <4>2, <4>3
    <3>2. CASE SlotBusy(q) \/ Torn(q)
      <4>1. rd'[q].pc = "latest"
        BY <3>2, <1>2, RetryTyping DEF SlotBusy, Torn
      <4> QED  BY <4>1
    <3>3. CASE GiveUp(q) \/ BadSlot(q) \/ TooBig(q)
      BY <3>3, <1>2 DEF GiveUp, BadSlot, TooBig, Return, Ended
    <3>4. ASSUME NEW w \in Words, LoadWord(q, w)  PROVE rd'[q].pc # "idle"
      <4>1. rd[q].pc \in {"meta", "data"}  BY <3>4 DEF LoadWord
      <4>3. rd'[q].pc = rd[q].pc  BY <3>4, <1>2 DEF LoadWord, ReaderType
      <4> QED  BY <4>1, <4>3
    <3> QED  BY <3>1, <3>2, <3>3, <3>4, <3>5, <3>6, <1>7 DEF ReaderStep, CallStep
  <2> QED  BY <2>1 DEF ResultOK, Returned
<1> QED  BY <1>3, <1>4, <1>5, <1>6, <1>7

(* The reader's half of the invariant, over every reader's step. *)
LEMMA ReaderInvariant ==
  ASSUME NEW q \in Readers, ReaderStep(q), RingTypeOK, HeaderUp, SlotsOK,
         \A r \in Readers : ReaderOK(r)
  PROVE  HeaderUp' /\ SlotsOK' /\ \A r \in Readers : ReaderOK(r)'
<1>1. HeaderUp' /\ SlotsOK'
  BY ReaderFrame DEF HeaderUp, SlotsOK, Within, OneFrame
<1>f. FitOK(q)'  BY FitStep DEF ReaderOK, SpanOK, HeaderUp
<1>2. ReaderOK(q)'
  BY <1>f, SpanStep, SlotFreshStep, CopyStep, ResultStep DEF ReaderOK
<1>3. \A r \in Readers \ {q} : ReaderOK(r)'  BY Bystander
<1> QED  BY <1>1, <1>2, <1>3

(* What a writer may do to a ring that is up without any reader's state    *)
(* becoming false: counters only grow, a slot with an even counter is not  *)
(* touched unless the counter moves, and every word stored belongs to the  *)
(* frame that wr_count numbers. *)
LEMMA RingGrows ==
  ASSUME RingTypeOK, rd' = rd, span' = span, era' = era,
         hdr'.wr_count \in {hdr.wr_count, hdr.wr_count + 1},
         \A i \in Slots : /\ seq'[i] \in Nat /\ seq'[i] >= seq[i]
                          /\ Even(seq[i]) => word'[i] = word[i],
         \A i \in Slots, w \in Words :
           word'[i][w] \in {word[i][w],
                            [gen |-> era.gen, idx |-> hdr.wr_count]},
         \A r \in Readers : ReaderOK(r)
  PROVE  \A r \in Readers : ReaderOK(r)'
<1> SUFFICES ASSUME NEW r \in Readers  PROVE ReaderOK(r)'
  OBVIOUS
<1>1. /\ rd[r] \in ReaderType /\ hdr.wr_count \in Nat
      /\ span[r].lo \in Nat /\ seq \in [Slots -> Nat]
      /\ word \in [Slots -> [Words -> Content]]
  BY DEF RingTypeOK, HdrType
<1>2. hdr'.wr_count >= hdr.wr_count  BY <1>1
<1>t. rd[r].idx \in Slots /\ rd[r].copy \in [Words -> Content]
  BY <1>1 DEF ReaderType
<1>4. SpanOK(r)'  BY <1>1, <1>2 DEF ReaderOK, SpanOK
<1>3. FitOK(r)'  BY DEF ReaderOK, FitOK, Fits, Placed, Picked
<1>5. SlotFresh(r)'
  <2> SUFFICES ASSUME span[r].clean, Picked(r), NEW w \in Words
               PROVE  Within(word[rd[r].idx][w], span[r].lo - 1)'
    BY DEF SlotFresh, Picked, Within
  <2>1. Within(word[rd[r].idx][w], span[r].lo - 1)
    BY DEF ReaderOK, SlotFresh
  <2>2. word[rd[r].idx][w] \in Content  BY <1>1, <1>t
  <2>3. CASE word'[rd[r].idx][w] = word[rd[r].idx][w]
    BY <2>1, <2>2, <2>3, <1>1, <1>2 DEF Within, Content
  <2>4. CASE word'[rd[r].idx][w] = [gen |-> era.gen, idx |-> hdr.wr_count]
    <3>1. span[r].lo <= hdr.wr_count  BY DEF ReaderOK, SpanOK
    <3> QED  BY <2>4, <3>1, <1>1, <1>2 DEF Within
  <2> QED  BY <2>3, <2>4, <1>t
<1>6. CopyOK(r)'
  <2> SUFFICES ASSUME span[r].clean, Copying(r)
               PROVE  /\ Even(rd[r].s0) /\ rd[r].s0 <= seq'[rd[r].idx]
                      /\ rd[r].pc = "meta" => rd[r].todo \subseteq Meta
                      /\ \A w \in Loaded(r) :
                           /\ Within(rd[r].copy[w], span[r].lo - 1)'
                           /\ seq'[rd[r].idx] = rd[r].s0 =>
                                rd[r].copy[w] = word'[rd[r].idx][w]
    BY DEF CopyOK, Copying, Loaded, Within, Even
  <2>1. /\ Even(rd[r].s0) /\ rd[r].s0 <= seq[rd[r].idx]
        /\ rd[r].pc = "meta" => rd[r].todo \subseteq Meta
    BY DEF ReaderOK, CopyOK
  <2>2. rd[r].s0 \in Nat /\ seq[rd[r].idx] \in Nat /\ seq'[rd[r].idx] \in Nat
    BY <1>1, <1>t DEF ReaderType
  <2>3. seq'[rd[r].idx] = rd[r].s0 => /\ seq[rd[r].idx] = rd[r].s0
                                      /\ word'[rd[r].idx] = word[rd[r].idx]
    BY <2>1, <2>2, <1>t
  <2>4. ASSUME NEW w \in Loaded(r)
        PROVE  /\ Within(rd[r].copy[w], span[r].lo - 1)'
               /\ seq'[rd[r].idx] = rd[r].s0 =>
                    rd[r].copy[w] = word'[rd[r].idx][w]
    <3>1. w \in Words  BY <2>4 DEF Loaded, Words
    <3>2. /\ Within(rd[r].copy[w], span[r].lo - 1)
          /\ seq[rd[r].idx] = rd[r].s0 =>
               rd[r].copy[w] = word[rd[r].idx][w]
      BY <2>4 DEF ReaderOK, CopyOK
    <3>3. rd[r].copy[w] \in Content  BY <3>1, <1>t
    <3> QED  BY <3>2, <3>3, <2>3, <1>1, <1>2 DEF Within, Content
  <2> QED  BY <2>1, <2>2, <2>4, <1>t
<1>7. ResultOK(r)'
  <2>1. rd[r].copy["stamp"] \in Content /\ rd[r].last \in Content
    BY <1>1, <1>t DEF ReaderType, Words, Meta
  <2>2. ResultOK(r)  BY DEF ReaderOK
  <2> QED
    BY <2>1, <2>2, <1>1, <1>2
    DEF ResultOK, Returned, Whole, OneFrame, Within, Content
<1> QED  BY <1>3, <1>4, <1>5, <1>6, <1>7 DEF ReaderOK
===============================================================================
