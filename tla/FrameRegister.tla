----------------------------- MODULE FrameRegister ----------------------------
(***************************************************************************)
(* What a bat_ring promises, without slots, counters or words: one writer, *)
(* many readers, latest frame wins.  A call never waits; what it may       *)
(* return is bounded by what had been published when it began and by what  *)
(* is complete when it ends.  Frames are numbered from 1 here: frame n is  *)
(* the one whose frame_idx is n - 1.                                       *)
(***************************************************************************)
EXTENDS Integers

CONSTANTS
  Readers,
  Dedup,      (* the readers that are told "none" for a frame they have    *)
  Patience,   (* frames that must be published before a call may give up   *)
  Frames      (* everything a call may return when nothing is promised     *)

VARIABLES
  epoch,      (* number of initialisations so far                          *)
  live,       (* the present one is complete                               *)
  published,  (* frames published since                                    *)
  visible,    (* frames a reader may obtain: published, or one more        *)
  call        (* the state of every reader                                 *)

regVars == <<epoch, live, published, visible, call>>

Nothing == [gen |-> 0, idx |-> -1]
NoCall  == [at |-> "away", lo |-> 0, clean |-> FALSE,
            rc |-> "none", got |-> Nothing, fit |-> FALSE]

Init ==
  /\ epoch = 0 /\ live = FALSE
  /\ published = 0 /\ visible = 0
  /\ call = [r \in Readers |-> NoCall]

(***************************************************************************)
(* The writer.                                                             *)
(***************************************************************************)
(* A new writer takes the ring over: what calls in progress return is no   *)
(* longer promised anything.                                               *)
Reset ==
  /\ epoch' = epoch + 1
  /\ live' = FALSE /\ published' = 0 /\ visible' = 0
  /\ call' = [r \in Readers |-> [call[r] EXCEPT !.clean = FALSE]]

Launch ==
  /\ ~live /\ live' = TRUE
  /\ UNCHANGED <<epoch, published, visible, call>>

Complete ==
  /\ live /\ visible = published
  /\ visible' = published + 1
  /\ UNCHANGED <<epoch, live, published, call>>

Publish ==
  /\ live /\ visible = published + 1
  /\ published' = visible
  /\ UNCHANGED <<epoch, live, visible, call>>

(***************************************************************************)
(* A reader.                                                               *)
(***************************************************************************)
(* Attaching takes time.  Only a reader that attached to a ring that was    *)
(* complete, and stayed so meanwhile, is sure to find its frames later.     *)
Attach(r) ==
  /\ call[r].at = "away"
  /\ call' = [call EXCEPT ![r] = [@ EXCEPT !.at = "attaching", !.lo = published,
                                           !.clean = live]]
  /\ UNCHANGED <<epoch, live, published, visible>>

Attached(r) ==
  /\ call[r].at = "attaching"
  /\ \E fit \in {TRUE, call[r].clean} :
       call' = [call EXCEPT ![r] = [@ EXCEPT !.at = "idle", !.clean = FALSE,
                                             !.fit = fit]]
  /\ UNCHANGED <<epoch, live, published, visible>>

Refused(r) ==
  /\ call[r].at = "attaching" /\ ~call[r].clean
  /\ call' = [call EXCEPT ![r] = [@ EXCEPT !.at = "away"]]
  /\ UNCHANGED <<epoch, live, published, visible>>

Invoke(r) ==
  /\ call[r].at = "idle"
  /\ call' = [call EXCEPT ![r] = [@ EXCEPT !.at = "busy", !.lo = published,
                                           !.clean = live /\ call[r].fit]]
  /\ UNCHANGED <<epoch, live, published, visible>>

Answer(r, rc, got) ==
  /\ call[r].at = "busy"
  /\ call' = [call EXCEPT ![r] = [@ EXCEPT !.at = "idle", !.rc = rc,
                                           !.got = got]]
  /\ UNCHANGED <<epoch, live, published, visible>>

Deliver(r) ==
  \E n \in 1 .. visible :
    /\ call[r].lo <= n
    /\ Answer(r, "ok", [gen |-> epoch, idx |-> n - 1])

(* The number of a frame is enough to know it again: it may be seen while  *)
(* the rest of that frame is still being written.                          *)
NothingNew(r) ==
  /\ \/ call[r].lo = 0
     \/ /\ r \in Dedup
        /\ call[r].got.idx + 1 \in call[r].lo .. published + 1
  /\ Answer(r, "none", call[r].got)

Raced(r) ==
  /\ published >= call[r].lo + Patience
  /\ Answer(r, "raced", call[r].got)

(* The ring was re-created under the call, or not yet complete at its      *)
(* start or while the reader attached: any answer and any bytes.           *)
Undefined(r) ==
  /\ ~call[r].clean
  /\ call'[r].rc  \in {"ok", "none", "raced", "refused"}
  /\ call'[r].got \in Frames \cup {call[r].got}
  /\ Answer(r, call'[r].rc, call'[r].got)

Next ==
  \/ Reset \/ Launch \/ Complete \/ Publish
  \/ \E r \in Readers :
       \/ Attach(r) \/ Attached(r) \/ Refused(r)
       \/ Invoke(r) \/ Deliver(r) \/ NothingNew(r)
       \/ Raced(r) \/ Undefined(r)

Spec == Init /\ [][Next]_regVars
===============================================================================
