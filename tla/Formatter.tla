----------------------------- MODULE Formatter -----------------------------
(***************************************************************************)
(* What the packet formatter promises to its two neighbours, without words *)
(* and CRCs.  To the event queue: an event is acknowledged for one clock,  *)
(* nothing else is accepted until its packet is out, and the parameters of *)
(* the event stay as they were accepted.  To the DMA controller: every     *)
(* packet ends, however little data the DRS delivers, and is followed by a *)
(* gap of exactly GAP words with busy low, the only place where the        *)
(* controller may change buffers.  Daq implements it; EventPath is written *)
(* against its phases.                                                     *)
(***************************************************************************)
EXTENDS Naturals

CONSTANTS
  Events,      (* what may be accepted: records with at least the fields      *)
               (* fragment and dropped                                        *)
  NoEvent,     (* what the parameters hold before the first event             *)
  GAP,         (* words between two packets: one DMA burst, at least one      *)
  RESETS       (* values the reset port may take: {FALSE} or BOOLEAN          *)

VARIABLES
  phase,       (* "ready", "header", "payload", "trailer" or "gap"            *)
  ack,         (* acknowledge to the event queue                              *)
  event,       (* the event of the current packet                             *)
  gap          (* words of the gap that are out                               *)

vars == <<phase, ack, event, gap>>

Init == phase = "ready" /\ ack = FALSE /\ event = NoEvent /\ gap = 0

(* A reset takes the formatter back to ready from anywhere, on the edge of   *)
(* an acceptance too: that event is acknowledged and has no packet.          *)
Goto(rst, p) == phase' = IF rst THEN "ready" ELSE p

Accept(rst, e) ==
  /\ phase = "ready"
  /\ Goto(rst, "header")
  /\ ack' = TRUE /\ event' = e
  /\ UNCHANGED gap

(* The clocks at which nothing but the acknowledge moves.                    *)
Continue ==
  /\ ack' = FALSE
  /\ UNCHANGED <<phase, event, gap>>

(* A fragment, and an event the DRS was too busy to read out, have no        *)
(* payload.                                                                  *)
AfterHeader(e) == IF e.fragment \/ e.dropped THEN "trailer" ELSE "payload"

EndHeader(rst)  == phase = "header"  /\ Goto(rst, AfterHeader(event)) /\ UNCHANGED gap
EndPayload(rst) == phase = "payload" /\ Goto(rst, "trailer") /\ UNCHANGED gap
EndTrailer(rst) == phase = "trailer" /\ Goto(rst, "gap") /\ UNCHANGED gap

GapWord(rst) ==
  /\ phase = "gap"
  /\ Goto(rst, IF gap = GAP - 1 THEN "ready" ELSE "gap")
  /\ gap' = IF rst \/ gap = GAP - 1 THEN 0 ELSE gap + 1

Progress ==
  /\ \E rst \in RESETS :
       EndHeader(rst) \/ EndPayload(rst) \/ EndTrailer(rst) \/ GapWord(rst)
  /\ ack' = FALSE
  /\ UNCHANGED event

Next ==
  \/ \E rst \in RESETS, e \in Events : Accept(rst, e)
  \/ Continue
  \/ Progress

(* No phase of a packet lasts for ever.                                      *)
Spec == Init /\ [][Next]_vars /\ WF_vars(Progress)

=============================================================================
