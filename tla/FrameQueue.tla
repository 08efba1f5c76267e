----------------------------- MODULE FrameQueue -----------------------------
(***************************************************************************)
(* What an Ethernet driver promises the network stack: the frames that     *)
(* reached the board are handed up one at a time, in the order they came   *)
(* and with the content they came with; one may be refused, none is        *)
(* handed up twice.                                                        *)
(***************************************************************************)
EXTENDS Sequences

CONSTANT Frames
VARIABLES
  queue,   (* frames that came and were neither handed up nor refused      *)
  up       (* the frame being handed up, as a sequence of none or one      *)

FrameVars == <<queue, up>>

Init == queue = <<>> /\ up = <<>>

Arrive == UNCHANGED up /\ \E f \in Frames : queue' = Append(queue, f)
HandUp == queue # <<>> /\ up = <<>> /\ up' = <<Head(queue)>> /\ queue' = Tail(queue)
Refuse == queue # <<>> /\ up = <<>> /\ UNCHANGED up /\ queue' = Tail(queue)
Done   == up # <<>> /\ up' = <<>> /\ UNCHANGED queue

Spec == Init /\ [][Arrive \/ HandUp \/ Refuse \/ Done]_FrameVars
=============================================================================
