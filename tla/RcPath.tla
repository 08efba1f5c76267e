------------------------------- MODULE RcPath -------------------------------
(***************************************************************************)
(* The way of a stick from the transmitter to the robot: the RC board that *)
(* reads its receiver, its agent, and the teleoperation node.  Of the      *)
(* board's inputs it is kept what RcInput shows of each: once no pulse has *)
(* been measured for a while, a session publishes nothing but neutral      *)
(* (RcInput!NeutralWhenSilent).  The mode switch is one of these inputs,   *)
(* and neutral is ROS mode; the E-Stop comes from another board.           *)
(***************************************************************************)
EXTENDS RcTeleop

CONSTANT Failsafe  (* Timeout + 2 * Period of RcInput, in ticks *)

ASSUME FailsafeAssumption == Failsafe \in Nat \ {0}

VARIABLES
  onAir,  (* the transmitter is heard                                      *)
  quiet   (* ticks since the board measured its last pulse                 *)

path == <<vars, onAir, quiet>>

PathInit == Init /\ onAir \in BOOLEAN /\ quiet \in 0..Failsafe

-----------------------------------------------------------------------------
TransmitterChanges == onAir' = ~onAir /\ UNCHANGED <<vars, quiet>>

Pulse == onAir /\ quiet' = 0 /\ UNCHANGED <<vars, onAir>>

Tick == quiet < Failsafe /\ quiet' = quiet + 1 /\ UNCHANGED <<vars, onAir>>

(* A heartbeat of the board reaches the node.                              *)
RcBoard_NoFailsafe(t, v) == Send(t, v)
RcBoard(t, v) == (v => quiet < Failsafe) /\ Send(t, v)

RcSends(t) == \E v \in BOOLEAN : RcBoard(t, v) /\ UNCHANGED <<onAir, quiet>>

EstopSends == \E v \in BOOLEAN : Send("estop", v) /\ UNCHANGED <<onAir, quiet>>

Node ==
  /\ (\E t \in Topic : Take(t)) \/ Timer \/ Shutdown
  /\ UNCHANGED <<onAir, quiet>>

Others ==
  /\ RcLinkChanges \/ \E twist \in {"zero", "move"} : NavCommands(twist)
  /\ UNCHANGED <<onAir, quiet>>

Inputs == Topic \ {"estop"}

PathNext ==
  \/ TransmitterChanges \/ Pulse \/ Tick \/ EstopSends \/ Node \/ Others
  \/ \E t \in Inputs : RcSends(t)

PathSpec == PathInit /\ [][PathNext]_path

(* Time passes, the node is scheduled as in RcTeleop, and while the board  *)
(* and its agent are there for good not all of its heartbeats are lost.    *)
FairPathSpec ==
  /\ PathSpec
  /\ WF_path(Tick) /\ \A t \in Inputs : WF_path(RcSends(t))
  /\ WF_vars(Timer) /\ \A t \in Topic : WF_vars(Take(t))

-----------------------------------------------------------------------------
(* When the transmitter is lost for good, the robot stops being driven by  *)
(* it for good, whatever was queued, dropped or repeated on the way and    *)
(* whichever of sticks and switch goes neutral first, as long as the RC    *)
(* board and its agent live.  (If they do not: RcTeleop!SilenceStops.)     *)
LostTransmitterStops == <>[](~onAir /\ rcAlive) => <>[](output # "move")
=============================================================================
