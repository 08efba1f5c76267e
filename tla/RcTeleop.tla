------------------------------ MODULE RcTeleop ------------------------------
(***************************************************************************)
(* rc_teleop_node.py: the host node that turns RC sticks into velocity     *)
(* commands, with the ROS/RC mode switch and the E-Stop gate.  The node is *)
(* one rclpy executor thread: callbacks and the timer never overlap, but   *)
(* run in any order.  Its publishers are other programs, which come and    *)
(* go; the topic it commands is shared with the navigation stack.          *)
(***************************************************************************)
EXTENDS Integers, Sequences

CONSTANTS
  Sticks,  (* stick topics mixed into a twist (two in the code)            *)
  Depth    (* samples a subscription keeps, the oldest dropped when full   *)

ASSUME Assumption ==
  /\ Sticks \cap {"mode", "estop"} = {}
  /\ Depth \in Nat \ {0}

Topic == Sticks \cup {"mode", "estop"}

VARIABLES
  queue,    (* samples received and not yet taken                          *)
  node,     (* ch_a, ch_b # 0, rc_mode and estop_active of the node        *)
  running,  (* the node spins                                              *)
  rcAlive,  (* the RC board and its agent publish                          *)
  output,   (* the last twist of this node: "none", "zero" or "move"       *)
  cmd       (* the last twist on the topic and who published it            *)

vars == <<queue, node, running, rcAlive, output, cmd>>

(* rc_mode is FALSE and estop_active TRUE until told otherwise.            *)
Init ==
  /\ queue = [t \in Topic |-> <<>>]
  /\ node  = [t \in Topic |-> t = "estop"]
  /\ running = TRUE /\ rcAlive = TRUE
  /\ output = "none"
  /\ cmd = [by |-> "nav", twist |-> "zero"]

-----------------------------------------------------------------------------
(* The other programs.  E-Stop is another board than the receiver.         *)
Receive_All(q, v) == Append(q, v)
Receive(q, v) == IF Len(q) < Depth THEN Append(q, v) ELSE Append(Tail(q), v)

Send(t, v) ==
  /\ running
  /\ t # "estop" => rcAlive
  /\ queue' = [queue EXCEPT ![t] = Receive(@, v)]
  /\ UNCHANGED <<node, running, rcAlive, output, cmd>>

RcLinkChanges ==
  /\ rcAlive' = ~rcAlive
  /\ UNCHANGED <<queue, node, running, output, cmd>>

NavCommands(twist) ==
  /\ cmd' = [by |-> "nav", twist |-> twist]
  /\ UNCHANGED <<queue, node, running, rcAlive, output>>

-----------------------------------------------------------------------------
(* The node.                                                               *)
PublishTwist(twist) == output' = twist /\ cmd' = [by |-> "rc", twist |-> twist]

(* _ch_a_cb, _ch_b_cb, _estop_cb and _mode_switch_cb; a change of mode, in *)
(* either direction, publishes a zero twist at once.                       *)
OnSwitch_Silent == UNCHANGED <<output, cmd>>
OnSwitch        == PublishTwist("zero")

Take(t) ==
  /\ running /\ queue[t] # <<>>
  /\ queue' = [queue EXCEPT ![t] = Tail(@)]
  /\ node'  = [node EXCEPT ![t] = Head(queue[t])]
  /\ IF t = "mode" /\ Head(queue[t]) # node["mode"] THEN OnSwitch
                                                    ELSE UNCHANGED <<output, cmd>>
  /\ UNCHANGED <<running, rcAlive>>

(* _publish_twist, on the timer.                                           *)
Twist_Ungated(n) == IF \E s \in Sticks : n[s] THEN "move" ELSE "zero"
Twist(n) == IF ~n["estop"] /\ \E s \in Sticks : n[s] THEN "move" ELSE "zero"

TimerActive_Always == running
TimerActive        == running /\ node["mode"]

Timer ==
  /\ TimerActive
  /\ PublishTwist(Twist(node))
  /\ UNCHANGED <<queue, node, running, rcAlive>>

(* main: whatever ends the spin, a zero twist is the node's last word.     *)
Shutdown ==
  /\ running /\ running' = FALSE
  /\ PublishTwist("zero")
  /\ UNCHANGED <<queue, node, rcAlive>>

-----------------------------------------------------------------------------
Next ==
  \/ \E t \in Topic : Take(t) \/ \E v \in BOOLEAN : Send(t, v)
  \/ Timer \/ Shutdown \/ RcLinkChanges
  \/ \E twist \in {"zero", "move"} : NavCommands(twist)

Spec == Init /\ [][Next]_vars

(* The executor runs what is ready and its timer keeps firing.             *)
FairSpec == Spec /\ WF_vars(Timer) /\ \A t \in Topic : WF_vars(Take(t))

-----------------------------------------------------------------------------
TypeOK ==
  /\ queue \in [Topic -> Seq(BOOLEAN)] /\ \A t \in Topic : Len(queue[t]) <= Depth
  /\ node \in [Topic -> BOOLEAN]
  /\ running \in BOOLEAN /\ rcAlive \in BOOLEAN
  /\ output \in {"none", "zero", "move"}
  /\ cmd \in [by : {"rc", "nav"}, twist : {"zero", "move"}]

(* Handing over leaves nothing moving: in ROS mode, and after shutdown,    *)
(* the last twist this node published is zero, however the switch, the     *)
(* sticks and the timer interleave.                                        *)
HandsOverStopped == ~running \/ ~node["mode"] => output # "move"

(* In ROS mode the topic belongs to the navigation stack: this node takes  *)
(* it back only to switch to RC, at the moment it leaves RC, or to end.    *)
NavKeepsTopic ==
  [][cmd.by = "nav" /\ cmd'.by = "rc" => node["mode"] \/ node'["mode"] \/ ~running']_vars

(* What the node ends up commanding in RC mode is what the last samples    *)
(* sent to it say, E-Stop first, although samples are dropped when they    *)
(* come faster than the node takes them.                                   *)
LastSent(t) == IF queue[t] = <<>> THEN node[t] ELSE queue[t][Len(queue[t])]

FollowsLastSamples ==
  \A s \in [Topic -> BOOLEAN] : s["mode"] =>
    (<>[](running /\ \A t \in Topic : LastSent(t) = s[t])
       => <>[](output = IF s["estop"] \/ \A x \in Sticks : ~s[x] THEN "zero" ELSE "move"))

(* "A configurable-rate safety timer ensures continuous publishing in RC   *)
(* mode even if RC input stops (publishes zero velocity)"                  *)
(* (rc_teleop_node.py:14): when the RC input stops for good, so does the   *)
(* robot.  The timer repeats the last stick positions instead.             *)
SilenceStops == (<>[]~rcAlive) => []<>(output # "move")
=============================================================================
