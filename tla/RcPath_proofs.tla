---------------------------- MODULE RcPath_proofs ---------------------------
(***************************************************************************)
(* The RC teleop node hands over stopped, for any sticks and queue depth,  *)
(* whatever is sent to it; and so it does behind the RC board, where what  *)
(* it commands without a transmitter stays at rest once it is.             *)
(***************************************************************************)
EXTENDS RcPath, SequenceTheorems, TLAPS

HandoverInv ==
  /\ queue \in [Topic -> Seq(BOOLEAN)]
  /\ node \in [Topic -> BOOLEAN]
  /\ HandsOverStopped

LEMMA ReceiveType == ASSUME NEW q \in Seq(BOOLEAN), NEW v \in BOOLEAN
                     PROVE  Receive(q, v) \in Seq(BOOLEAN)
  <1>1. CASE Len(q) < Depth
    BY <1>1 DEF Receive
  <1>2. CASE ~(Len(q) < Depth)
    <2>1. q # <<>>
      BY <1>2, Assumption DEF Assumption
    <2>2. Tail(q) \in Seq(BOOLEAN)
      BY <2>1
    <2>3. QED
      BY <1>2, <2>2 DEF Receive
  <1>3. QED
    BY <1>1, <1>2

LEMMA HandoverInit == Init => HandoverInv
  BY DEF Init, HandoverInv, HandsOverStopped, Topic

LEMMA HandoverStep == HandoverInv /\ [Next]_vars => HandoverInv'
  <1> SUFFICES ASSUME HandoverInv, [Next]_vars PROVE HandoverInv'
    OBVIOUS
  <1> USE DEF HandoverInv, HandsOverStopped
  <1>1. CASE UNCHANGED vars
    BY <1>1 DEF vars
  <1>2. ASSUME NEW t \in Topic, Take(t) PROVE HandoverInv'
    <2>1. /\ Head(queue[t]) \in BOOLEAN /\ Tail(queue[t]) \in Seq(BOOLEAN)
      BY <1>2 DEF Take
    <2>2. queue' \in [Topic -> Seq(BOOLEAN)] /\ node' \in [Topic -> BOOLEAN]
      BY <1>2, <2>1 DEF Take
    <2>3. "mode" \in Topic /\ running' = running
      BY <1>2 DEF Take, Topic
    <2>4. CASE t = "mode" /\ Head(queue[t]) # node["mode"]
      BY <1>2, <2>2, <2>4 DEF Take, OnSwitch, PublishTwist
    <2>5. CASE t = "mode" /\ Head(queue[t]) = node["mode"]
      <3>1. node'["mode"] = node["mode"] /\ output' = output
        BY <1>2, <2>3, <2>5 DEF Take
      <3>2. QED
        BY <2>2, <2>3, <3>1
    <2>6. CASE t # "mode"
      <3>1. node'["mode"] = node["mode"] /\ output' = output
        BY <1>2, <2>3, <2>6 DEF Take
      <3>2. QED
        BY <2>2, <2>3, <3>1
    <2>7. QED
      BY <2>4, <2>5, <2>6
  <1>3. ASSUME NEW t \in Topic, NEW v \in BOOLEAN, Send(t, v) PROVE HandoverInv'
    <2>1. Receive(queue[t], v) \in Seq(BOOLEAN)
      BY ReceiveType
    <2>2. queue' \in [Topic -> Seq(BOOLEAN)]
      BY <1>3, <2>1 DEF Send
    <2>3. QED
      BY <1>3, <2>2 DEF Send
  <1>4. CASE Timer
    BY <1>4 DEF Timer, TimerActive
  <1>5. CASE Shutdown
    BY <1>5 DEF Shutdown, PublishTwist
  <1>6. CASE RcLinkChanges
    BY <1>6 DEF RcLinkChanges
  <1>7. ASSUME NEW twist \in {"zero", "move"}, NavCommands(twist) PROVE HandoverInv'
    BY <1>7 DEF NavCommands
  <1>8. QED
    BY <1>1, <1>2, <1>3, <1>4, <1>5, <1>6, <1>7 DEF Next

(* In ROS mode, and after shutdown, the last twist of the node is zero:    *)
(* true for any sticks, queue depth and interleaving of the callbacks.     *)
THEOREM StoppedHandover == Spec => []HandsOverStopped
  <1>1. HandoverInv => HandsOverStopped
    BY DEF HandoverInv
  <1>2. QED
    BY <1>1, HandoverInit, HandoverStep, PTL DEF Spec

LEMMA ReceiveRoom == ASSUME NEW q \in Seq(BOOLEAN), NEW v \in BOOLEAN, Len(q) <= Depth
                     PROVE  Len(Receive(q, v)) <= Depth
  <1>1. CASE Len(q) < Depth
    BY <1>1, Assumption DEF Receive, Assumption
  <1>2. CASE ~(Len(q) < Depth)
    <2>1. q # <<>>
      BY <1>2, Assumption DEF Assumption
    <2>2. /\ Tail(q) \in Seq(BOOLEAN) /\ Len(Tail(q)) = Len(q) - 1
      BY <2>1
    <2>3. Len(Append(Tail(q), v)) = Len(q)
      BY <2>2
    <2>4. QED
      BY <1>2, <2>3 DEF Receive
  <1>3. QED
    BY <1>1, <1>2

LEMMA TypeInit == Init => TypeOK
  <1> SUFFICES ASSUME Init PROVE TypeOK
    OBVIOUS
  <1>1. queue \in [Topic -> Seq(BOOLEAN)] /\ \A t \in Topic : Len(queue[t]) <= Depth
    BY Assumption DEF Init, Assumption
  <1>2. QED
    BY <1>1 DEF Init, TypeOK

LEMMA TypeStep == TypeOK /\ [Next]_vars => TypeOK'
  <1> SUFFICES ASSUME TypeOK, [Next]_vars PROVE TypeOK'
    OBVIOUS
  <1> USE DEF TypeOK
  <1>1. CASE UNCHANGED vars
    BY <1>1 DEF vars
  <1>2. ASSUME NEW t \in Topic, Take(t) PROVE TypeOK'
    <2>1. /\ queue[t] \in Seq(BOOLEAN) /\ queue[t] # <<>> /\ Head(queue[t]) \in BOOLEAN
          /\ Tail(queue[t]) \in Seq(BOOLEAN) /\ Len(Tail(queue[t])) = Len(queue[t]) - 1
      BY <1>2 DEF Take
    <2>2. queue' = [queue EXCEPT ![t] = Tail(@)]
      BY <1>2 DEF Take
    <2>3. queue' \in [Topic -> Seq(BOOLEAN)]
      BY <2>1, <2>2
    <2>4. \A u \in Topic : Len(queue'[u]) <= Depth
      <3>1. Len(queue[t]) <= Depth /\ Len(queue[t]) \in Nat /\ Depth \in Nat
        BY <2>1, Assumption DEF Assumption
      <3>2. Len(Tail(queue[t])) <= Depth
        BY <2>1, <3>1
      <3>3. QED
        BY <2>2, <3>2
    <2>5. node' \in [Topic -> BOOLEAN]
      BY <1>2, <2>1 DEF Take
    <2>6. /\ running' \in BOOLEAN /\ rcAlive' \in BOOLEAN
          /\ output' \in {"none", "zero", "move"}
          /\ cmd' \in [by : {"rc", "nav"}, twist : {"zero", "move"}]
      BY <1>2 DEF Take, OnSwitch, PublishTwist
    <2>7. QED
      BY <2>3, <2>4, <2>5, <2>6
  <1>3. ASSUME NEW t \in Topic, NEW v \in BOOLEAN, Send(t, v) PROVE TypeOK'
    <2>1. /\ Receive(queue[t], v) \in Seq(BOOLEAN)
          /\ Len(Receive(queue[t], v)) <= Depth
      BY ReceiveType, ReceiveRoom
    <2>2. queue' = [queue EXCEPT ![t] = Receive(@, v)]
      BY <1>3 DEF Send
    <2>3. queue' \in [Topic -> Seq(BOOLEAN)] /\ \A u \in Topic : Len(queue'[u]) <= Depth
      BY <2>1, <2>2
    <2>4. UNCHANGED <<node, running, rcAlive, output, cmd>>
      BY <1>3 DEF Send
    <2>5. QED
      BY <2>3, <2>4
  <1>4. CASE Timer
    BY <1>4 DEF Timer, Twist, PublishTwist
  <1>5. CASE Shutdown
    BY <1>5 DEF Shutdown, PublishTwist
  <1>6. CASE RcLinkChanges
    BY <1>6 DEF RcLinkChanges
  <1>7. ASSUME NEW twist \in {"zero", "move"}, NavCommands(twist) PROVE TypeOK'
    BY <1>7 DEF NavCommands
  <1>8. QED
    BY <1>1, <1>2, <1>3, <1>4, <1>5, <1>6, <1>7 DEF Next

(* Every variable keeps its type, and a subscription never holds more      *)
(* samples than its depth, however fast they come.                         *)
THEOREM TypeCorrect == Spec => []TypeOK
  BY TypeInit, TypeStep, PTL DEF Spec

(* In ROS mode the topic is the navigation stack's: the node publishes on  *)
(* it only in RC mode, in the step that leaves it, and at its end.         *)
THEOREM TopicIsNavs == Spec => NavKeepsTopic
  <1> DEFINE Keeps == cmd.by = "nav" /\ cmd'.by = "rc"
                        => node["mode"] \/ node'["mode"] \/ ~running'
  <1>1. TypeOK /\ [Next]_vars => [Keeps]_vars
    <2> SUFFICES ASSUME TypeOK, [Next]_vars, cmd.by = "nav", cmd'.by = "rc"
                 PROVE  node["mode"] \/ node'["mode"] \/ ~running'
      OBVIOUS
    <2> USE DEF TypeOK
    <2>1. CASE UNCHANGED vars
      BY <2>1 DEF vars
    <2>2. ASSUME NEW t \in Topic, Take(t) PROVE node["mode"] \/ node'["mode"]
      <3>1. t = "mode" /\ Head(queue[t]) # node["mode"]
        BY <2>2 DEF Take
      <3>2. Head(queue[t]) \in BOOLEAN /\ node["mode"] \in BOOLEAN
        BY <2>2, <3>1 DEF Take
      <3>3. node'["mode"] = Head(queue[t])
        BY <2>2, <3>1 DEF Take
      <3>4. QED
        BY <3>1, <3>2, <3>3
    <2>3. ASSUME NEW t \in Topic, NEW v \in BOOLEAN, Send(t, v) PROVE FALSE
      BY <2>3 DEF Send
    <2>4. CASE Timer
      BY <2>4 DEF Timer, TimerActive
    <2>5. CASE Shutdown
      BY <2>5 DEF Shutdown
    <2>6. CASE RcLinkChanges
      BY <2>6 DEF RcLinkChanges
    <2>7. ASSUME NEW twist \in {"zero", "move"}, NavCommands(twist) PROVE FALSE
      BY <2>7 DEF NavCommands
    <2>8. QED
      BY <2>1, <2>2, <2>3, <2>4, <2>5, <2>6, <2>7 DEF Next
  <1>2. QED
    BY <1>1, TypeInit, TypeStep, PTL DEF Spec, NavKeepsTopic

-----------------------------------------------------------------------------
(* The safety half of FollowsLastSamples.  What waits says what the node   *)
(* knows already, and its last twist in RC mode is the one that follows.   *)
Settled  == \A t \in Topic : \A n \in 1..Len(queue[t]) : queue[t][n] = node[t]
Followed == running /\ node["mode"] /\ Settled /\ output = Twist(node)

LEMMA NoneLeft == ASSUME NEW q \in Seq(BOOLEAN) PROVE Len(q) \in Nat /\ (q = <<>> <=> Len(q) = 0)
  BY EmptySeq

LEMMA NewestKept ==
  ASSUME NEW q \in Seq(BOOLEAN), NEW v \in BOOLEAN
  PROVE  /\ Receive(q, v) # <<>> /\ Receive(q, v)[Len(Receive(q, v))] = v
         /\ (\A n \in 1..Len(q) : q[n] = v)
              => \A n \in 1..Len(Receive(q, v)) : Receive(q, v)[n] = v
  <1>1. ASSUME NEW p \in Seq(BOOLEAN)
        PROVE  /\ Append(p, v) # <<>> /\ Len(Append(p, v)) = Len(p) + 1
               /\ Append(p, v)[Len(p) + 1] = v
               /\ \A n \in 1..Len(p) : Append(p, v)[n] = p[n]
    BY AppendProperties
  <1>2. CASE Len(q) < Depth
    BY <1>1, <1>2 DEF Receive
  <1>3. CASE ~(Len(q) < Depth)
    <2>1. q # <<>>
      BY <1>3, Assumption DEF Assumption
    <2>2. /\ Tail(q) \in Seq(BOOLEAN) /\ Len(Tail(q)) = Len(q) - 1
          /\ \A n \in 1..Len(q) - 1 : Tail(q)[n] = q[n + 1]
      BY <2>1, HeadTailProperties
    <2>3. Receive(q, v) = Append(Tail(q), v) /\ Len(q) \in Nat
      BY <1>3 DEF Receive
    <2> DEFINE p == Tail(q)
    <2>4. /\ Append(p, v) # <<>> /\ Len(Append(p, v)) = Len(q)
          /\ Append(p, v)[Len(q)] = v
          /\ \A n \in 1..Len(q) - 1 : Append(p, v)[n] = q[n + 1]
      <3>1. /\ Append(p, v) # <<>> /\ Len(Append(p, v)) = Len(p) + 1
            /\ Append(p, v)[Len(p) + 1] = v
            /\ \A n \in 1..Len(p) : Append(p, v)[n] = p[n]
        BY <1>1, <2>2
      <3> HIDE DEF p
      <3>2. QED
        BY <3>1, <2>2, <2>3 DEF p
    <2> HIDE DEF p
    <2>5. ASSUME \A n \in 1..Len(q) : q[n] = v, NEW n \in 1..Len(q)
          PROVE  Append(p, v)[n] = v
      BY <2>3, <2>4, <2>5
    <2>6. QED
      BY <2>3, <2>4, <2>5 DEF p
  <1>4. QED
    BY <1>2, <1>3, Assumption DEF Assumption

LEMMA TakeKeepsLast == ASSUME TypeOK, NEW t \in Topic, Take(t), NEW u \in Topic
                       PROVE  LastSent(u)' = LastSent(u)
  <1>1. CASE u # t
    BY <1>1 DEF Take, LastSent, TypeOK
  <1>2. CASE u = t
    <2> DEFINE q == queue[t]
    <2>1. q \in Seq(BOOLEAN) /\ q # <<>> /\ queue'[t] = Tail(q) /\ node'[t] = Head(q)
      BY DEF Take, TypeOK
    <2> HIDE DEF q
    <2>2. /\ Head(q) = q[1] /\ Len(q) \in Nat /\ Len(q) >= 1
          /\ Tail(q) \in Seq(BOOLEAN) /\ Len(Tail(q)) = Len(q) - 1
          /\ \A n \in 1..Len(q) - 1 : Tail(q)[n] = q[n + 1]
      <3>1. Len(q) \in Nat /\ Len(q) >= 1
        BY <2>1, NoneLeft
      <3>2. QED
        BY <2>1, <3>1, HeadTailProperties
    <2> DEFINE r == Tail(q)
    <2>9. Len(r) \in Nat /\ (r = <<>> <=> Len(r) = 0) /\ Len(r) = Len(q) - 1
          /\ \A n \in 1..Len(q) - 1 : r[n] = q[n + 1]
      <3>1. Len(r) \in Nat /\ (r = <<>> <=> Len(r) = 0)
        BY Zenon, <2>2, NoneLeft
      <3>2. QED
        BY <2>2, <3>1
    <2> HIDE DEF r
    <2>3. CASE Len(q) = 1
      <3>1. r = <<>>
        BY <2>9, <2>3
      <3>2. QED
        BY <1>2, <2>1, <2>2, <2>3, <3>1 DEF LastSent, q, r
    <2>4. CASE Len(q) > 1
      <3>1. r # <<>> /\ r[Len(r)] = q[Len(q)]
        BY <2>2, <2>4, <2>9
      <3>2. QED
        BY <1>2, <2>1, <3>1 DEF LastSent, q, r
    <2>5. QED
      BY <2>2, <2>3, <2>4
  <1>3. QED
    BY <1>1, <1>2

LEMMA SettledLast == ASSUME TypeOK, Settled, NEW t \in Topic PROVE LastSent(t) = node[t]
  <1>1. queue[t] \in Seq(BOOLEAN)
    BY DEF TypeOK
  <1>2. queue[t] # <<>> => Len(queue[t]) \in 1..Len(queue[t])
    BY <1>1, EmptySeq
  <1>3. QED
    BY <1>2 DEF LastSent, Settled

(* One sample more: it is the last one sent, although another was dropped. *)
LEMMA SendIsLast ==
  ASSUME TypeOK, NEW t \in Topic, NEW v \in BOOLEAN, Send(t, v)
  PROVE  /\ LastSent(t)' = v
         /\ \A u \in Topic \ {t} : LastSent(u)' = LastSent(u)
         /\ Followed /\ LastSent(t)' = LastSent(t) => Followed'
  <1>1. /\ queue' = [queue EXCEPT ![t] = Receive(queue[t], v)]
        /\ queue \in [Topic -> Seq(BOOLEAN)] /\ UNCHANGED <<node, running, output>>
    BY DEF Send, TypeOK
  <1>2. queue[t] \in Seq(BOOLEAN) /\ queue'[t] = Receive(queue[t], v)
    BY <1>1
  <1>3. LastSent(t)' = v
    BY <1>2, NewestKept DEF LastSent
  <1>4. \A u \in Topic \ {t} : queue'[u] = queue[u] /\ LastSent(u)' = LastSent(u)
    BY <1>1 DEF LastSent
  <1>5. ASSUME Followed, LastSent(t)' = LastSent(t) PROVE Followed'
    <2>1. v = node[t]
      BY <1>3, <1>5, SettledLast DEF Followed
    <2>2. \A n \in 1..Len(queue[t]) : queue[t][n] = node[t]
      BY <1>5 DEF Followed, Settled
    <2>3. \A n \in 1..Len(queue'[t]) : queue'[t][n] = node[t]
      <3>1. \A n \in 1..Len(queue[t]) : queue[t][n] = v
        BY <2>1, <2>2
      <3>2. \A n \in 1..Len(Receive(queue[t], v)) : Receive(queue[t], v)[n] = v
        BY <1>2, <3>1, NewestKept
      <3>3. QED
        BY <1>2, <2>1, <3>2
    <2>4. Settled'
      BY <1>1, <1>4, <1>5, <2>3 DEF Followed, Settled
    <2>5. QED
      BY <1>1, <1>5, <2>4 DEF Followed, Twist
  <1>6. QED
    BY <1>3, <1>4, <1>5

LEMMA TakeFollows == ASSUME TypeOK, Followed, NEW t \in Topic, Take(t) PROVE Followed'
  <1> DEFINE q == queue[t]
  <1>1. /\ q \in Seq(BOOLEAN) /\ q # <<>> /\ queue' = [queue EXCEPT ![t] = Tail(q)]
        /\ node' = [node EXCEPT ![t] = Head(q)] /\ running' = running
        /\ queue \in [Topic -> Seq(BOOLEAN)] /\ node \in [Topic -> BOOLEAN]
    BY DEF Take, TypeOK
  <1>2. /\ Head(q) = q[1] /\ Len(q) \in Nat /\ Len(q) >= 1 /\ Len(Tail(q)) = Len(q) - 1
        /\ \A n \in 1..Len(q) - 1 : Tail(q)[n] = q[n + 1]
    BY <1>1, HeadTailProperties, EmptySeq
  <1>3. \A n \in 1..Len(q) : q[n] = node[t]
    BY DEF Followed, Settled
  <1> HIDE DEF q
  <1>4. Head(q) = node[t] /\ \A n \in 1..Len(Tail(q)) : Tail(q)[n] = node[t]
    BY <1>2, <1>3
  <1>5. node' = node
    BY <1>1, <1>4
  <1>6. output' = output
    BY <1>4 DEF Take, q
  <1>7. Settled'
    BY <1>1, <1>4, <1>5 DEF Followed, Settled
  <1>8. QED
    BY <1>1, <1>5, <1>6, <1>7 DEF Followed, Twist

(* The four callbacks, the timer and the bounded subscriptions: only a     *)
(* newer sample replaces what was sent last, full queue or not, and while  *)
(* none says otherwise a node that follows it does so until it ends.       *)
THEOREM NewestIsFollowed ==
  Spec => [][/\ \A t \in Topic, v \in BOOLEAN : Send(t, v) => LastSent(t)' = v
             /\ \A t \in Topic : UNCHANGED LastSent(t) \/ \E v \in BOOLEAN : Send(t, v)
             /\ Followed /\ running' /\ (\A t \in Topic : UNCHANGED LastSent(t)) => Followed']_vars
  <1> DEFINE A == \A t \in Topic, v \in BOOLEAN : Send(t, v) => LastSent(t)' = v
             B == \A t \in Topic : UNCHANGED LastSent(t) \/ \E v \in BOOLEAN : Send(t, v)
             C == Followed /\ running' /\ (\A t \in Topic : UNCHANGED LastSent(t)) => Followed'
  <1>1. TypeOK /\ [Next]_vars => [A /\ B /\ C]_vars
    <2> SUFFICES ASSUME TypeOK, Next PROVE A /\ B /\ C
      OBVIOUS
    <2>1. A
      BY SendIsLast
    <2>2. ASSUME NEW t \in Topic, Take(t) PROVE B /\ C
      BY <2>2, TakeKeepsLast, TakeFollows
    <2>3. ASSUME NEW t \in Topic, NEW v \in BOOLEAN, Send(t, v) PROVE B /\ C
      BY <2>3, SendIsLast
    <2>4. ASSUME UNCHANGED <<queue, node>>, UNCHANGED <<running, output>> \/ output' = Twist(node) \/ ~running'
          PROVE  B /\ C
      <3>1. \A t \in Topic : LastSent(t)' = LastSent(t)
        BY <2>4 DEF LastSent
      <3>2. Settled' = Settled /\ Twist(node)' = Twist(node)
        BY <2>4 DEF Settled, Twist
      <3>3. Followed /\ running' => Followed'
        BY <2>4, <3>2 DEF Followed
      <3>4. QED
        BY <3>1, <3>3
    <2>5. CASE Timer \/ Shutdown
      <3>1. UNCHANGED <<queue, node>> /\ (output' = Twist(node) \/ ~running')
        BY <2>5 DEF Timer, PublishTwist, Shutdown
      <3> HIDE DEF A, B, C
      <3>2. QED
        BY <2>1, <2>4, <3>1
    <2>6. CASE RcLinkChanges \/ \E twist \in {"zero", "move"} : NavCommands(twist)
      <3>1. UNCHANGED <<queue, node>> /\ UNCHANGED <<running, output>>
        BY <2>6 DEF RcLinkChanges, NavCommands
      <3> HIDE DEF A, B, C
      <3>2. QED
        BY <2>1, <2>4, <3>1
    <2>7. QED
      BY <2>1, <2>2, <2>3, <2>4, <2>5, <2>6 DEF Next
  <1>2. QED
    BY <1>1, TypeInit, TypeStep, PTL DEF Spec

-----------------------------------------------------------------------------
(* The way from the stick.  What the RC board sends is among what RcTeleop *)
(* lets others send, and time and the transmitter leave the node alone.    *)
LEMMA PathInitial == PathInit => Init
  BY DEF PathInit

LEMMA PathStep == [PathNext]_path => [Next]_vars
  <1> SUFFICES ASSUME [PathNext]_path PROVE [Next]_vars
    OBVIOUS
  <1>1. CASE UNCHANGED path \/ TransmitterChanges \/ Pulse \/ Tick
    BY <1>1 DEF path, TransmitterChanges, Pulse, Tick
  <1>2. ASSUME NEW t \in Inputs, NEW v \in BOOLEAN, RcBoard(t, v) PROVE Next
    BY <1>2 DEF RcBoard, Inputs, Next
  <1>3. ASSUME NEW v \in BOOLEAN, Send("estop", v) PROVE Next
    <2>1. "estop" \in Topic
      BY DEF Topic
    <2>2. QED
      BY <1>3, <2>1 DEF Next
  <1>4. CASE Node
    BY <1>4 DEF Node, Next
  <1>5. CASE Others
    BY <1>5 DEF Others, Next
  <1>6. CASE EstopSends
    BY <1>3, <1>6 DEF EstopSends
  <1>7. CASE \E t \in Inputs : RcSends(t)
    BY <1>2, <1>7 DEF RcSends
  <1>8. QED
    BY <1>1, <1>4, <1>5, <1>6, <1>7 DEF PathNext

(* RcPath implements RcTeleop, so all of the above holds over the path.    *)
THEOREM PathIsTeleop == PathSpec => Spec
  BY PathInitial, PathStep, PTL DEF PathSpec, Spec

THEOREM PathHandsOverStopped == PathSpec => [](TypeOK /\ HandsOverStopped) /\ NavKeepsTopic
  BY PathIsTeleop, StoppedHandover, TypeCorrect, TopicIsNavs, PTL

(* No pulse for the failsafe time, and neither the node nor what is on its *)
(* way to it remembers another stick position than neutral.                *)
Neutral(q) == \A i \in 1..Len(q) : q[i] = FALSE
AtRest ==
  /\ ~onAir /\ quiet = Failsafe
  /\ \A t \in Inputs : node[t] = FALSE /\ Neutral(queue[t])

PathTypes == quiet \in 0..Failsafe

LEMMA NeutralTaken == ASSUME NEW q \in Seq(BOOLEAN), q # <<>>, Neutral(q)
                      PROVE  Head(q) = FALSE /\ Neutral(Tail(q))
  <1>1. Len(q) \in Nat /\ Len(q) >= 1 /\ Head(q) = q[1]
    BY EmptySeq
  <1>2. Len(Tail(q)) = Len(q) - 1 /\ \A i \in 1..Len(q) - 1 : Tail(q)[i] = q[i + 1]
    BY HeadTailProperties
  <1>3. ASSUME NEW i \in 1..Len(q) - 1 PROVE q[i + 1] = FALSE
    <2>1. i + 1 \in 1..Len(q)
      BY <1>1
    <2>2. QED
      BY <2>1 DEF Neutral
  <1>4. Neutral(Tail(q))
    <2> SUFFICES ASSUME NEW i \in 1..Len(Tail(q)) PROVE Tail(q)[i] = FALSE
      BY DEF Neutral
    <2>1. i \in 1..Len(q) - 1
      BY <1>2
    <2>2. QED
      BY <1>2, <1>3, <2>1
  <1>5. Head(q) = FALSE
    <2>1. 1 \in 1..Len(q)
      BY <1>1
    <2>2. q[1] = FALSE
      BY <2>1 DEF Neutral
    <2>3. QED
      BY <1>1, <2>2
  <1>6. QED
    BY <1>4, <1>5

LEMMA NeutralAppended == ASSUME NEW q \in Seq(BOOLEAN), Neutral(q)
                         PROVE  Neutral(Append(q, FALSE))
  <1>1. /\ Len(q) \in Nat /\ Len(Append(q, FALSE)) = Len(q) + 1
        /\ Append(q, FALSE)[Len(q) + 1] = FALSE
        /\ \A i \in 1..Len(q) : Append(q, FALSE)[i] = q[i]
    BY AppendProperties
  <1>2. QED
    BY <1>1 DEF Neutral

LEMMA NeutralReceived == ASSUME NEW q \in Seq(BOOLEAN), Neutral(q)
                         PROVE  Neutral(Receive(q, FALSE))
  <1>1. CASE Len(q) < Depth
    BY <1>1, NeutralAppended DEF Receive
  <1>2. CASE ~(Len(q) < Depth)
    <2>1. q # <<>>
      BY <1>2, Assumption DEF Assumption
    <2>2. Tail(q) \in Seq(BOOLEAN) /\ Neutral(Tail(q))
      BY <2>1, NeutralTaken, HeadTailProperties
    <2>3. QED
      BY <1>2, <2>2, NeutralAppended DEF Receive
  <1>3. QED
    BY <1>1, <1>2

LEMMA StaysAtRest ==
  TypeOK /\ PathTypes /\ AtRest /\ [PathNext]_path /\ ~onAir' => AtRest'
  <1> SUFFICES ASSUME TypeOK, PathTypes, AtRest, [PathNext]_path, ~onAir' PROVE AtRest'
    OBVIOUS
  <1>1. "estop" \notin Inputs /\ Inputs \subseteq Topic
    BY DEF Inputs
  <1>2. queue \in [Topic -> Seq(BOOLEAN)] /\ node \in [Topic -> BOOLEAN]
    BY DEF TypeOK
  <1>3. quiet = Failsafe /\ ~onAir /\ ~(quiet < Failsafe)
    BY FailsafeAssumption DEF AtRest, FailsafeAssumption
  <1>4. CASE UNCHANGED path \/ TransmitterChanges \/ Pulse \/ Tick
    BY <1>3, <1>4 DEF path, vars, TransmitterChanges, Pulse, Tick, AtRest
  <1>5. ASSUME NEW t \in Topic, NEW v \in BOOLEAN, Send(t, v), UNCHANGED <<onAir, quiet>>,
               t \in Inputs => v = FALSE
        PROVE  AtRest'
    <2>1. queue' = [queue EXCEPT ![t] = Receive(@, v)] /\ node' = node
      BY <1>5 DEF Send
    <2>2. ASSUME NEW u \in Inputs PROVE Neutral(queue'[u])
      <3>1. CASE u = t
        BY <1>2, <1>5, <2>1, <3>1, NeutralReceived DEF AtRest
      <3>2. CASE u # t
        <4>1. queue'[u] = queue[u]
          BY <1>1, <1>2, <2>1, <3>2
        <4>2. QED
          BY <4>1 DEF AtRest
      <3>3. QED
        BY <3>1, <3>2
    <2>3. QED
      BY <1>5, <2>1, <2>2 DEF AtRest
  <1>6. ASSUME NEW t \in Topic, Take(t), UNCHANGED <<onAir, quiet>> PROVE AtRest'
    <2>1. /\ queue[t] # <<>> /\ queue[t] \in Seq(BOOLEAN)
          /\ queue' = [queue EXCEPT ![t] = Tail(@)]
          /\ node' = [node EXCEPT ![t] = Head(queue[t])]
      BY <1>2, <1>6 DEF Take
    <2>2. ASSUME NEW u \in Inputs PROVE node'[u] = FALSE /\ Neutral(queue'[u])
      <3>1. CASE u = t
        <4>1. Head(queue[t]) = FALSE /\ Neutral(Tail(queue[t]))
          BY <2>1, <3>1, NeutralTaken DEF AtRest
        <4>2. QED
          BY <1>2, <2>1, <3>1, <4>1
      <3>2. CASE u # t
        <4>1. queue'[u] = queue[u] /\ node'[u] = node[u]
          BY <1>1, <1>2, <2>1, <3>2
        <4>2. QED
          BY <4>1 DEF AtRest
      <3>3. QED
        BY <3>1, <3>2
    <2>3. QED
      BY <1>6, <2>2 DEF AtRest
  <1>7. CASE EstopSends
    BY <1>1, <1>5, <1>7 DEF EstopSends, Topic
  <1>8. CASE \E t \in Inputs : RcSends(t)
    BY <1>1, <1>3, <1>5, <1>8 DEF RcSends, RcBoard
  <1>9. CASE Node
    <2>1. CASE Timer \/ Shutdown
      BY <1>9, <2>1 DEF Node, Timer, Shutdown, AtRest
    <2>2. QED
      BY <1>6, <1>9, <2>1 DEF Node
  <1>10. CASE Others
    BY <1>10 DEF Others, RcLinkChanges, NavCommands, AtRest
  <1>11. QED
    BY <1>4, <1>7, <1>8, <1>9, <1>10 DEF PathNext

LEMMA PathTypesStep == PathTypes /\ [PathNext]_path => PathTypes'
  BY FailsafeAssumption DEF FailsafeAssumption, PathTypes, path, PathNext, TransmitterChanges,
     Pulse, Tick, EstopSends, Node, Others, RcSends

(* The safety half of LostTransmitterStops: at rest the robot is not being *)
(* driven, and nothing in flight can end that before the transmitter does. *)
THEOREM RestIsKept ==
  PathSpec => /\ [](AtRest => output # "move")
              /\ [][AtRest /\ ~onAir' => AtRest']_path
  <1>1. HandsOverStopped => (AtRest => output # "move")
    <2>1. "mode" \in Inputs
      BY Assumption DEF Inputs, Topic
    <2>2. QED
      BY <2>1 DEF HandsOverStopped, AtRest
  <1>2. PathInit => PathTypes
    BY DEF PathInit, PathTypes
  <1>3. TypeOK /\ PathTypes /\ [PathNext]_path => [AtRest /\ ~onAir' => AtRest']_path
    BY StaysAtRest
  <1>4. QED
    BY PathHandsOverStopped, PathTypesStep, <1>1, <1>2, <1>3, PTL DEF PathSpec
=============================================================================
