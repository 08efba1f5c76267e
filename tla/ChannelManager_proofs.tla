----------------------- MODULE ChannelManager_proofs -----------------------
(***************************************************************************)
(* Proofs about ChannelManager, for every number and kind of channels and  *)
(* every period, debounce time and lag.                                    *)
(***************************************************************************)
EXTENDS ChannelManager, TLAPS

(* The value a channel publishes is one its topic can carry.               *)
LEMMA PublishedType ==
  ASSUME NEW c \in Channel, HasPub(c),
         states \in [Channel -> Params],
         NEW s \in [Pin -> BOOLEAN], NEW o \in [Channel -> BOOLEAN]
  PROVE  Published(c, s, o) \in Values(c)
  <1>1. CASE Kind[c] = "mode"
    <2>1. Reading(c, s, o) = IF s[<<c, 1>>] THEN 2 ELSE IF s[<<c, 2>>] THEN 1 ELSE 0
      BY <1>1 DEF Reading
    <2>2. Published(c, s, o) = Reading(c, s, o)
      BY <1>1 DEF Published
    <2>3. Reading(c, s, o) \in 0..2
      <3>1. CASE s[<<c, 1>>]
        BY <2>1, <3>1
      <3>2. CASE ~s[<<c, 1>>] /\ s[<<c, 2>>]
        BY <2>1, <3>2
      <3>3. CASE ~s[<<c, 1>>] /\ ~s[<<c, 2>>]
        BY <2>1, <3>3
      <3>4. QED
        BY <3>1, <3>2, <3>3
    <2>4. QED
      BY <1>1, <2>2, <2>3 DEF Values
  <1>2. CASE Kind[c] # "mode"
    <2>1. Reading(c, s, o) \in BOOLEAN
      <3>1. CASE Kind[c] = "estop"
        BY <3>1 DEF Reading
      <3>2. CASE Kind[c] = "okgo"
        BY <3>2 DEF Reading
      <3>3. CASE Kind[c] \notin {"estop", "okgo"}
        BY <1>2, <3>3 DEF Reading
      <3>4. QED
        BY <3>1, <3>2, <3>3
    <2>2. QED
      BY <1>2, <2>1 DEF Published, Values
  <1>3. QED
    BY <1>1, <1>2

LEMMA PinType == ASSUME NEW p \in Pin PROVE p[1] \in Channel
  BY DEF Pin

-----------------------------------------------------------------------------
(* A read only ever happens for a channel with a publisher.                *)
ReadsPublisher == at = "read" => i \in pubActive

TypeInv == TypeOK /\ ReadsPublisher

LEMMA TypeInit == Init => TypeInv
  BY Assumption DEF Init, TypeInv, TypeOK, ReadsPublisher, Params, SincePubCap

LEMMA TypeStep == TypeInv /\ [Next]_vars => TypeInv'
  <1> SUFFICES ASSUME TypeInv, [Next]_vars PROVE TypeInv'
    OBVIOUS
  <1> USE Assumption DEF TypeInv, TypeOK, ReadsPublisher
  <1>1. ASSUME NEW p \in Pin, PinChange(p) PROVE TypeInv'
    BY <1>1 DEF PinChange, session, main, wire
  <1>2. ASSUME NEW p \in Pin, Isr(p) PROVE TypeInv'
    <2>1. p[1] \in Channel
      BY PinType
    <2>2. irqPending' \in [Channel -> BOOLEAN] /\ owed' \in [Channel -> BOOLEAN]
      BY <1>2, <2>1 DEF Isr, Signalled
    <2>3. sinceIrq' \in [Pin -> 0..DebounceMs] /\ latched' \in [Pin -> BOOLEAN]
      BY <1>2 DEF Isr, Signalled
    <2>4. QED
      BY <1>2, <2>2, <2>3 DEF Isr, Signalled, session, main, wire
  <1>3. CASE Tick
    BY <1>3 DEF Tick, session, wire, SincePubCap
  <1>4. ASSUME NEW pub \in SUBSET PubCapable, NEW sub \in SUBSET SubCapable,
               NEW m \in 0..NumChannels, CreateEntities(pub, sub, m)
        PROVE  TypeInv'
    BY <1>4 DEF CreateEntities, Served, pins, wire, SincePubCap
  <1>5. CASE HandleIrqPending
    <2>1. CASE IrqDue(i)
      <3>1. irqPending' \in [Channel -> BOOLEAN]
        BY <1>5, <2>1 DEF HandleIrqPending
      <3>2. sincePub' \in [Channel -> 0..SincePubCap]
        BY <1>5, <2>1 DEF HandleIrqPending, SincePubCap
      <3>3. /\ at' = "read" /\ k' = 1 /\ ret' = "irq"
            /\ UNCHANGED <<i, pins, session, age, sample, wire, owed>>
        BY <1>5, <2>1 DEF HandleIrqPending
      <3>4. i \in pubActive
        BY <2>1 DEF IrqDue
      <3>5. QED
        BY <3>1, <3>2, <3>3, <3>4 DEF pins, session, wire
    <2>2. CASE ~IrqDue(i)
      <3>1. i' \in 1..(NumChannels + 1)
        BY <1>5, <2>2 DEF HandleIrqPending
      <3>2. UNCHANGED <<irqPending, sincePub, at, k, ret, pins, session, age, sample, wire, owed>>
        BY <1>5, <2>2 DEF HandleIrqPending
      <3>3. at' # "read"
        BY <1>5, <3>2 DEF HandleIrqPending
      <3>4. QED
        BY <3>1, <3>2, <3>3 DEF pins, session, wire
    <2>3. QED
      BY <2>1, <2>2
  <1>6. CASE PeriodicPublish
    <2> DEFINE Publishes == i \in pubActive /\ states[i].enabled /\ Due(i)
    <2>1. CASE Publishes
      <3>1. sincePub' \in [Channel -> 0..SincePubCap]
        BY <1>6, <2>1 DEF PeriodicPublish, SincePubCap
      <3>2. /\ at' = "read" /\ k' = 1 /\ ret' = "pub"
            /\ UNCHANGED <<i, irqPending, pins, session, age, sample, wire, owed>>
        BY <1>6, <2>1 DEF PeriodicPublish
      <3>3. QED
        BY <2>1, <3>1, <3>2 DEF pins, session, wire
    <2>2. CASE ~Publishes
      <3>1. i' \in 1..(NumChannels + 1) /\ at' # "read"
        BY <1>6, <2>2 DEF PeriodicPublish
      <3>2. UNCHANGED <<irqPending, sincePub, at, k, ret, pins, session, age, sample, wire, owed>>
        BY <1>6, <2>2 DEF PeriodicPublish
      <3>3. QED
        BY <3>1, <3>2 DEF pins, session, wire
    <2>3. QED
      BY <2>1, <2>2
  <1>7. CASE ReadPin
    BY <1>7 DEF ReadPin, pins, session, wire, NumPins, Channel, Pin, PubCapable
  <1>8. ASSUME NEW d \in BOOLEAN, Publish(d) PROVE TypeInv'
    <2>1. i \in Channel /\ HasPub(i)
      BY <1>8 DEF Publish, PubCapable
    <2>2. Published(i, sample, out) \in Values(i)
      BY <2>1, PublishedType
    <2>3. QED
      BY <1>8, <2>1, <2>2 DEF Publish, pins, session, Channel
  <1>9. CASE Spin
    <2>1. ASSUME NEW c \in Channel, inbox[c] # None PROVE Written(c) \in BOOLEAN
      <3>1. inbox[c] \in BOOLEAN
        BY <2>1
      <3>2. QED
        BY <3>1 DEF Written
    <2>2. out' \in [Channel -> BOOLEAN]
      BY <1>9, <2>1 DEF Spin
    <2>3. inbox' \in [Channel -> BOOLEAN \cup {None}]
      BY <1>9 DEF Spin
    <2>4. QED
      BY <1>9, <2>2, <2>3 DEF Spin, pins, session
  <1>10. CASE PassEnds
    BY <1>10 DEF PassEnds, pins, session, wire
  <1>11. CASE NextPass
    BY <1>11 DEF NextPass, pins, session, wire
  <1>12. CASE DestroyEntities
    BY <1>12 DEF DestroyEntities, pins
  <1>13. ASSUME NEW c \in Channel, NEW v \in BOOLEAN, HostSend(c, v) PROVE TypeInv'
    BY <1>13 DEF HostSend, pins, session, main
  <1>14. CASE UNCHANGED vars
    BY <1>14 DEF vars, pins, session, main, wire
  <1>15. QED
    BY <1>1, <1>2, <1>3, <1>4, <1>5, <1>6, <1>7, <1>8, <1>9, <1>10, <1>11,
       <1>12, <1>13, <1>14 DEF Next, Step

(* The channel manager's state keeps its types.                            *)
THEOREM TypeCorrect == Spec => []TypeOK
  <1>1. TypeInv => TypeOK
    BY DEF TypeInv
  <1>2. QED
    BY <1>1, TypeInit, TypeStep, PTL DEF Spec

-----------------------------------------------------------------------------
(* NoAcceptedEdgeLost alone is not inductive: a channel that reads no pin  *)
(* publishes without sampling, so an edge owed there would never be        *)
(* discharged.  Only channels with pins can owe one.                       *)
OwedHasPin == \A c \in Channel : owed[c] => NumPins(c) >= 1

LEMMA OwedHasPinStep == TypeInv /\ OwedHasPin /\ [Next]_vars => OwedHasPin'
  <1> SUFFICES ASSUME TypeInv, OwedHasPin, [Next]_vars, NEW c \in Channel, owed'[c]
               PROVE  NumPins(c) >= 1
    BY DEF OwedHasPin, NumPins
  <1>1. CASE owed[c]
    BY <1>1 DEF OwedHasPin
  <1>2. CASE ~owed[c]
    <2>1. PICK p \in Pin : Isr(p) /\ p[1] = c
      <3>1. \E p \in Pin : Isr(p)
        BY <1>2 DEF TypeInv, TypeOK, Next, Step, vars, PinChange, Tick, CreateEntities,
           HandleIrqPending, PeriodicPublish, ReadPin, Spin, PassEnds, Publish,
           NextPass, DestroyEntities, HostSend
      <3>2. QED
        BY <1>2, <3>1, PinType DEF Isr, Signalled, TypeInv, TypeOK
    <2>2. p[2] \in 1..2 /\ p[2] <= NumPins(c) /\ NumPins(c) \in Nat
      BY <2>1 DEF Pin, NumPins
    <2>3. QED
      BY <2>2
  <1>3. QED
    BY <1>1, <1>2

(* The bit is cleared one step before the read it announces, and only a    *)
(* read's first sample discharges the edge.                                *)
LEMMA EdgeStep ==
  TypeInv /\ OwedHasPin /\ NoAcceptedEdgeLost /\ [Next]_vars => NoAcceptedEdgeLost'
  <1> SUFFICES ASSUME TypeInv, OwedHasPin, NoAcceptedEdgeLost, [Next]_vars,
                      NEW c \in Channel, owed'[c]
               PROVE  irqPending'[c] \/ ReadIsNext(c)'
    BY DEF NoAcceptedEdgeLost
  <1> USE DEF TypeInv, TypeOK, ReadIsNext
  <1>0. owed[c] => irqPending[c] \/ ReadIsNext(c)
    BY DEF NoAcceptedEdgeLost
  <1>1. ASSUME NEW p \in Pin, PinChange(p) PROVE irqPending'[c] \/ ReadIsNext(c)'
    BY <1>0, <1>1 DEF PinChange, main
  <1>2. ASSUME NEW p \in Pin, Isr(p) PROVE irqPending'[c] \/ ReadIsNext(c)'
    <2>1. CASE Accepted(p) /\ p[1] = c
      BY <1>2, <2>1 DEF Isr, Signalled
    <2>2. CASE Accepted(p) /\ p[1] # c
      <3>1. owed[c] /\ irqPending'[c] = irqPending[c]
        BY <1>2, <2>2, PinType DEF Isr, Signalled
      <3>2. QED
        BY <1>0, <1>2, <3>1 DEF Isr, Signalled, main
    <2>3. CASE ~Accepted(p)
      BY <1>0, <1>2, <2>3 DEF Isr, Signalled, main
    <2>4. QED
      BY <2>1, <2>2, <2>3
  <1>3. CASE Tick
    BY <1>0, <1>3 DEF Tick
  <1>4. ASSUME NEW pub \in SUBSET PubCapable, NEW sub \in SUBSET SubCapable,
               NEW m \in 0..NumChannels, CreateEntities(pub, sub, m)
        PROVE  irqPending'[c] \/ ReadIsNext(c)'
    BY <1>0, <1>4 DEF CreateEntities
  <1>5. CASE HandleIrqPending
    <2>1. owed[c] /\ irqPending[c]
      BY <1>0, <1>5 DEF HandleIrqPending, IrqDue
    <2>2. CASE i = c /\ i \in pubActive /\ IrqCapable(i)
      BY <1>5, <2>1, <2>2 DEF HandleIrqPending, IrqDue
    <2>3. CASE ~(i = c /\ i \in pubActive /\ IrqCapable(i))
      BY <1>5, <2>1, <2>3 DEF HandleIrqPending, IrqDue
    <2>4. QED
      BY <2>2, <2>3
  <1>6. CASE PeriodicPublish
    BY <1>0, <1>6 DEF PeriodicPublish
  <1>7. CASE ReadPin
    <2>1. owed[c] /\ ~(i = c /\ k = 1)
      BY <1>7 DEF ReadPin
    <2>2. QED
      BY <1>0, <1>7, <2>1 DEF ReadPin
  <1>8. ASSUME NEW d \in BOOLEAN, Publish(d) PROVE irqPending'[c] \/ ReadIsNext(c)'
    <2>1. owed[c] /\ irqPending' = irqPending /\ at = "read" /\ k > NumPins(i)
      BY <1>8 DEF Publish
    <2>2. ~(k = 1 /\ i = c)
      BY <2>1 DEF OwedHasPin, NumPins
    <2>3. QED
      BY <1>0, <2>1, <2>2
  <1>9. CASE Spin
    BY <1>0, <1>9 DEF Spin
  <1>10. CASE PassEnds
    BY <1>0, <1>10 DEF PassEnds
  <1>11. CASE NextPass
    BY <1>0, <1>11 DEF NextPass
  <1>12. CASE DestroyEntities
    BY <1>0, <1>12 DEF DestroyEntities
  <1>13. ASSUME NEW e \in Channel, NEW v \in BOOLEAN, HostSend(e, v)
         PROVE  irqPending'[c] \/ ReadIsNext(c)'
    BY <1>0, <1>13 DEF HostSend, main
  <1>14. CASE UNCHANGED vars
    BY <1>0, <1>14 DEF vars, main
  <1>15. QED
    BY <1>1, <1>2, <1>3, <1>4, <1>5, <1>6, <1>7, <1>8, <1>9, <1>10, <1>11,
       <1>12, <1>13, <1>14 DEF Next, Step

(* No accepted edge is lost, whatever the interleaving of handlers, passes *)
(* and sessions.                                                           *)
THEOREM EdgesKept == Spec => []NoAcceptedEdgeLost
  <1>1. Init => NoAcceptedEdgeLost /\ OwedHasPin
    BY DEF Init, NoAcceptedEdgeLost, OwedHasPin
  <1>2. QED
    BY <1>1, TypeInit, TypeStep, OwedHasPinStep, EdgeStep, PTL DEF Spec

-----------------------------------------------------------------------------
(* HeartbeatGap is not inductive: what may have elapsed by the end of a    *)
(* half pass depends on where in the loop the thread is.  Measured against *)
(* the "now" of the half pass, a channel is within its period once the     *)
(* publish loop has visited it, within one more lag during the interrupt   *)
(* half, and within two until the publish loop gets to it.                 *)
InIrqHalf == at = "irq" \/ (at = "read" /\ ret = "irq")
Ahead(c)  == \/ at = "pub" /\ i <= c
             \/ at = "read" /\ ret = "pub" /\ i < c
Slack(c)  == IF InIrqHalf THEN MaxLag ELSE IF Ahead(c) THEN 2 * MaxLag ELSE 0

GapBound(c) == at # "down" /\ states[c].enabled =>
                 sincePub[c] - age < states[c].period_ms + Slack(c)
GapInv == \A c \in pubActive : GapBound(c)

LEMMA GapIsEnough == TypeInv /\ GapInv => HeartbeatGap
  BY Assumption DEF TypeInv, TypeOK, Params, GapInv, GapBound, HeartbeatGap, Slack,
     PubCapable

(* What the arithmetic below needs to know of one channel.                 *)
LEMMA Ranges ==
  ASSUME TypeInv, NEW c \in pubActive
  PROVE  /\ c \in Channel /\ c \in Int /\ i \in Int
         /\ sincePub[c] \in Int /\ age \in Nat /\ age <= MaxLag /\ MaxLag \in Nat \ {0}
         /\ states[c].period_ms \in Nat \ {0} /\ Slack(c) \in Nat
  BY Assumption DEF TypeInv, TypeOK, Params, PubCapable, Slack, Channel

LEMMA GapStep == TypeInv /\ GapInv /\ [Next]_vars => GapInv'
  <1> SUFFICES ASSUME TypeInv, GapInv, [Next]_vars, NEW c \in pubActive'
               PROVE  GapBound(c)'
    BY DEF GapInv
  <1> USE DEF GapBound, Slack, InIrqHalf, Ahead
  <1>1. ASSUME c \in pubActive, GapBound(c), UNCHANGED <<states, sincePub, age, at, i, ret>>
        PROVE  GapBound(c)'
    BY <1>1
  <1>2. ASSUME NEW pub \in SUBSET PubCapable, NEW sub \in SUBSET SubCapable,
               NEW m \in 0..NumChannels, CreateEntities(pub, sub, m)
        PROVE  GapBound(c)'
    <2>1. sincePub'[c] = 0 /\ age' = 0 /\ at' = "irq" /\ states' = states
      BY <1>2 DEF CreateEntities, TypeInv, TypeOK, PubCapable
    <2>2. states[c].period_ms \in Nat \ {0}
      BY <1>2, Assumption DEF CreateEntities, TypeInv, TypeOK, Params, PubCapable
    <2>3. QED
      BY <2>1, <2>2, Assumption
  <1>3. ASSUME NEW p \in Pin, PinChange(p) \/ Isr(p) PROVE GapBound(c)'
    BY <1>1, <1>3 DEF PinChange, Isr, Signalled, session, main, GapInv
  <1>4. ASSUME NEW e \in Channel, NEW v \in BOOLEAN, HostSend(e, v) PROVE GapBound(c)'
    BY <1>1, <1>4 DEF HostSend, session, main, GapInv
  <1>5. CASE UNCHANGED vars
    BY <1>1, <1>5 DEF vars, session, main, GapInv
  <1>6. CASE DestroyEntities
    BY <1>6 DEF DestroyEntities
  <1>7. CASE Tick
    <2>1. c \in pubActive
      BY <1>7 DEF Tick, session
    <2>2. sincePub'[c] <= sincePub[c] + 1 /\ sincePub'[c] \in Int
      BY <1>7, <2>1, Ranges, Assumption DEF Tick, SincePubCap
    <2>3. at # "down" => age' = age + 1
      BY <1>7 DEF Tick
    <2>4. states' = states /\ at' = at /\ i' = i /\ ret' = ret
      BY <1>7 DEF Tick, session
    <2>5. GapBound(c)
      BY <2>1 DEF GapInv
    <2>6. QED
      BY <2>1, <2>2, <2>3, <2>4, <2>5, Ranges
  <1>8. CASE HandleIrqPending
    <2>1. c \in pubActive /\ GapBound(c) /\ states' = states /\ age' = age /\ InIrqHalf
      BY <1>8 DEF HandleIrqPending, IrqDue, session, GapInv
    <2>2. sincePub'[c] = sincePub[c] \/ sincePub'[c] = age
      BY <1>8, <2>1, Ranges DEF HandleIrqPending, IrqDue, TypeInv, TypeOK
    <2>3. InIrqHalf'
      BY <1>8 DEF HandleIrqPending, IrqDue
    <2>4. QED
      BY <2>1, <2>2, <2>3, Ranges, Assumption
  <1>9. CASE PeriodicPublish
    <2>1. c \in pubActive /\ GapBound(c) /\ states' = states /\ age' = age /\ at = "pub"
      BY <1>9 DEF PeriodicPublish, session, GapInv
    <2>2. CASE i \in pubActive /\ states[i].enabled /\ Due(i)
      <3>1. at' = "read" /\ ret' = "pub" /\ i' = i
        BY <1>9, <2>2 DEF PeriodicPublish
      <3>2. CASE c = i
        BY <1>9, <2>1, <2>2, <3>1, <3>2, Ranges, Assumption DEF PeriodicPublish, TypeInv, TypeOK
      <3>3. CASE c # i
        <4>1. sincePub'[c] = sincePub[c]
          BY <1>9, <2>1, <2>2, <3>3, Ranges DEF PeriodicPublish, TypeInv, TypeOK
        <4>2. Slack(c)' = Slack(c)
          BY <2>1, <3>1, <3>3, Ranges
        <4>3. QED
          BY <2>1, <4>1, <4>2
      <3>4. QED
        BY <3>2, <3>3
    <2>3. CASE ~(i \in pubActive /\ states[i].enabled /\ Due(i))
      <3>1. at' = "pub" /\ i' = i + 1 /\ sincePub' = sincePub
        BY <1>9, <2>1, <2>3 DEF PeriodicPublish
      <3>2. CASE c = i
        BY <2>1, <2>3, <3>1, <3>2, Ranges, Assumption DEF Due
      <3>3. CASE c # i
        <4>1. Slack(c)' = Slack(c)
          BY <2>1, <3>1, <3>3, Ranges
        <4>2. QED
          BY <2>1, <3>1, <4>1
      <3>4. QED
        BY <3>2, <3>3
    <2>4. QED
      BY <2>2, <2>3
  <1>10. CASE ReadPin
    BY <1>1, <1>10 DEF ReadPin, session, GapInv
  <1>11. ASSUME NEW d \in BOOLEAN, Publish(d) PROVE GapBound(c)'
    <2>1. c \in pubActive /\ GapBound(c) /\ states' = states /\ age' = age
          /\ sincePub' = sincePub /\ at = "read" /\ at' = ret /\ i' = i + 1 /\ ret' = ret
      BY <1>11 DEF Publish, session, GapInv
    <2>2. ret = "irq" \/ ret = "pub"
      BY DEF TypeInv, TypeOK
    <2>3. Slack(c)' = Slack(c)
      BY <2>1, <2>2, Ranges
    <2>4. QED
      BY <2>1, <2>3
  <1>12. CASE Spin
    <2>1. c \in pubActive /\ GapBound(c) /\ states' = states /\ sincePub' = sincePub
          /\ at = "irq" /\ at' = "pub" /\ i' = 1 /\ age' = 0
      BY <1>12 DEF Spin, session, GapInv
    <2>2. i' <= c
      BY <2>1, Ranges DEF Channel
    <2>3. QED
      BY <2>1, <2>2, Ranges
  <1>13. CASE PassEnds
    <2>1. c \in pubActive /\ GapBound(c) /\ states' = states /\ sincePub' = sincePub
          /\ at = "pub" /\ at' = "ping" /\ i > NumChannels /\ age' = age
      BY <1>13 DEF PassEnds, session, GapInv
    <2>2. ~(i <= c)
      BY <2>1, Ranges, Assumption DEF Channel
    <2>3. QED
      BY <2>1, <2>2
  <1>14. CASE NextPass
    <2>1. c \in pubActive /\ GapBound(c) /\ states' = states /\ sincePub' = sincePub
          /\ at = "ping" /\ at' = "irq" /\ age' = 0
      BY <1>14 DEF NextPass, session, GapInv
    <2>2. QED
      BY <2>1, Ranges
  <1>15. QED
    BY <1>2, <1>3, <1>4, <1>5, <1>6, <1>7, <1>8, <1>9, <1>10, <1>11, <1>12, <1>13, <1>14
    DEF Next, Step

(* The heartbeat gap holds for every period, lag and number of channels.   *)
THEOREM HeartbeatBounded == Spec => []HeartbeatGap
  <1>1. Init => GapInv
    BY DEF Init, GapInv
  <1>2. QED
    BY <1>1, TypeInit, TypeStep, GapStep, GapIsEnough, PTL DEF Spec

-----------------------------------------------------------------------------
(* The estop topic refines SampledTopic.  A read is one sample followed by *)
(* one publish, and nothing the publish depends on changes in between.     *)
HasEstop == \E c \in Channel : Kind[c] = "estop"

Input == Published(Estop, level, out)
Taken == IF at = "read" /\ i = Estop /\ k > 1 THEN Published(Estop, sample, out) ELSE None

LEMMA EstopFacts ==
  ASSUME HasEstop, TypeInv
  PROVE  /\ Estop \in Channel /\ Kind[Estop] = "estop" /\ NumPins(Estop) = 1
         /\ <<Estop, 1>> \in Pin /\ Published(Estop, sample, out) # None
  <1>1. Estop \in Channel /\ Kind[Estop] = "estop"
    BY DEF HasEstop, Estop
  <1>2. NumPins(Estop) = 1
    BY <1>1 DEF NumPins
  <1>3. Published(Estop, sample, out) \in Values(Estop)
    BY <1>1, PublishedType DEF TypeInv, TypeOK, HasPub
  <1>4. Published(Estop, sample, out) # None
    BY <1>1, <1>3, Assumption DEF Values
  <1>5. QED
    BY <1>1, <1>2, <1>4 DEF Pin

(* Steps that leave alone what the topic is made of are Change steps.      *)
LEMMA TopicChange ==
  ASSUME Taken' = Taken, UNCHANGED host
  PROVE  EstopTopic!TopicNext
  BY DEF EstopTopic!TopicNext, EstopTopic!Change, Taken

LEMMA EstopStep ==
  ASSUME HasEstop, TypeInv, [Next]_vars
  PROVE  [EstopTopic!TopicNext]_(EstopTopic!TopicVars)
  <1> USE EstopFacts DEF TypeInv, TypeOK
  <1>1. CASE at # "read" /\ (at' # "read" \/ k' = 1) /\ UNCHANGED host
    BY <1>1, TopicChange DEF Taken
  <1>2. CASE UNCHANGED <<at, i, k, sample, out, states, host>>
    BY <1>2, TopicChange DEF Taken, Published, Reading
  <1>3. CASE ReadPin /\ i = Estop
    <2>1. UNCHANGED <<host, out, states, level, at, i>> /\ at = "read" /\ k = 1 /\ k' = 2
      BY <1>3 DEF ReadPin, wire, session, pins
    <2>2. sample'[<<Estop, 1>>] = level[<<Estop, 1>>]
      BY <1>3, <2>1 DEF ReadPin
    <2>3. Reading(Estop, sample, out)' = Reading(Estop, level, out)
      BY <2>1, <2>2 DEF Reading
    <2>4. Published(Estop, sample, out)' = Input /\ Input' = Input
      BY <2>1, <2>3 DEF Published, Input, Reading
    <2>5. Taken = None /\ Taken' = Input
      BY <1>3, <2>1, <2>4 DEF Taken
    <2>6. QED
      BY <2>1, <2>4, <2>5 DEF EstopTopic!TopicNext, EstopTopic!Sample, Taken, Input
  <1>4. CASE ReadPin /\ i # Estop
    BY <1>4, TopicChange DEF ReadPin, wire, Taken
  <1>5. ASSUME NEW d \in BOOLEAN, Publish(d) PROVE EstopTopic!TopicNext
    <2>1. UNCHANGED <<level, sample, out, states>> /\ at = "read" /\ at' # "read"
      BY <1>5 DEF Publish, session, pins
    <2>2. CASE i = Estop
      <3>1. Taken = Published(Estop, sample, out) /\ Taken' = None /\ Input' = Input
        BY <1>5, <2>1, <2>2 DEF Publish, Taken, Input, Published, Reading
      <3>2. host'[Estop] = Taken \/ host'[Estop] = host[Estop]
        BY <1>5, <2>2, <3>1 DEF Publish
      <3>3. QED
        BY <3>1, <3>2 DEF EstopTopic!TopicNext, EstopTopic!Deliver, EstopTopic!Lose,
           Taken, Input
    <2>3. CASE i # Estop
      <3>1. Taken' = Taken /\ host'[Estop] = host[Estop]
        BY <1>5, <2>1, <2>3 DEF Publish, Taken
      <3>2. QED
        BY <3>1 DEF EstopTopic!TopicNext, EstopTopic!Change, Taken
    <2>4. QED
      BY <2>2, <2>3
  <1>6. CASE \E p \in Pin : PinChange(p) \/ Isr(p)
    BY <1>2, <1>6 DEF PinChange, Isr, Signalled, main, wire, session
  <1>7. CASE Tick
    BY <1>2, <1>7 DEF Tick, wire, session
  <1>8. CASE \E c \in Channel, v \in BOOLEAN : HostSend(c, v)
    BY <1>2, <1>8 DEF HostSend, main, session
  <1>9. CASE \E pub \in SUBSET PubCapable, sub \in SUBSET SubCapable, m \in 0..NumChannels :
               CreateEntities(pub, sub, m)
    BY <1>1, <1>9 DEF CreateEntities, wire
  <1>10. CASE HandleIrqPending
    BY <1>1, <1>10 DEF HandleIrqPending, IrqDue, wire
  <1>11. CASE PeriodicPublish
    BY <1>1, <1>11 DEF PeriodicPublish, wire
  <1>12. CASE Spin \/ PassEnds \/ NextPass \/ DestroyEntities
    BY <1>1, <1>12 DEF Spin, PassEnds, NextPass, DestroyEntities, wire
  <1>13. CASE UNCHANGED vars
    BY <1>2, <1>13 DEF vars, main, wire, session
  <1>14. QED
    BY <1>3, <1>4, <1>5, <1>6, <1>7, <1>8, <1>9, <1>10, <1>11, <1>12, <1>13
    DEF Next, Step

(* The channel manager implements SampledTopic for the estop channel.      *)
THEOREM EstopRefines ==
  ASSUME HasEstop PROVE Spec => EstopIsSampled
  <1>1. Init => EstopTopic!TopicInit
    BY DEF Init, EstopTopic!TopicInit, HasEstop, Estop
  <1>2. TypeInv /\ [Next]_vars => [EstopTopic!TopicNext]_(EstopTopic!TopicVars)
    BY EstopStep
  <1>3. QED
    BY <1>1, <1>2, TypeInit, TypeStep, PTL
    DEF Spec, EstopIsSampled, EstopTopic!TopicSpec

-----------------------------------------------------------------------------
(* The safety half of HostConverges.  Once level and outputs are settled a *)
(* read in progress is in step with them when it has sampled, of the pins  *)
(* it needs, nothing but their present level; a read that starts later is. *)
InStep(c) ==
  at = "read" /\ i = c =>
    \/ \A n \in 1..NumPins(c) : n < k => sample[<<c, n>>] = level[<<c, n>>]
    \/ Kind[c] = "okgo" /\ ~sample[<<c, 1>>] /\ ~level[<<c, 1>>]

(* The value is right already, or a publish makes it right.                *)
Repairs(c) ==
  host'[c] # host[c] \/ host[c] = Published(c, level, out) => host'[c] = Published(c, level, out)'

LEMMA SettledRead ==
  ASSUME TypeInv, NEW c \in Channel, InStep(c), at = "read", i = c, k > NumPins(c)
  PROVE  Published(c, sample, out) = Published(c, level, out)
  <1>1. CASE Kind[c] = "okgo" /\ ~sample[<<c, 1>>] /\ ~level[<<c, 1>>]
    <2>1. Reading(c, sample, out) = Reading(c, level, out)
      BY <1>1 DEF Reading
    <2>2. QED
      BY <2>1 DEF Published
  <1>2. CASE \A n \in 1..NumPins(c) : sample[<<c, n>>] = level[<<c, n>>]
    <2>1. Kind[c] = "estop" => sample[<<c, 1>>] = level[<<c, 1>>]
      BY <1>2 DEF NumPins
    <2>2. Kind[c] \in {"mode", "okgo"} => /\ sample[<<c, 1>>] = level[<<c, 1>>]
                                          /\ sample[<<c, 2>>] = level[<<c, 2>>]
      BY <1>2 DEF NumPins
    <2>3. Reading(c, sample, out) = Reading(c, level, out)
      BY <2>1, <2>2 DEF Reading
    <2>4. QED
      BY <2>3 DEF Published
  <1>3. ASSUME NEW n \in 1..NumPins(c) PROVE n < k
    BY DEF TypeInv, TypeOK, NumPins
  <1>4. QED
    BY <1>1, <1>2, <1>3 DEF InStep

(* Steps that leave alone the read, its channel's pins and the host.       *)
LEMMA ReadUntouched ==
  ASSUME NEW c \in Channel, InStep(c), UNCHANGED <<level, out, states, host>>,
         \/ UNCHANGED <<at, i, k, sample>>
         \/ at' # "read"
         \/ at' = "read" /\ k' = 1
  PROVE  InStep(c)' /\ Repairs(c)
  <1>1. Published(c, level, out)' = Published(c, level, out)
    BY DEF Published, Reading
  <1>2. Repairs(c)
    BY <1>1 DEF Repairs
  <1>3. NumPins(c) \in Nat
    BY DEF NumPins
  <1>4. InStep(c)'
    BY <1>3 DEF InStep, NumPins
  <1>5. QED
    BY <1>2, <1>4

LEMMA SettledStep ==
  ASSUME TypeInv, [Next]_vars, UNCHANGED <<level, out>>, NEW c \in Channel, InStep(c)
  PROVE  InStep(c)' /\ Repairs(c)
  <1>1. CASE UNCHANGED vars \/ Tick \/ \E d \in Channel, v \in BOOLEAN : HostSend(d, v)
    BY <1>1, ReadUntouched DEF vars, Tick, HostSend, session, main, wire
  <1>2. CASE \E p \in Pin : PinChange(p) \/ Isr(p)
    BY <1>2, ReadUntouched DEF PinChange, Isr, session, main, wire
  <1>3. CASE \E pub \in SUBSET PubCapable, sub \in SUBSET SubCapable, m \in 0..NumChannels :
               CreateEntities(pub, sub, m)
    BY <1>3, ReadUntouched DEF CreateEntities, wire
  <1>4. CASE HandleIrqPending \/ PeriodicPublish
    BY <1>4, ReadUntouched DEF HandleIrqPending, PeriodicPublish, session, wire
  <1>5. CASE Spin \/ PassEnds \/ NextPass \/ DestroyEntities
    BY <1>5, ReadUntouched DEF Spin, PassEnds, NextPass, DestroyEntities, session, wire
  <1>6. ASSUME ReadPin PROVE InStep(c)' /\ Repairs(c)
    <2>1. /\ at = "read" /\ k \in 1..3 /\ k <= NumPins(i)
          /\ sample' = [sample EXCEPT ![<<i, k>>] = level[<<i, k>>]]
          /\ k' = IF Kind[i] = "okgo" /\ ~level[<<i, k>>] THEN NumPins(i) + 1 ELSE k + 1
          /\ UNCHANGED <<level, out, states, host, at, i>> /\ sample \in [Pin -> BOOLEAN]
      BY <1>6 DEF ReadPin, session, wire, TypeInv, TypeOK
    <2>2. Repairs(c)
      BY <2>1 DEF Repairs, Published, Reading
    <2>3. CASE i # c
      BY <2>1, <2>2, <2>3 DEF InStep
    <2>4. CASE i = c
      <3>1. NumPins(c) \in 0..2 /\ \A n \in 1..NumPins(c) : <<c, n>> \in Pin
        BY DEF NumPins, Pin
      <3>2. sample'[<<c, k>>] = level[<<c, k>>]
        BY <2>1, <2>4, <3>1
      <3>3. ASSUME NEW n \in 1..NumPins(c), n # k PROVE sample'[<<c, n>>] = sample[<<c, n>>]
        BY <2>1, <2>4, <3>1, <3>3
      <3>4. CASE k = 1 /\ Kind[c] = "okgo" /\ ~level[<<c, 1>>]
        BY <2>1, <2>2, <2>4, <3>2, <3>4 DEF InStep
      <3>5. CASE k = 1 /\ ~(Kind[c] = "okgo" /\ ~level[<<c, 1>>])
        <4>1. k' = 2
          BY <2>1, <2>4, <3>5
        <4>2. \A n \in 1..NumPins(c) : n < k' => n = 1
          BY <3>1, <4>1
        <4>3. \A n \in 1..NumPins(c)' : n < k' => sample'[<<c, n>>] = level'[<<c, n>>]
          BY <2>1, <3>2, <3>5, <4>2 DEF NumPins
        <4>4. QED
          BY <2>2, <4>3 DEF InStep
      <3>6. CASE k # 1
        <4>1. k = 2 /\ NumPins(c) = 2 /\ 1 \in 1..NumPins(c)
          BY <2>1, <2>4, <3>1, <3>6
        <4>2. sample'[<<c, 1>>] = sample[<<c, 1>>]
          BY <3>3, <4>1
        <4>3. CASE sample[<<c, 1>>] = level[<<c, 1>>]
          <5>1. \A n \in 1..NumPins(c) : n = 1 \/ n = 2
            BY <4>1
          <5>2. \A n \in 1..NumPins(c)' : sample'[<<c, n>>] = level'[<<c, n>>]
            BY <2>1, <3>2, <4>1, <4>2, <4>3, <5>1 DEF NumPins
          <5>3. QED
            BY <2>2, <5>2 DEF InStep
        <4>4. CASE Kind[c] = "okgo" /\ ~sample[<<c, 1>>] /\ ~level[<<c, 1>>]
          BY <2>1, <2>2, <4>2, <4>4 DEF InStep
        <4>5. QED
          BY <2>1, <2>4, <4>1, <4>3, <4>4 DEF InStep
      <3>7. QED
        BY <3>4, <3>5, <3>6
    <2>5. QED
      BY <2>3, <2>4
  <1>7. ASSUME NEW d \in BOOLEAN, Publish(d) PROVE InStep(c)' /\ Repairs(c)
    <2>1. /\ at = "read" /\ k > NumPins(i) /\ at' = ret /\ UNCHANGED <<level, out, states>>
          /\ host' = IF d THEN [host EXCEPT ![i] = Published(i, sample, out)] ELSE host
      BY <1>7 DEF Publish, session, pins
    <2>2. InStep(c)'
      BY <2>1 DEF InStep, TypeInv, TypeOK
    <2>3. Published(c, level, out)' = Published(c, level, out)
      BY <2>1 DEF Published, Reading
    <2>4. CASE i # c
      BY <2>1, <2>2, <2>3, <2>4 DEF Repairs
    <2>5. CASE i = c
      <3>1. Published(c, sample, out) = Published(c, level, out)
        BY <2>1, <2>5, SettledRead
      <3>2. host'[c] = host[c] \/ host'[c] = Published(c, sample, out)
        BY <2>1, <2>5 DEF TypeInv, TypeOK
      <3>3. QED
        BY <2>2, <2>3, <3>1, <3>2 DEF Repairs
    <2>6. QED
      BY <2>4, <2>5
  <1>8. QED
    BY <1>1, <1>2, <1>3, <1>4, <1>5, <1>6, <1>7 DEF Next, Step

(* While pins and outputs are settled, whatever edge was bounced away,     *)
(* publish lost or session ended: what a channel publishes is its value,   *)
(* and a host that holds it keeps it.                                      *)
THEOREM SettledValueIsKept ==
  Spec => [][\A c \in Channel : UNCHANGED <<level, out>> /\ InStep(c)
                                  => InStep(c)' /\ Repairs(c)]_vars
  <1>1. TypeInv /\ [Next]_vars
          => [\A c \in Channel : UNCHANGED <<level, out>> /\ InStep(c)
                                   => InStep(c)' /\ Repairs(c)]_vars
    BY SettledStep
  <1>2. QED
    BY <1>1, TypeInit, TypeStep, PTL DEF Spec

-----------------------------------------------------------------------------
(* The safety half of CommandApplied: the last command to a channel that   *)
(* the executor serves is waiting or has been applied.                     *)
Commanded(c, v) ==
  \/ inbox[c] = v /\ c \in handles
  \/ inbox[c] = None /\ out[c] = (v # states[c].invert_logic)

(* The session lasts and no other command comes.                           *)
NoOther(c, v) == at' # "down" /\ c \in handles' /\ inbox'[c] \in {v, None}

LEMMA CommandStep ==
  ASSUME TypeInv, [Next]_vars, NEW c \in Channel, NEW v \in BOOLEAN,
         Commanded(c, v), NoOther(c, v)
  PROVE  Commanded(c, v)'
  <1>1. ASSUME UNCHANGED <<out, states>>, inbox'[c] = inbox[c] PROVE Commanded(c, v)'
    BY <1>1 DEF Commanded, NoOther
  <1>2. CASE UNCHANGED vars \/ Tick \/ \E p \in Pin : PinChange(p) \/ Isr(p)
    BY <1>1, <1>2 DEF vars, Tick, PinChange, Isr, session, wire
  <1>3. CASE HandleIrqPending \/ PeriodicPublish \/ ReadPin \/ PassEnds \/ NextPass
    BY <1>1, <1>3 DEF HandleIrqPending, PeriodicPublish, ReadPin, PassEnds, NextPass, session, wire
  <1>4. CASE \E d \in BOOLEAN : Publish(d)
    BY <1>1, <1>4 DEF Publish, session
  <1>5. CASE \E pub \in SUBSET PubCapable, sub \in SUBSET SubCapable, m \in 0..NumChannels :
               CreateEntities(pub, sub, m)
    BY <1>1, <1>5 DEF CreateEntities, wire
  <1>6. CASE DestroyEntities
    BY <1>6 DEF DestroyEntities, NoOther
  <1>7. ASSUME NEW d \in Channel, NEW w \in BOOLEAN, HostSend(d, w) PROVE Commanded(c, v)'
    <2>1. /\ inbox' = [inbox EXCEPT ![d] = w] /\ UNCHANGED <<out, states, handles>>
          /\ inbox \in [Channel -> BOOLEAN \cup {None}]
      BY <1>7 DEF HostSend, session, TypeInv, TypeOK
    <2>2. CASE d # c
      BY <1>1, <2>1, <2>2
    <2>3. CASE d = c
      <3>1. inbox'[c] = v
        BY <2>1, <2>3, Assumption DEF NoOther, Assumption
      <3>2. QED
        BY <3>1 DEF NoOther, Commanded
    <2>4. QED
      BY <2>2, <2>3
  <1>8. CASE Spin
    <2> DEFINE new == {d \in handles : inbox[d] # None}
    <2>1. /\ out' = [d \in Channel |-> IF d \in new THEN Written(d) ELSE out[d]]
          /\ inbox' = [d \in Channel |-> IF d \in new THEN None ELSE inbox[d]]
          /\ UNCHANGED states
      BY <1>8 DEF Spin, session
    <2>2. CASE inbox[c] = v /\ c \in handles
      <3>1. v # None /\ states[c].invert_logic \in BOOLEAN
        BY Assumption DEF Assumption, TypeInv, TypeOK, Params
      <3>2. inbox'[c] = None /\ out'[c] = Written(c)
        BY <2>1, <2>2, <3>1
      <3>3. Written(c) = (v # states[c].invert_logic)
        BY <2>2, <3>1 DEF Written
      <3>4. QED
        BY <2>1, <3>2, <3>3 DEF Commanded
    <2>3. CASE inbox[c] = None
      <3>1. inbox'[c] = inbox[c] /\ out'[c] = out[c]
        BY <2>1, <2>3
      <3>2. QED
        BY <2>1, <2>3, <3>1, Assumption DEF Commanded, Assumption
    <2>4. QED
      BY <2>2, <2>3 DEF Commanded
  <1>9. QED
    BY <1>2, <1>3, <1>4, <1>5, <1>6, <1>7, <1>8 DEF Next, Step

(* sub_callback: until another one replaces it or the session ends, a      *)
(* command is neither lost nor undone.                                     *)
THEOREM NoCommandLost ==
  Spec => [][\A c \in Channel, v \in BOOLEAN :
               Commanded(c, v) /\ NoOther(c, v) => Commanded(c, v)']_vars
  <1>1. TypeInv /\ [Next]_vars
          => [\A c \in Channel, v \in BOOLEAN :
                Commanded(c, v) /\ NoOther(c, v) => Commanded(c, v)']_vars
    BY CommandStep
  <1>2. QED
    BY <1>1, TypeInit, TypeStep, PTL DEF Spec
=============================================================================
