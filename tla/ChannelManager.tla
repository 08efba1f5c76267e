--------------------------- MODULE ChannelManager ---------------------------
(***************************************************************************)
(* The channel manager of the bridge (common/src/bridge/channel_manager.c) *)
(* with the GPIO driver that feeds it (common/src/drivers/drv_gpio.c), the *)
(* channel descriptors of the apps and the Phase 3 loop of main.c that     *)
(* drives it.  Three actors interleave: the pins with their interrupt      *)
(* handlers, the main thread, and the host at the other end of the topics. *)
(*                                                                         *)
(* The RP2040 build runs on one core, so an interrupt handler is atomic    *)
(* with respect to the main thread but may run between any two of its      *)
(* steps.  Time advances in ticks; only the elapsed times the code         *)
(* compares are kept, each saturating where the code can no longer tell.   *)
(***************************************************************************)
EXTENDS Integers

CONSTANTS
  NumChannels,  (* channels registered by user_register_channels           *)
  Kind,         (* what the channel at each registry index is              *)
  DebounceMs,   (* DEBOUNCE_MS of drv_gpio.c, in ticks                     *)
  MaxPeriod,    (* largest publish period, in ticks                        *)
  MaxLag,       (* ticks one half of a loop pass may take (bound)          *)
  ParamSet,     (* the per-channel parameters ch_params.json may hold      *)
  Lossy,        (* whether rcl_publish may fail, its result being ignored  *)
  None          (* nothing received, nothing waiting                       *)

Channel == 1..NumChannels
Kinds   == {"estop", "mode", "okgo", "gpio", "led"}
Params  == [period_ms : 1..MaxPeriod, enabled : BOOLEAN, invert_logic : BOOLEAN]

ASSUME Assumption ==
  /\ NumChannels \in Nat
  /\ Kind \in [Channel -> Kinds]
  /\ DebounceMs \in Nat \ {0}
  /\ MaxPeriod  \in Nat \ {0}
  /\ MaxLag     \in Nat \ {0}
  /\ ParamSet \subseteq Params
  /\ Lossy \in BOOLEAN
  /\ None \notin BOOLEAN /\ None \notin 0..2

-----------------------------------------------------------------------------
(* Channel descriptors.                                                    *)

IrqCapable(c) == Kind[c] \in {"estop", "mode", "okgo"}
HasPub(c)     == Kind[c] # "led"
HasSub(c)     == Kind[c] \in {"gpio", "led"}
NumPins(c)    == CASE Kind[c] = "estop"            -> 1
                   [] Kind[c] \in {"mode", "okgo"} -> 2
                   [] OTHER                        -> 0

Pin   == {p \in Channel \X (1..2) : p[2] <= NumPins(p[1])}
Values(c) == IF Kind[c] = "mode" THEN 0..2 ELSE BOOLEAN

VARIABLES
  level,       (* logical level of every input pin, TRUE = active          *)
  armed,       (* pins whose edge interrupt was configured at boot         *)
  latched,     (* an edge the interrupt controller still has to deliver    *)
  sinceIrq,    (* ticks since last_irq_ms of the pin                       *)
  irqPending,  (* states[].irq_pending                                     *)
  states,      (* the rest of states[]                                     *)
  pubActive, subActive,  (* entities that exist                            *)
  handles,     (* channels whose subscription the executor serves          *)
  sincePub,    (* ticks since last_publish_ms                              *)
  at, i, k, ret,  (* main thread: where, loop index, pin to read, caller   *)
  age,         (* ticks since the thread took its local "now"              *)
  sample,      (* pin levels as the current read sampled them              *)
  out,         (* commanded output level of a channel that can be written  *)
  inbox,       (* sample waiting for a subscription                        *)
  host,        (* last value of the topic the host received                *)
  owed         (* history: an accepted edge no read has started after      *)

pins    == <<level, armed, latched, sinceIrq>>
session == <<pubActive, subActive, handles, states>>
main    == <<at, i, k, ret, age>>
wire    == <<out, inbox, host>>
vars    == <<pins, irqPending, session, sincePub, main, sample, wire, owed>>

SincePubCap == MaxPeriod + 3 * MaxLag + 1

-----------------------------------------------------------------------------
(* estop_read, mode_read, okgo_btn_read and gp*_read on sampled levels s   *)
(* and commanded outputs o.                                                *)
Reading(c, s, o) ==
  CASE Kind[c] = "estop" -> ~s[<<c, 1>>]
    [] Kind[c] = "mode"  -> IF s[<<c, 1>>] THEN 2 ELSE IF s[<<c, 2>>] THEN 1 ELSE 0
    [] Kind[c] = "okgo"  -> s[<<c, 1>>] /\ s[<<c, 2>>]
    [] OTHER             -> o[c]

Published(c, s, o) ==
  IF states[c].invert_logic /\ Kind[c] # "mode"
  THEN ~Reading(c, s, o) ELSE Reading(c, s, o)

(* Boot: statics are zero, the IRQ set-up of a pin may have failed (init   *)
(* errors are only logged), no session exists.  When the first pin of a    *)
(* channel fails the second is never configured.                           *)
Init ==
  /\ level \in [Pin -> BOOLEAN]
  /\ armed \in SUBSET Pin
  /\ \A p \in Pin : p \in armed /\ p[2] = 2 => <<p[1], 1>> \in armed
  /\ latched  = [p \in Pin |-> FALSE]
  /\ sinceIrq = [p \in Pin |-> 0]
  /\ irqPending = [c \in Channel |-> FALSE]
  /\ states \in [Channel -> ParamSet]
  /\ pubActive = {} /\ subActive = {} /\ handles = {}
  /\ sincePub = [c \in Channel |-> 0]
  /\ at = "down" /\ i = 1 /\ k = 1 /\ ret = "irq" /\ age = 0
  /\ sample = [p \in Pin |-> FALSE]
  /\ out    = [c \in Channel |-> FALSE]
  /\ inbox  = [c \in Channel |-> None]
  /\ host   = [c \in Channel |-> None]
  /\ owed   = [c \in Channel |-> FALSE]

-----------------------------------------------------------------------------
(* Pins, interrupts and time.                                              *)

PinChange(p) ==
  /\ level'   = [level EXCEPT ![p] = ~@]
  /\ latched' = [latched EXCEPT ![p] = p \in armed]
  /\ UNCHANGED <<armed, sinceIrq, irqPending, session, sincePub, main, sample, wire, owed>>

(* gpio_isr_handler: edges closer than DebounceMs to the last accepted one *)
(* are dropped, the first edge of a burst is the one that counts.          *)
Accepted(p) == sinceIrq[p] >= DebounceMs

(* channel_manager_signal_irq.                                             *)
Signalled_Served(c) == [irqPending EXCEPT ![c] = c \in pubActive]
Signalled(c)        == [irqPending EXCEPT ![c] = TRUE]

Isr(p) ==
  /\ latched[p]
  /\ latched' = [latched EXCEPT ![p] = FALSE]
  /\ IF Accepted(p)
     THEN /\ sinceIrq'   = [sinceIrq EXCEPT ![p] = 0]
          /\ irqPending' = Signalled(p[1])
          /\ owed'       = [owed EXCEPT ![p[1]] = TRUE]
     ELSE UNCHANGED <<sinceIrq, irqPending, owed>>
  /\ UNCHANGED <<level, armed, session, sincePub, main, sample, wire>>

Tick ==
  /\ at # "down" => age < MaxLag
  /\ age' = IF at = "down" THEN age ELSE age + 1
  /\ sinceIrq' = [p \in Pin |-> IF sinceIrq[p] < DebounceMs THEN sinceIrq[p] + 1 ELSE DebounceMs]
  /\ sincePub' = [c \in Channel |->
                    IF sincePub[c] < SincePubCap THEN sincePub[c] + 1 ELSE SincePubCap]
  /\ UNCHANGED <<level, armed, latched, irqPending, session, at, i, k, ret, sample, wire, owed>>

-----------------------------------------------------------------------------
(* Session start and end, as far as the channel manager sees them.         *)

PubCapable == {c \in Channel : HasPub(c)}
SubCapable == {c \in Channel : HasSub(c)}

(* add_subs_to_executor: the subscriptions created, up to the first that   *)
(* the executor rejects (index m + 1), which ends the loop.                *)
Served_All(sub, m) == {c \in SubCapable : c <= m}
Served(sub, m)     == {c \in sub : c <= m}

(* channel_manager_create_entities, then add_subs_to_executor.  Any single *)
(* publisher or subscription may fail to be created, which is only logged. *)
(* A pending bit set while no session existed survives.                    *)
CreateEntities(pub, sub, m) ==
  /\ at = "down"
  /\ pubActive' = pub
  /\ subActive' = sub
  /\ handles'   = Served(sub, m)
  /\ sincePub'  = [c \in Channel |-> IF c \in pub THEN 0 ELSE sincePub[c]]
  /\ at' = "irq" /\ i' = 1 /\ age' = 0
  /\ UNCHANGED <<pins, irqPending, states, k, ret, sample, wire, owed>>

(* The agent stopped answering the ping: destroy_entities, back to Phase 1.*)
DestroyEntities ==
  /\ at = "ping"
  /\ pubActive' = {} /\ subActive' = {} /\ handles' = {}
  /\ inbox' = [c \in Channel |-> None]
  /\ at' = "down"
  /\ UNCHANGED <<pins, irqPending, states, sincePub, i, k, ret, age, sample, out, host, owed>>

-----------------------------------------------------------------------------
(* One pass of the Phase 3 loop.                                           *)

(* handle_irq_pending at index i.  The bit is cleared before the read, and *)
(* the "enabled" parameter is not looked at.                               *)
IrqDue_Enabled(c) == c \in pubActive /\ irqPending[c] /\ states[c].enabled
IrqDue(c) == c \in pubActive /\ IrqCapable(c) /\ irqPending[c]

HandleIrqPending ==
  /\ at = "irq" /\ i <= NumChannels
  /\ IF IrqDue(i)
     THEN /\ irqPending' = [irqPending EXCEPT ![i] = FALSE]
          /\ sincePub'   = [sincePub EXCEPT ![i] = age]
          /\ at' = "read" /\ k' = 1 /\ ret' = "irq"
          /\ UNCHANGED i
     ELSE /\ i' = i + 1
          /\ UNCHANGED <<irqPending, sincePub, at, k, ret>>
  /\ UNCHANGED <<pins, session, age, sample, wire, owed>>

(* channel_manager_publish at index i.                                     *)
Due_Late(c)    == sincePub[c] - age > states[c].period_ms
Due(c)         == sincePub[c] - age >= states[c].period_ms

PeriodicPublish ==
  /\ at = "pub" /\ i <= NumChannels
  /\ IF i \in pubActive /\ states[i].enabled /\ Due(i)
     THEN /\ sincePub' = [sincePub EXCEPT ![i] = age]
          /\ at' = "read" /\ k' = 1 /\ ret' = "pub"
          /\ UNCHANGED i
     ELSE /\ i' = i + 1
          /\ UNCHANGED <<sincePub, at, k, ret>>
  /\ UNCHANGED <<pins, irqPending, session, age, sample, wire, owed>>

(* perform_channel_publish: one gpio_pin_get_dt per step, okgo_btn_read    *)
(* stopping at the first inactive contact.                                 *)
ReadPin ==
  /\ at = "read" /\ k <= NumPins(i)
  /\ sample' = [sample EXCEPT ![<<i, k>>] = level[<<i, k>>]]
  /\ k' = IF Kind[i] = "okgo" /\ ~level[<<i, k>>] THEN NumPins(i) + 1 ELSE k + 1
  /\ owed' = IF k = 1 THEN [owed EXCEPT ![i] = FALSE] ELSE owed
  /\ UNCHANGED <<pins, irqPending, session, sincePub, at, i, ret, age, wire>>

(* ... and then the publish, whose result is ignored.                      *)
Publish_Fresh(delivered) ==
  /\ at = "read" /\ k > NumPins(i)
  /\ host' = IF delivered THEN [host EXCEPT ![i] = Published(i, level, out)] ELSE host
  /\ at' = ret /\ i' = i + 1 /\ k' = 1
  /\ UNCHANGED <<pins, irqPending, session, sincePub, ret, age, sample, out, inbox, owed>>

Publish_IrqOnly(delivered) ==
  /\ at = "read" /\ k > NumPins(i)
  /\ host' = IF delivered /\ ret = "irq" THEN [host EXCEPT ![i] = Published(i, sample, out)]
             ELSE host
  /\ at' = ret /\ i' = i + 1 /\ k' = 1
  /\ UNCHANGED <<pins, irqPending, session, sincePub, ret, age, sample, out, inbox, owed>>

Publish(delivered) ==
  /\ at = "read" /\ k > NumPins(i)
  /\ host' = IF delivered THEN [host EXCEPT ![i] = Published(i, sample, out)] ELSE host
  /\ at' = ret /\ i' = i + 1 /\ k' = 1
  /\ UNCHANGED <<pins, irqPending, session, sincePub, ret, age, sample, out, inbox, owed>>

(* rclc_executor_spin_some: sub_callback for every handle with new data;   *)
(* afterwards channel_manager_publish takes its own "now".                 *)
Written_Raw(c) == inbox[c]
Written(c)     == IF states[c].invert_logic THEN ~inbox[c] ELSE inbox[c]

Spin ==
  /\ at = "irq" /\ i > NumChannels
  /\ LET new == {c \in handles : inbox[c] # None}
     IN /\ out'   = [c \in Channel |-> IF c \in new THEN Written(c) ELSE out[c]]
        /\ inbox' = [c \in Channel |-> IF c \in new THEN None ELSE inbox[c]]
  /\ at' = "pub" /\ i' = 1 /\ age' = 0
  /\ UNCHANGED <<pins, irqPending, session, sincePub, k, ret, sample, host, owed>>

(* End of the publish loop, then the agent ping and the next pass.         *)
PassEnds ==
  /\ at = "pub" /\ i > NumChannels
  /\ at' = "ping"
  /\ UNCHANGED <<pins, irqPending, session, sincePub, i, k, ret, age, sample, wire, owed>>

NextPass ==
  /\ at = "ping"
  /\ at' = "irq" /\ i' = 1 /\ age' = 0
  /\ UNCHANGED <<pins, irqPending, session, sincePub, k, ret, sample, wire, owed>>

-----------------------------------------------------------------------------
(* The host commands an output.  A command that overtakes one the executor *)
(* has not served yet replaces it: of the samples waiting for a            *)
(* subscription only the last is followed, which is the one that stays.    *)
HostSend(c, v) ==
  /\ c \in subActive
  /\ inbox' = [inbox EXCEPT ![c] = v]
  /\ UNCHANGED <<pins, irqPending, session, sincePub, main, sample, out, host, owed>>

Step == HandleIrqPending \/ PeriodicPublish \/ ReadPin \/ Spin \/ PassEnds
        \/ Publish(TRUE) \/ (Lossy /\ Publish(FALSE)) \/ NextPass \/ DestroyEntities

Next ==
  \/ \E p \in Pin : PinChange(p) \/ Isr(p)
  \/ Tick
  \/ \E pub \in SUBSET PubCapable, sub \in SUBSET SubCapable, m \in 0..NumChannels :
       CreateEntities(pub, sub, m)
  \/ Step
  \/ \E c \in Channel, v \in BOOLEAN : HostSend(c, v)

Spec == Init /\ [][Next]_vars

(* The scheduler keeps running the main thread and the interrupt handlers, *)
(* time passes, and a link that is retried for ever is not down for ever.  *)
Fairness ==
  /\ WF_vars(Step)
  /\ WF_vars(Tick)
  /\ \A p \in Pin : WF_vars(Isr(p))
  /\ \A c \in Channel : SF_vars(i = c /\ Publish(TRUE))

FairSpec == Spec /\ Fairness
-----------------------------------------------------------------------------
(* Types.                                                                  *)
TypeOK ==
  /\ level \in [Pin -> BOOLEAN] /\ armed \subseteq Pin
  /\ latched \in [Pin -> BOOLEAN] /\ sinceIrq \in [Pin -> 0..DebounceMs]
  /\ irqPending \in [Channel -> BOOLEAN]
  /\ states \in [Channel -> Params]
  /\ pubActive \subseteq PubCapable /\ subActive \subseteq SubCapable
  /\ handles \subseteq subActive
  /\ sincePub \in [Channel -> 0..SincePubCap]
  /\ at \in {"down", "irq", "pub", "read", "ping"}
  /\ i \in 1..(NumChannels + 1) /\ k \in 1..3
  /\ ret \in {"irq", "pub"} /\ age \in 0..MaxLag
  /\ sample \in [Pin -> BOOLEAN]
  /\ out \in [Channel -> BOOLEAN]
  /\ inbox \in [Channel -> BOOLEAN \cup {None}]
  /\ DOMAIN host = Channel /\ \A c \in Channel : host[c] = None \/ host[c] \in Values(c)
  /\ owed \in [Channel -> BOOLEAN]

(* An edge the interrupt handler accepted is never lost: until the main    *)
(* loop starts a read of the channel after it, the pending bit is set or   *)
(* that read is the very next thing the loop does.  The order of the       *)
(* test-and-clear and the read in handle_irq_pending is what this needs,   *)
(* with an interrupt possible between any two steps, and the bit has to    *)
(* survive the loss of a session.                                          *)
ReadIsNext(c) == at = "read" /\ i = c /\ k = 1

NoAcceptedEdgeLost == \A c \in Channel : owed[c] => irqPending[c] \/ ReadIsNext(c)

(* The heartbeat a subscriber detects a dead bridge with: whatever mix of  *)
(* interrupt and periodic publishes a channel makes, the time since its    *)
(* last publish stays below the period plus the three half passes between  *)
(* the check that just missed it and the one that catches it.  The "now"   *)
(* a pass uses is taken once, at its start, and is stale when stored.      *)
HeartbeatGap ==
  \A c \in pubActive : at # "down" /\ states[c].enabled =>
    sincePub[c] < states[c].period_ms + 3 * MaxLag

(* The estop topic implements SampledTopic: no value the button never had, *)
(* none out of order.                                                      *)
Estop == CHOOSE c \in Channel : Kind[c] = "estop"

EstopTopic == INSTANCE SampledTopic WITH
  input <- Published(Estop, level, out),
  taken <- IF at = "read" /\ i = Estop /\ k > 1 THEN Published(Estop, sample, out) ELSE None,
  host  <- host[Estop]

EstopIsSampled == EstopTopic!TopicSpec

(* Final-value repair: once its inputs and its commanded output have       *)
(* settled, an enabled channel of a session that stays up ends with the    *)
(* host holding their value, although edges are debounced away, an         *)
(* interrupt may never have been configured, publishes may be lost and two *)
(* contacts are sampled one after the other.                               *)
Serving(c) == at # "down" /\ c \in pubActive /\ states[c].enabled

HostConverges ==
  \A c \in PubCapable :
    <>[]Serving(c) /\ <>[][UNCHANGED <<level, out>>]_vars
      => <>[](host[c] = Published(c, level, out))

(* An accepted edge is followed by a read of the channel, enabled or not,  *)
(* unless the session ends or has no publisher for it.                     *)
EdgeIsServed ==
  \A c \in Channel : [](owed[c] => <>(~owed[c] \/ c \notin pubActive))

(* The last command sent while a session lasts, to a channel the executor  *)
(* serves, reaches the output, inverted if the channel is, and stays.      *)
CommandApplied ==
  \A c \in SubCapable, v \in BOOLEAN :
    [](inbox[c] = v /\ [](at # "down" /\ c \in handles /\ inbox[c] \in {v, None})
         => <>[](out[c] = (v # states[c].invert_logic)))

(* The last command sent to a gpio channel comes back on its state topic, *)
(* inverted twice or not at all, and stays, while the session lasts.       *)
CommandEchoed ==
  \A c \in SubCapable, v \in BOOLEAN : Kind[c] = "gpio" =>
    [](inbox[c] = v /\ [](Serving(c) /\ c \in handles /\ inbox[c] \in {v, None})
         => <>[](host[c] = v))
=============================================================================
