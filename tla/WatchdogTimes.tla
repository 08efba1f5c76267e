---------------------------- MODULE WatchdogTimes ---------------------------
(***************************************************************************)
(* The times the watchdog argument is about, the budget they have to meet, *)
(* and what it is to show.  The constants with a value in the source are   *)
(* named after it; the others bound code that is not in this repository.   *)
(***************************************************************************)
EXTENDS Integers

CONSTANTS
  WDT_TIMEOUT,       (* WDT_TIMEOUT_MS                                     *)
  AGENT_PING,        (* AGENT_PING_TIMEOUT * AGENT_PING_ATTEMPTS           *)
  AGENT_WAIT_DELAY,  (* AGENT_WAIT_DELAY_MS                                *)
  DTR_POLL,          (* ten polls of 50 ms for a USB monitor               *)
  NET_SLICE,         (* one k_sem_take of apply_network_config             *)
  STATIC_IP,         (* the sleep after a static address is set            *)
  ConfigTime,        (* config_init: mount, perhaps format, read, parse    *)
  ChannelsTime,      (* user_register_channels, channel_manager_init_...   *)
  TransportTime,     (* transport parameters                               *)
  InitTime,          (* all library calls of ros_session_init, cleanup of  *)
                     (* a failed attempt included                          *)
  FiniTime,          (* all library calls of ros_session_fini              *)
  PassTime,          (* IRQ publishes, spin and periodic publishes         *)
  DiagTime           (* diagnostics_publish and the 1 ms sleep             *)

Max2(a, b) == IF a > b THEN a ELSE b

(* The longest the watchdog goes unfed at each stretch that is not fed at  *)
(* its start.  A session is reached after a sleep of the search loop, a    *)
(* ping and all of ros_session_init; only after the retry delay, or the    *)
(* first pass, comes another feed.                                         *)
Search == Max2(AGENT_PING, AGENT_WAIT_DELAY) + AGENT_PING

Durations == {AGENT_PING, AGENT_WAIT_DELAY, DTR_POLL, NET_SLICE, STATIC_IP, ConfigTime,
              ChannelsTime, TransportTime, InitTime, FiniTime, PassTime, DiagTime}

ASSUME TimesAssumption ==
  /\ WDT_TIMEOUT \in Nat /\ Durations \subseteq Nat

ASSUME Budget ==
  /\ DTR_POLL + ConfigTime < WDT_TIMEOUT
  /\ Max2(ChannelsTime, NET_SLICE) + STATIC_IP < WDT_TIMEOUT
  /\ TransportTime < WDT_TIMEOUT
  /\ Search + InitTime + Max2(AGENT_WAIT_DELAY, PassTime) < WDT_TIMEOUT
  /\ AGENT_PING + DiagTime + PassTime < WDT_TIMEOUT
  /\ AGENT_PING + FiniTime + AGENT_WAIT_DELAY < WDT_TIMEOUT
-----------------------------------------------------------------------------
VARIABLE since  (* time since the watchdog was started or last fed *)

(* A bridge that makes progress is never reset, however the agent comes    *)
(* and goes and however often initialisation fails: no chain of stretches  *)
(* without a feed uses up the timeout.  Losing one feed of the search loop *)
(* is enough to break it.                                                  *)
NoReset == since < WDT_TIMEOUT
=============================================================================
