------------------------------ MODULE Watchdog ------------------------------
(***************************************************************************)
(* The hardware watchdog against the main thread of common/src/main.c:     *)
(* every stretch of main, apply_network_config and bridge_run between two  *)
(* calls of watchdog_feed, how long it may take and where it leads.        *)
(***************************************************************************)
EXTENDS WatchdogTimes

VARIABLE pc  (* the stretch the main thread is about to run *)

vars == <<pc, since>>

Init == pc = "usb" /\ since = 0

Unfed(here, most, next) ==
  /\ pc = here /\ pc' \in next
  /\ \E d \in 0..most : since' = since + d

Fed(here, most, next) ==
  /\ pc = here /\ pc' \in next
  /\ since' \in 0..most

-----------------------------------------------------------------------------
(* main *)
UsbWait    == Unfed("usb", DTR_POLL, {"config"})
ConfigInit == Unfed("config", ConfigTime, {"channels"})
Channels   == Fed("channels", ChannelsTime, {"link", "address"})
Transport  == Fed("transport", TransportTime, {"top"})

(* apply_network_config *)
LinkSlice  == Fed("link", NET_SLICE, {"link", "address"})
DhcpSlice  == Fed("address", NET_SLICE, {"address", "transport"})
StaticIp   == Unfed("address", STATIC_IP, {"transport"})

(* bridge_run, Phase 1 *)
FirstPing  == Fed("top", AGENT_PING, {"search", "init"})
SearchPing == Unfed("search", AGENT_PING, {"wait", "init"})

WaitForAgent_Unfed == Unfed("wait", AGENT_WAIT_DELAY, {"search"})
WaitForAgent       == Fed("wait", AGENT_WAIT_DELAY, {"search"})

(* Phase 2 *)
SessionInit == Unfed("init", InitTime, {"pass", "retry"})
RetryDelay  == Unfed("retry", AGENT_WAIT_DELAY, {"top"})

(* Phase 3: a pass, the feed, perhaps a ping, perhaps the diagnostics.     *)
Pass == Unfed("pass", PassTime, {"ping"})
Ping == Fed("ping", AGENT_PING, {"diag", "fini"})
Diag == Unfed("diag", DiagTime, {"pass"})

(* Phase 4 *)
SessionFini    == Unfed("fini", FiniTime, {"again"})
ReconnectDelay == Unfed("again", AGENT_WAIT_DELAY, {"top"})

Next ==
  \/ UsbWait \/ ConfigInit \/ Channels \/ LinkSlice \/ DhcpSlice \/ StaticIp \/ Transport
  \/ FirstPing \/ SearchPing \/ WaitForAgent \/ SessionInit \/ RetryDelay
  \/ Pass \/ Ping \/ Diag \/ SessionFini \/ ReconnectDelay

Spec == Init /\ [][Next]_vars
=============================================================================
