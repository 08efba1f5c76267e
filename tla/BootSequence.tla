---------------------------- MODULE BootSequence ----------------------------
(***************************************************************************)
(* From reset to the bridge loop: NetworkBringup inside main, under the    *)
(* watchdog.  Each step of the boot thread that takes time is also the     *)
(* stretch of Watchdog it is part of; a restart, by the watchdog or by     *)
(* "bridge reboot", begins everything again.  The MAC address is chosen    *)
(* on the way (apply_mac_address, w6100_set_config).                       *)
(***************************************************************************)
EXTENDS NetworkBringup, WatchdogTimes

CONSTANT MaxReboots     (* bound: "bridge reboot" commands *)

ASSUME RebootsAssumption == MaxReboots \in Nat

VARIABLES
  wpc,          (* Watchdog's pc                                           *)
  reboots,
  cfgMac,       (* g_config.network.mac: "none", "bad" or "good"           *)
  hwId,         (* hwinfo_get_device_id gives at least five bytes          *)
  mac           (* the address in the driver, in the chip (SHAR) and in    *)
                (* the interface, which puts it into every frame           *)

W == INSTANCE Watchdog WITH pc <- wpc

board    == <<cfgMac, hwId>>
bootVars == <<vars, wpc, since, reboots, board, mac>>

DtsMac == [driver |-> "dts", chip |-> "dts", iface |-> "dts"]

BootInit ==
  /\ Init /\ W!Init /\ reboots = 0
  /\ cfgMac \in {"none", "bad", "good"} /\ hwId \in BOOLEAN
  /\ mac = DtsMac

-----------------------------------------------------------------------------
(* w6100_set_config.  In MACRAW mode the stack writes the source address.  *)
SetMac_ChipOnly(m) == mac' = [mac EXCEPT !.driver = m, !.chip = m]
SetMac(m) == mac' = [mac EXCEPT !.driver = m, !.chip = m, !.iface = m]

ChosenMac ==
  IF cfgMac = "good" THEN "config" ELSE IF hwId THEN "hwinfo" ELSE "dts"

ApplyMac == IF ChosenMac = "dts" THEN UNCHANGED mac ELSE SetMac(ChosenMac)

Starting == (W!UsbWait \/ W!ConfigInit) /\ UNCHANGED <<vars, mac>>

(* Channels, the MAC address and the first look at the link.               *)
BeginNetwork ==
  /\ W!Channels /\ CheckLink /\ ApplyMac
  /\ wpc' = IF pc' = "link_add" THEN "link" ELSE "address"

Timeless ==
  /\ wpc \in {"link", "address", "transport"}
  /\ \/ AddLinkCallback \/ LinkSlice \/ DelLinkCallback
     \/ AddDhcpCallback \/ DhcpStart \/ DhcpSlice \/ DelDhcpCallback
     \/ Configure /\ dhcp
  /\ UNCHANGED <<wpc, since, mac>>

WaitForLink ==
  /\ W!LinkSlice /\ UNCHANGED mac
  /\ \/ LinkTake /\ wpc' = "address"
     \/ LinkTimeout /\ wpc' = IF Expired(LinkSlices) THEN "address" ELSE "link"

WaitForLease ==
  /\ W!DhcpSlice /\ UNCHANGED mac
  /\ \/ DhcpTake /\ wpc' = "transport"
     \/ DhcpTimeout /\ wpc' = IF Expired(DhcpSlices) THEN "transport" ELSE "address"

StaticAddress == W!StaticIp /\ Configure /\ ~dhcp /\ UNCHANGED mac

Bridge ==
  /\ pc = "done"
  /\ \/ W!Transport \/ W!FirstPing \/ W!SearchPing \/ W!WaitForAgent
     \/ W!SessionInit \/ W!RetryDelay \/ W!Pass \/ W!Ping \/ W!Diag
     \/ W!SessionFini \/ W!ReconnectDelay
  /\ UNCHANGED <<vars, mac>>

Main == /\ \/ Starting \/ BeginNetwork \/ Timeless \/ WaitForLink \/ WaitForLease
           \/ StaticAddress \/ Bridge
        /\ UNCHANGED <<reboots, board>>

Outside == /\ LinkChanges \/ LeaseGranted \/ \E e \in Event : Deliver(e)
           /\ UNCHANGED <<wpc, since, reboots, board, mac>>

Restart ==
  /\ since >= WDT_TIMEOUT \/ reboots < MaxReboots
  /\ reboots' = IF reboots < MaxReboots THEN reboots + 1 ELSE reboots
  /\ ifUp' \in BOOLEAN /\ lease' = FALSE /\ started' = FALSE /\ events' = {}
  /\ registered' = {} /\ sem' = 0 /\ pc' = "check" /\ used' = 0
  /\ link_up' = FALSE /\ dhcp_ok' = FALSE /\ boundAt' = NoSlice
  /\ wpc' = "usb" /\ since' = 0 /\ mac' = DtsMac
  /\ UNCHANGED <<dhcp, board>>

BootNext == Main \/ Outside \/ Restart

BootSpec == BootInit /\ [][BootNext]_bootVars

(* The main thread is scheduled, its timeouts expire, and a watchdog that  *)
(* is due resets the board.  Nothing is asked of the network.              *)
FairBootSpec ==
  BootSpec /\ WF_bootVars(Main) /\ WF_bootVars(since >= WDT_TIMEOUT /\ Restart)

-----------------------------------------------------------------------------
(* From the link wait on, so before the first DHCP message, no frame leaves *)
(* under an address the chip does not filter for, or under another one     *)
(* than the board was given.                                               *)
OneMac == wpc \notin {"usb", "config", "channels"} =>
  mac = [driver |-> ChosenMac, chip |-> ChosenMac, iface |-> ChosenMac]

(* The board reaches its bridge loop and stays there, without cable,       *)
(* without DHCP server, without agent, whatever the network does: the      *)
(* waits end, and none of them lets the watchdog start the boot again.     *)
BridgeRuns ==
  <>[](wpc \in {"top", "search", "wait", "init", "retry", "pass", "ping", "diag", "fini", "again"})
=============================================================================
