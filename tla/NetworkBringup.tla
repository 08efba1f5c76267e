--------------------------- MODULE NetworkBringup ---------------------------
(***************************************************************************)
(* apply_network_config of common/src/main.c: the boot thread waits for    *)
(* the Ethernet link and then for a DHCP lease.  Both waits use one binary *)
(* semaphore and one callback struct; the events are raised by the         *)
(* Ethernet driver and the DHCP client and delivered later by the network  *)
(* management thread, to whatever callback is registered at that moment.   *)
(***************************************************************************)
EXTENDS Integers

CONSTANTS
  LinkSlices,   (* 500 ms waits before the link deadline  (NET_LINK_TIMEOUT_S) *)
  DhcpSlices,   (* 500 ms waits before the lease deadline (DHCP_TIMEOUT_S)     *)
  NoSlice       (* "never"                                                     *)

ASSUME Assumption ==
  /\ LinkSlices \in Nat \ {0} /\ DhcpSlices \in Nat \ {0}
  /\ NoSlice \notin Nat

Event == {"IF_UP", "DHCP_BOUND"}

VARIABLES
  ifUp,        (* net_if_is_up: link present and interface enabled         *)
  lease,       (* the DHCP client is bound                                 *)
  dhcp,        (* g_config.network.dhcp                                    *)
  started,     (* net_dhcpv4_start was called                              *)
  events,      (* events raised and not yet delivered                      *)
  registered,  (* events net_mgmt_cb is registered for                     *)
  sem,         (* net_event_sem, limit 1                                   *)
  pc, used,    (* boot thread; slices used of the current wait             *)
  link_up, dhcp_ok,
  boundAt      (* history: slices used when DHCP_BOUND was delivered       *)

network == <<ifUp, lease, events>>
result  == <<link_up, dhcp_ok>>
vars == <<network, dhcp, started, registered, sem, pc, used, result, boundAt>>

Init ==
  /\ ifUp \in BOOLEAN /\ dhcp \in BOOLEAN
  /\ lease = FALSE /\ started = FALSE /\ events = {} /\ registered = {} /\ sem = 0
  /\ pc = "check" /\ used = 0
  /\ link_up = FALSE /\ dhcp_ok = FALSE
  /\ boundAt = NoSlice

-----------------------------------------------------------------------------
(* The network.                                                            *)

LinkChanges ==
  /\ ifUp' = ~ifUp
  /\ events' = IF ifUp' THEN events \cup {"IF_UP"} ELSE events
  /\ UNCHANGED <<lease, dhcp, started, registered, sem, pc, used, result, boundAt>>

LeaseGranted ==
  /\ started /\ ifUp /\ ~lease
  /\ lease' = TRUE
  /\ events' = events \cup {"DHCP_BOUND"}
  /\ UNCHANGED <<ifUp, dhcp, started, registered, sem, pc, used, result, boundAt>>

(* net_event_handler, on the network management thread.                    *)
Given_Unlimited(e) == IF e \in registered THEN sem + 1 ELSE sem
Given(e)           == IF e \in registered THEN 1 ELSE sem

Deliver(e) ==
  /\ e \in events
  /\ events' = events \ {e}
  /\ sem' = Given(e)
  /\ boundAt' = IF e = "DHCP_BOUND" THEN used ELSE boundAt
  /\ UNCHANGED <<ifUp, lease, dhcp, started, registered, pc, used, result>>

-----------------------------------------------------------------------------
(* The boot thread.                                                        *)
Goto(here, next) == pc = here /\ pc' = next

CheckLink ==
  /\ pc = "check"
  /\ pc' = IF ifUp THEN "config" ELSE "link_add"
  /\ UNCHANGED <<network, dhcp, started, registered, sem, used, result, boundAt>>

Register(here, next, e) ==
  /\ Goto(here, next)
  /\ registered' = {e}
  /\ used' = 0
  /\ UNCHANGED <<network, dhcp, started, sem, result, boundAt>>

AddLinkCallback == Register("link_add", "link_wait", "IF_UP")
AddDhcpCallback_Copied == Register("dhcp_add", "dhcp_start", "IF_UP")
AddDhcpCallback == Register("dhcp_add", "dhcp_start", "DHCP_BOUND")

DhcpStart ==
  /\ Goto("dhcp_start", "dhcp_wait")
  /\ started' = TRUE
  /\ UNCHANGED <<network, dhcp, registered, sem, used, result, boundAt>>

(* One turn of a wait loop: the deadline check, then k_sem_take with a     *)
(* 500 ms timeout.  A slice is charged when its wait begins.               *)
Expired(limit) == used >= limit

BeginSlice(here, next, limit, after) ==
  /\ pc = here
  /\ IF Expired(limit) THEN pc' = after /\ UNCHANGED used
                       ELSE pc' = next /\ used' = used + 1
  /\ UNCHANGED <<network, dhcp, started, registered, sem, result, boundAt>>

Take(here, after, ok) ==
  /\ Goto(here, after)
  /\ sem = 1 /\ sem' = 0
  /\ link_up' = (link_up \/ ok = "link_up")
  /\ dhcp_ok' = (dhcp_ok \/ ok = "dhcp_ok")
  /\ UNCHANGED <<network, dhcp, started, registered, used, boundAt>>

SliceTimesOut_Forever(here, again) == pc = here /\ FALSE

SliceTimesOut(here, again) ==
  /\ Goto(here, again)
  /\ sem = 0
  /\ UNCHANGED <<network, dhcp, started, registered, sem, used, result, boundAt>>

LinkSlice   == BeginSlice("link_wait", "link_take", LinkSlices, "link_del")
LinkTake    == Take("link_take", "link_del", "link_up")
LinkTimeout == SliceTimesOut("link_take", "link_wait")
DhcpSlice   == BeginSlice("dhcp_wait", "dhcp_take", DhcpSlices, "dhcp_del")
DhcpTake    == Take("dhcp_take", "dhcp_del", "dhcp_ok")
DhcpTimeout == SliceTimesOut("dhcp_take", "dhcp_wait")

Unregister_Kept(here, next) ==
  /\ Goto(here, next)
  /\ UNCHANGED <<registered, network, dhcp, started, sem, used, result, boundAt>>

Unregister(here, next) ==
  /\ Goto(here, next)
  /\ registered' = {}
  /\ UNCHANGED <<network, dhcp, started, sem, used, result, boundAt>>

DelLinkCallback == Unregister("link_del", "config")
DelDhcpCallback == Unregister("dhcp_del", "done")

(* DHCP or static.  The static branch checks the three addresses and sets  *)
(* them or returns with an error; neither touches the state followed here. *)
Configure ==
  /\ pc = "config"
  /\ pc' = IF dhcp THEN "dhcp_add" ELSE "done"
  /\ UNCHANGED <<network, dhcp, started, registered, sem, used, result, boundAt>>

-----------------------------------------------------------------------------
Boot == \/ CheckLink \/ AddLinkCallback \/ LinkSlice \/ LinkTake \/ LinkTimeout
        \/ DelLinkCallback \/ Configure \/ AddDhcpCallback \/ DhcpStart
        \/ DhcpSlice \/ DhcpTake \/ DhcpTimeout \/ DelDhcpCallback

Next == Boot \/ LinkChanges \/ LeaseGranted \/ \E e \in Event : Deliver(e)

Spec == Init /\ [][Next]_vars

-----------------------------------------------------------------------------
TypeOK ==
  /\ ifUp \in BOOLEAN /\ lease \in BOOLEAN /\ dhcp \in BOOLEAN /\ started \in BOOLEAN
  /\ events \subseteq Event /\ registered \subseteq Event /\ sem \in 0..1
  /\ pc \in {"check", "link_add", "link_wait", "link_take", "link_del", "config",
             "dhcp_add", "dhcp_start", "dhcp_wait", "dhcp_take", "dhcp_del", "done"}
  /\ used \in Nat
  /\ link_up \in BOOLEAN /\ dhcp_ok \in BOOLEAN
  /\ boundAt \in Nat \cup {NoSlice}

(* One callback struct serves both waits: it is registered for the event   *)
(* its wait is about and for nothing outside of a wait, on every path.     *)
CallbackScoped ==
  registered = CASE pc \in {"link_wait", "link_take", "link_del"} -> {"IF_UP"}
                 [] pc \in {"dhcp_start", "dhcp_wait", "dhcp_take", "dhcp_del"} -> {"DHCP_BOUND"}
                 [] OTHER -> {}

(* A lease announced while another slice was still to come is never        *)
(* reported as a timeout: the callback is registered before the client is  *)
(* started, and the semaphore keeps what is given between two slices.      *)
LeaseNotMissed ==
  pc = "done" /\ dhcp /\ ~dhcp_ok => boundAt = NoSlice \/ boundAt >= DhcpSlices

(* "DHCP: IP address assigned" (main.c:257) is logged only with a lease.   *)
(* An IF_UP given after the link wait stopped taking makes it false.       *)
AssignedMeansLease == dhcp_ok => lease
=============================================================================
