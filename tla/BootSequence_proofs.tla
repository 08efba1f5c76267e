------------------------ MODULE BootSequence_proofs -------------------------
(***************************************************************************)
(* Proofs about NetworkBringup for every number of slices, and about the   *)
(* boot it is part of, under any number of restarts: what holds of the two *)
(* waits and of the watchdog by themselves holds of both together, and the *)
(* board uses one MAC address.                                             *)
(***************************************************************************)
EXTENDS BootSequence, TLAPS

(* What is proved of the watchdog, for the pc of the boot and its times.   *)
WP == INSTANCE Watchdog_proofs WITH pc <- wpc

LEMMA SameTimes == WP!TimesAssumption /\ WP!Budget
  BY TimesAssumption, Budget
     DEF TimesAssumption, Budget, Max2, Search, Durations,
         WP!TimesAssumption, WP!Budget, WP!Max2, WP!Search, WP!Durations

(* The callback's scope and the types are inductive together.              *)
Scope == TypeOK /\ CallbackScoped

(* Before the client is started there is nothing to announce; while the    *)
(* lease wait goes on an announcement is kept in the semaphore; and the    *)
(* wait only ends without it when all slices are used up.                  *)
Announced == boundAt # NoSlice

LeaseKept ==
  /\ pc \in {"dhcp_add", "dhcp_start", "dhcp_wait", "dhcp_take", "dhcp_del"} => dhcp
  /\ dhcp /\ pc \notin {"dhcp_wait", "dhcp_take", "dhcp_del", "done"}
       => ~started /\ "DHCP_BOUND" \notin events /\ ~Announced
  /\ pc = "dhcp_take" => (Announced => sem = 1)
  /\ pc = "dhcp_wait" => (Announced => sem = 1 /\ (used < DhcpSlices \/ boundAt >= DhcpSlices))
  /\ dhcp /\ pc \in {"dhcp_del", "done"} =>
       dhcp_ok \/ (used >= DhcpSlices /\ (~Announced \/ boundAt >= DhcpSlices))

LeaseInv == Scope /\ LeaseKept

LEMMA LeaseInit == Init => LeaseInv
  <1> SUFFICES ASSUME Init PROVE LeaseInv
    OBVIOUS
  <1>1. /\ ifUp \in BOOLEAN /\ lease \in BOOLEAN /\ dhcp \in BOOLEAN /\ started \in BOOLEAN
        /\ link_up \in BOOLEAN /\ dhcp_ok \in BOOLEAN
    BY Zenon DEF Init
  <1>2. TypeOK
    BY <1>1 DEF Init, TypeOK
  <1>3. CallbackScoped
    BY DEF Init, CallbackScoped
  <1>4. LeaseKept
    BY DEF Init, LeaseKept, Announced
  <1>5. QED
    BY <1>2, <1>3, <1>4 DEF LeaseInv, Scope

LEMMA LeaseStep == LeaseInv /\ [Next]_vars => LeaseInv'
  <1> SUFFICES ASSUME LeaseInv, [Next]_vars PROVE LeaseInv'
    OBVIOUS
  <1> USE Assumption DEF LeaseInv, Scope, TypeOK, CallbackScoped, LeaseKept, Announced,
                         Event, network, result, Goto, Assumption
  <1>1. CASE UNCHANGED vars
    BY <1>1 DEF vars
  <1>2. CASE LinkChanges
    BY <1>2 DEF LinkChanges
  <1>3. CASE LeaseGranted
    BY <1>3 DEF LeaseGranted
  <1>4. ASSUME NEW e \in Event, Deliver(e) PROVE LeaseInv'
    BY <1>4 DEF Deliver, Given
  <1>5. CASE CheckLink
    BY <1>5 DEF CheckLink
  <1>6. CASE AddLinkCallback
    BY <1>6 DEF AddLinkCallback, Register
  <1>7. CASE LinkSlice
    BY <1>7 DEF LinkSlice, BeginSlice, Expired
  <1>8. CASE LinkTake
    BY <1>8 DEF LinkTake, Take
  <1>9. CASE LinkTimeout
    BY <1>9 DEF LinkTimeout, SliceTimesOut
  <1>10. CASE DelLinkCallback
    BY <1>10 DEF DelLinkCallback, Unregister
  <1>11. CASE Configure
    BY <1>11 DEF Configure
  <1>12. CASE AddDhcpCallback
    BY <1>12 DEF AddDhcpCallback, Register
  <1>13. CASE DhcpStart
    BY <1>13 DEF DhcpStart
  <1>14. CASE DhcpSlice
    BY <1>14 DEF DhcpSlice, BeginSlice, Expired
  <1>15. CASE DhcpTake
    <2>1. dhcp_ok' = TRUE /\ link_up' = link_up
      BY <1>15 DEF DhcpTake, Take
    <2>2. LeaseKept'
      BY <1>15, <2>1 DEF DhcpTake, Take
    <2>3. TypeOK' /\ CallbackScoped'
      BY <1>15, <2>1 DEF DhcpTake, Take
    <2>4. QED
      BY <2>2, <2>3
  <1>16. CASE DhcpTimeout
    BY <1>16 DEF DhcpTimeout, SliceTimesOut
  <1>17. CASE DelDhcpCallback
    BY <1>17 DEF DelDhcpCallback, Unregister
  <1>18. QED
    BY <1>1, <1>2, <1>3, <1>4, <1>5, <1>6, <1>7, <1>8, <1>9, <1>10, <1>11, <1>12, <1>13,
       <1>14, <1>15, <1>16, <1>17 DEF Next, Boot

(* The single callback struct is registered for the event of the wait in   *)
(* progress, and for nothing outside of the two waits.                     *)
THEOREM CallbackAlwaysScoped == Spec => []CallbackScoped
  <1>1. LeaseInv => CallbackScoped
    BY DEF LeaseInv, Scope
  <1>2. QED
    BY <1>1, LeaseInit, LeaseStep, PTL DEF Spec

(* A lease announced while another slice was to come ends the wait with    *)
(* success, for every deadline and every timing of the network.            *)
THEOREM LeaseSeen == Spec => []LeaseNotMissed
  <1>1. LeaseInv => LeaseNotMissed
    BY DEF LeaseInv, LeaseKept, Announced, LeaseNotMissed
  <1>2. QED
    BY <1>1, LeaseInit, LeaseStep, PTL DEF Spec

(* Every variable keeps its type; the semaphore the two waits share stays  *)
(* at its limit of one however many events are delivered to it.            *)
THEOREM TypeCorrect == Spec => []TypeOK
  <1>1. LeaseInv => TypeOK
    BY DEF LeaseInv, Scope
  <1>2. QED
    BY <1>1, LeaseInit, LeaseStep, PTL DEF Spec

-----------------------------------------------------------------------------
(* Each step of the boot is one of the network's, or none, ...             *)
LEMMA MainIsBringup == Main => [Next]_vars
  <1> SUFFICES ASSUME Main PROVE [Next]_vars
    OBVIOUS
  <1>1. CASE Starting
    BY <1>1 DEF Starting
  <1>2. CASE BeginNetwork
    BY <1>2 DEF BeginNetwork, Next, Boot
  <1>3. CASE Timeless
    BY <1>3 DEF Timeless, Next, Boot
  <1>4. CASE WaitForLink
    BY <1>4 DEF WaitForLink, Next, Boot
  <1>5. CASE WaitForLease
    BY <1>5 DEF WaitForLease, Next, Boot
  <1>6. CASE StaticAddress
    BY <1>6 DEF StaticAddress, Next, Boot
  <1>7. CASE Bridge
    BY <1>7 DEF Bridge
  <1>8. QED
    BY <1>1, <1>2, <1>3, <1>4, <1>5, <1>6, <1>7 DEF Main

LEMMA OutsideIsBringup == Outside => Next
  BY DEF Outside, Next

(* ... and a restart finds the network as the first boot does.             *)
LEMMA BootLease == LeaseInv /\ [BootNext]_bootVars => LeaseInv'
  <1> SUFFICES ASSUME LeaseInv, [BootNext]_bootVars PROVE LeaseInv'
    OBVIOUS
  <1>1. CASE Main
    BY <1>1, MainIsBringup, LeaseStep
  <1>2. CASE Outside
    BY <1>2, OutsideIsBringup, LeaseStep
  <1>3. CASE Restart
    <2>1. dhcp' \in BOOLEAN
      BY <1>3 DEF Restart, board, LeaseInv, Scope, TypeOK
    <2>2. Init'
      BY <1>3, <2>1 DEF Restart, Init
    <2>3. (Init => LeaseInv)'
      BY LeaseInit, PTL
    <2>4. QED
      BY <2>2, <2>3
  <1>4. CASE UNCHANGED bootVars
    BY <1>4, LeaseStep DEF bootVars
  <1>5. QED
    BY <1>1, <1>2, <1>3, <1>4 DEF BootNext

(* The two waits keep their promises inside the boot, restarts included.   *)
THEOREM NetworkInBoot == BootSpec => [](TypeOK /\ CallbackScoped /\ LeaseNotMissed)
  <1>1. BootInit => LeaseInv
    BY LeaseInit DEF BootInit
  <1>2. LeaseInv => TypeOK /\ CallbackScoped /\ LeaseNotMissed
    BY DEF LeaseInv, Scope, LeaseKept, Announced, LeaseNotMissed
  <1>3. QED
    BY <1>1, <1>2, BootLease, PTL DEF BootSpec

(* Each is a stretch between two feeds, or takes no time, or starts the    *)
(* watchdog again.                                                         *)
LEMMA MainIsStretch == Main => [WP!Next]_<<wpc, since>>
  <1> SUFFICES ASSUME Main PROVE [WP!Next]_<<wpc, since>>
    OBVIOUS
  <1> USE DEF W!Unfed, W!Fed, WP!Unfed, WP!Fed, WP!Next
  <1>1. CASE Starting
    BY <1>1 DEF Starting, W!UsbWait, WP!UsbWait, W!ConfigInit, WP!ConfigInit
  <1>2. CASE BeginNetwork
    BY <1>2 DEF BeginNetwork, W!Channels, WP!Channels
  <1>3. CASE Timeless
    BY <1>3 DEF Timeless
  <1>4. CASE WaitForLink
    BY <1>4 DEF WaitForLink, W!LinkSlice, WP!LinkSlice
  <1>5. CASE WaitForLease
    BY <1>5 DEF WaitForLease, W!DhcpSlice, WP!DhcpSlice
  <1>6. CASE StaticAddress
    BY <1>6 DEF StaticAddress, W!StaticIp, WP!StaticIp
  <1>7. CASE Bridge
    <2>1. CASE W!Transport \/ W!FirstPing \/ W!SearchPing \/ W!WaitForAgent
      BY <2>1 DEF W!Transport, WP!Transport, W!FirstPing, WP!FirstPing,
                  W!SearchPing, WP!SearchPing, W!WaitForAgent, WP!WaitForAgent
    <2>2. CASE W!SessionInit \/ W!RetryDelay \/ W!SessionFini \/ W!ReconnectDelay
      BY <2>2 DEF W!SessionInit, WP!SessionInit, W!RetryDelay, WP!RetryDelay,
                  W!SessionFini, WP!SessionFini, W!ReconnectDelay, WP!ReconnectDelay
    <2>3. CASE W!Pass \/ W!Ping \/ W!Diag
      BY <2>3 DEF W!Pass, WP!Pass, W!Ping, WP!Ping, W!Diag, WP!Diag
    <2>4. QED
      BY <1>7, <2>1, <2>2, <2>3 DEF Bridge
  <1>8. QED
    BY <1>1, <1>2, <1>3, <1>4, <1>5, <1>6, <1>7 DEF Main

LEMMA StartBound == wpc = "usb" /\ since = 0 => WP!BoundInv
  BY DEF WP!BoundInv, WP!Longest

LEMMA BootBound == WP!BoundInv /\ [BootNext]_bootVars => WP!BoundInv'
  <1> SUFFICES ASSUME WP!BoundInv, [BootNext]_bootVars PROVE WP!BoundInv'
    OBVIOUS
  <1>1. [WP!Next]_<<wpc, since>> => WP!BoundInv'
    <2>1. WP!BoundInv /\ [WP!Next]_(WP!vars) => WP!BoundInv'
      BY WP!BoundStep, SameTimes
    <2>2. QED
      BY <2>1 DEF WP!vars
  <1>2. CASE Main
    BY <1>1, <1>2, MainIsStretch
  <1>3. CASE Outside
    BY <1>1, <1>3 DEF Outside
  <1>4. CASE Restart
    <2>1. (wpc = "usb" /\ since = 0 => WP!BoundInv)'
      BY StartBound, PTL
    <2>2. QED
      BY <1>4, <2>1 DEF Restart
  <1>5. CASE UNCHANGED bootVars
    BY <1>1, <1>5 DEF bootVars
  <1>6. QED
    BY <1>2, <1>3, <1>4, <1>5 DEF BootNext

(* A board that boots, waits for its network and runs its bridge, with the *)
(* durations the budget allows, never sees its watchdog fire.              *)
THEOREM BootNeverReset == BootSpec => []NoReset
  <1>1. BootInit => WP!BoundInv
    BY StartBound DEF BootInit, W!Init
  <1>2. WP!BoundInv => NoReset
    BY WP!BoundSuffices, SameTimes DEF WP!NoReset, NoReset
  <1>3. QED
    BY <1>1, <1>2, BootBound, PTL DEF BootSpec

-----------------------------------------------------------------------------
(* Until the network is begun the address is the devicetree's.             *)
MacInv == (wpc \in {"usb", "config", "channels"} => mac = DtsMac) /\ OneMac

LEMMA MacStep == MacInv /\ [BootNext]_bootVars => MacInv'
  <1> SUFFICES ASSUME MacInv, [BootNext]_bootVars PROVE MacInv'
    OBVIOUS
  <1> USE DEF MacInv, OneMac, ChosenMac, board
  <1>1. ASSUME Main PROVE MacInv'
    <2>1. UNCHANGED <<cfgMac, hwId>>
      BY <1>1 DEF Main
    <2>2. CASE Starting
      BY <2>1, <2>2 DEF Starting, W!UsbWait, W!ConfigInit, W!Unfed
    <2>3. CASE BeginNetwork
      <3>1. wpc = "channels" /\ wpc' \in {"link", "address"} /\ ApplyMac
        BY <2>3 DEF BeginNetwork, W!Channels, W!Fed
      <3>2. QED
        BY <2>1, <3>1 DEF ApplyMac, SetMac, DtsMac
    <2>4. CASE Timeless
      BY <2>1, <2>4 DEF Timeless
    <2>5. ASSUME mac' = mac, wpc \in {"link", "address"}, wpc' \in {"link", "address", "transport"}
          PROVE  MacInv'
      BY <2>1, <2>5
    <2>6. CASE WaitForLink
      BY <2>5, <2>6 DEF WaitForLink, W!LinkSlice, W!Fed
    <2>7. CASE WaitForLease
      BY <2>5, <2>7 DEF WaitForLease, W!DhcpSlice, W!Fed
    <2>8. CASE StaticAddress
      BY <2>5, <2>8 DEF StaticAddress, W!StaticIp, W!Unfed
    <2>9. CASE Bridge
      <3>1. /\ wpc \notin {"usb", "config", "channels"} /\ mac' = mac
            /\ wpc' \notin {"usb", "config", "channels"}
        BY <2>9 DEF Bridge, W!Unfed, W!Fed, W!Transport, W!FirstPing, W!SearchPing,
                    W!WaitForAgent, W!SessionInit, W!RetryDelay, W!Pass, W!Ping, W!Diag,
                    W!SessionFini, W!ReconnectDelay
      <3>2. QED
        BY <2>1, <3>1
    <2>10. QED
      BY <1>1, <2>2, <2>3, <2>4, <2>6, <2>7, <2>8, <2>9 DEF Main
  <1>2. CASE Outside
    BY <1>2 DEF Outside
  <1>3. CASE Restart
    BY <1>3 DEF Restart
  <1>4. CASE UNCHANGED bootVars
    BY <1>4 DEF bootVars
  <1>5. QED
    BY <1>1, <1>2, <1>3, <1>4 DEF BootNext

(* Driver, chip and interface hold the chosen address whenever a frame can *)
(* leave, for any setting, device id and number of restarts.               *)
THEOREM SameMac == BootSpec => []OneMac
  <1>1. BootInit => MacInv
    BY DEF BootInit, W!Init, MacInv, OneMac
  <1>2. MacInv => OneMac
    BY DEF MacInv
  <1>3. QED
    BY <1>1, <1>2, MacStep, PTL DEF BootSpec
=============================================================================
