-------------------------- MODULE Watchdog_proofs ---------------------------
(***************************************************************************)
(* The watchdog never resets a bridge whose durations meet the budget, for *)
(* every choice of those durations.                                        *)
(***************************************************************************)
EXTENDS Watchdog, TLAPS

(* The longest the watchdog can have been unfed when a stretch begins.     *)
Longest ==
  [p \in {"usb", "config", "channels", "link", "address", "transport", "top", "search",
          "wait", "init", "retry", "pass", "ping", "diag", "fini", "again"} |->
    CASE p = "usb"       -> 0
      [] p = "config"    -> DTR_POLL
      [] p = "channels"  -> DTR_POLL + ConfigTime
      [] p \in {"link", "address"} -> Max2(ChannelsTime, NET_SLICE)
      [] p = "transport" -> Max2(ChannelsTime, NET_SLICE) + STATIC_IP
      [] p = "search"    -> Max2(AGENT_PING, AGENT_WAIT_DELAY)
      [] p \in {"wait", "init"} -> Search
      [] p = "retry"     -> Search + InitTime
      [] p = "diag"      -> AGENT_PING
      [] p = "fini"      -> AGENT_PING
      [] p = "again"     -> AGENT_PING + FiniTime
      [] p = "pass"      -> WDT_TIMEOUT - 1 - PassTime
      [] OTHER           -> WDT_TIMEOUT - 1]

BoundInv == pc \in DOMAIN Longest /\ since \in Nat /\ since <= Longest[pc]

LEMMA Types ==
  /\ WDT_TIMEOUT \in Nat /\ AGENT_PING \in Nat /\ AGENT_WAIT_DELAY \in Nat /\ DTR_POLL \in Nat
  /\ NET_SLICE \in Nat /\ STATIC_IP \in Nat /\ ConfigTime \in Nat /\ ChannelsTime \in Nat
  /\ TransportTime \in Nat /\ InitTime \in Nat /\ FiniTime \in Nat /\ PassTime \in Nat
  /\ DiagTime \in Nat
  BY TimesAssumption DEF TimesAssumption, Durations

LEMMA BoundStep == BoundInv /\ [Next]_vars => BoundInv'
  <1> SUFFICES ASSUME BoundInv, [Next]_vars PROVE BoundInv'
    OBVIOUS
  <1> USE Types, Budget DEF BoundInv, Longest, Unfed, Fed, Max2, Search, Budget
  <1>1. CASE UNCHANGED vars
    BY <1>1 DEF vars
  <1>2. CASE UsbWait \/ ConfigInit
    BY <1>2 DEF UsbWait, ConfigInit
  <1>3. CASE Channels \/ Transport
    BY <1>3 DEF Channels, Transport
  <1>4. CASE LinkSlice \/ DhcpSlice \/ StaticIp
    BY <1>4 DEF LinkSlice, DhcpSlice, StaticIp
  <1>5. CASE FirstPing
    BY <1>5 DEF FirstPing
  <1>6. CASE SearchPing
    BY <1>6 DEF SearchPing
  <1>7. CASE WaitForAgent
    BY <1>7 DEF WaitForAgent
  <1>8. CASE SessionInit
    BY <1>8 DEF SessionInit
  <1>9. CASE RetryDelay
    BY <1>9 DEF RetryDelay
  <1>10. CASE Pass \/ Ping \/ Diag
    BY <1>10 DEF Pass, Ping, Diag
  <1>11. CASE SessionFini \/ ReconnectDelay
    BY <1>11 DEF SessionFini, ReconnectDelay
  <1>12. QED
    BY <1>1, <1>2, <1>3, <1>4, <1>5, <1>6, <1>7, <1>8, <1>9, <1>10, <1>11 DEF Next

LEMMA BoundSuffices == BoundInv => NoReset
  BY Types, Budget DEF BoundInv, Longest, NoReset, Max2, Search, Budget

(* No chain of stretches without a feed uses up the watchdog timeout.      *)
THEOREM NeverReset == Spec => []NoReset
  <1>1. Init => BoundInv
    BY DEF Init, BoundInv, Longest
  <1>2. QED
    BY <1>1, BoundStep, BoundSuffices, PTL DEF Spec
=============================================================================
