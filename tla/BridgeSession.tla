--------------------------- MODULE BridgeSession ---------------------------
(***************************************************************************)
(* The reconnection loop of the main thread (common/src/main.c,            *)
(* bridge_run) with session initialisation and cleanup: every micro-ROS    *)
(* object the bridge creates, in the order it creates and destroys them,   *)
(* and every place where creation may fail.  The agent comes and goes      *)
(* between any two steps.                                                  *)
(***************************************************************************)
EXTENDS Integers, FiniteSets

CONSTANTS
  Pubs,          (* channels with a topic to publish                       *)
  Subs,          (* channels with a topic to subscribe to                  *)
  Services,      (* services registered before the session                 *)
  MaxReconnects  (* g_reconnect_count is followed up to this value         *)

Structs == {"support", "node", "executor"}

ASSUME Assumption ==
  /\ IsFiniteSet(Pubs) /\ IsFiniteSet(Subs) /\ IsFiniteSet(Services)
  /\ Pubs \cap Subs = {} /\ (Pubs \cup Subs) \cap Services = {}
  /\ (Pubs \cup Subs \cup Services) \cap (Structs \cup {"diag"}) = {}
  /\ MaxReconnects \in Nat

Object == Structs \cup {"diag"} \cup Pubs \cup Subs \cup Services

VARIABLES
  pc,        (* what the main thread does next                             *)
  agent,     (* the agent answers pings                                    *)
  known,     (* the agent process still holds the session of the bridge    *)
  live,      (* micro-ROS objects that exist                               *)
  dirty,     (* static structs that do not hold zeroes                     *)
  todo,      (* what the loop at pc still has to go through                *)
  handles,   (* entities added to the executor                             *)
  capacity,  (* handle_count the executor was initialised with             *)
  session_active, led, reconnects

vars == <<pc, agent, known, live, dirty, todo, handles, capacity, session_active, led, reconnects>>

status == <<agent, known, session_active, led, reconnects>>

Init ==
  /\ pc = "search" /\ agent \in BOOLEAN /\ known = FALSE
  /\ live = {} /\ dirty = {} /\ todo = {} /\ handles = {} /\ capacity = 0
  /\ session_active = FALSE /\ led = FALSE /\ reconnects = 0

(* The cable to the agent is pulled or replugged, or the agent process     *)
(* stops or starts; a process that stops takes its sessions with it.       *)
AgentChanges ==
  /\ agent' = ~agent
  /\ known' \in {known, FALSE}
  /\ UNCHANGED <<pc, live, dirty, todo, handles, capacity, session_active, led, reconnects>>

-----------------------------------------------------------------------------
(* Phase 1: one ping.  Without an answer the LED goes off and the loop     *)
(* sleeps and tries again.                                                 *)
Search ==
  /\ pc = "search"
  /\ IF agent THEN pc' = "support" /\ UNCHANGED led
              ELSE led' = FALSE /\ UNCHANGED pc
  /\ UNCHANGED <<agent, known, live, dirty, todo, handles, capacity, session_active, reconnects>>

-----------------------------------------------------------------------------
(* Phase 2: ros_session_init.  "ok" is whether the library call succeeds.  *)

(* memset of the three static structs, then rclc_support_init, which fails *)
(* on a struct that is not zeroed and needs the agent to open the session. *)
(* A call leaves its struct in use.                                        *)
Memset_Dropped == dirty
Memset         == dirty \ Structs

SupportInit(ok) ==
  /\ pc = "support"
  /\ ok => agent /\ "support" \notin Memset
  /\ dirty' = Memset \cup {"support"}
  /\ IF ok THEN pc' = "node" /\ live' = live \cup {"support"}
           ELSE pc' = "search" /\ UNCHANGED live
  /\ known' = IF ok THEN TRUE ELSE known
  /\ UNCHANGED <<agent, session_active, led, reconnects, todo, handles, capacity>>

NodeInit(ok) ==
  /\ pc = "node"
  /\ dirty' = dirty \cup {"node"}
  /\ IF ok THEN /\ pc' = "entities" /\ todo' = Pubs \cup Subs
                /\ live' = live \cup {"node"}
           ELSE /\ pc' = "search" /\ UNCHANGED todo
                /\ live' = live \ {"support"}
  /\ UNCHANGED <<status, handles, capacity>>

(* channel_manager_create_entities: a publisher or subscription that       *)
(* cannot be created is only logged.                                       *)
CreateEntity(x, ok) ==
  /\ pc = "entities" /\ x \in todo
  /\ todo' = todo \ {x}
  /\ live' = IF ok THEN live \cup {x} ELSE live
  /\ UNCHANGED <<status, pc, dirty, handles, capacity>>

EntitiesDone ==
  /\ pc = "entities" /\ todo = {}
  /\ pc' = "diag"
  /\ UNCHANGED <<status, live, dirty, todo, handles, capacity>>

(* diagnostics_init: failure is a warning.                                 *)
DiagInit(ok) ==
  /\ pc = "diag"
  /\ live' = IF ok THEN live \cup {"diag"} ELSE live
  /\ pc' = "executor"
  /\ UNCHANGED <<status, dirty, todo, handles, capacity>>

(* handle_count, then rclc_executor_init.  Failure unwinds diagnostics,    *)
(* channel entities, node and support.                                     *)
Addable_Channels == live \cap (Pubs \cup Subs)
Addable_All      == Subs
Addable          == live \cap Subs

HandleCount_Subs == IF Addable = {} THEN 1 ELSE Cardinality(Addable)

HandleCount ==
  LET n == Cardinality(Addable) + Cardinality(Services)
  IN IF n < 1 THEN 1 ELSE n

Unwound_NoDiag    == {"node", "support"} \cup Pubs \cup Subs
Unwound_NoSupport == {"diag", "node"} \cup Pubs \cup Subs
Unwound           == {"diag", "node", "support"} \cup Pubs \cup Subs

ExecutorInit(ok) ==
  /\ pc = "executor"
  /\ capacity' = HandleCount
  /\ dirty' = dirty \cup {"executor"}
  /\ IF ok THEN /\ pc' = "subs" /\ todo' = Addable
                /\ live' = live \cup {"executor"}
           ELSE /\ pc' = "search" /\ UNCHANGED todo
                /\ live' = live \ Unwound
  /\ handles' = {}
  /\ UNCHANGED status

(* channel_manager_add_subs_to_executor gives up at the first failure and  *)
(* ros_session_init ignores the result.  Which subscriptions come first    *)
(* (their registry order) is left open.                                    *)
AddSub(x, ok) ==
  /\ pc = "subs" /\ x \in todo
  /\ ok => Cardinality(handles) < capacity
  /\ todo'    = IF ok THEN todo \ {x} ELSE {}
  /\ handles' = IF ok THEN handles \cup {x} ELSE handles
  /\ UNCHANGED <<status, pc, live, dirty, capacity>>

SubsDone ==
  /\ pc = "subs" /\ todo = {}
  /\ pc' = "services" /\ todo' = Services
  /\ UNCHANGED <<status, live, dirty, handles, capacity>>

(* service_manager_init: a service that cannot be created is skipped, one  *)
(* the executor rejects is destroyed again.                                *)
InitService(x, created, added) ==
  /\ pc = "services" /\ x \in todo
  /\ added => created /\ Cardinality(handles) < capacity
  /\ todo'    = todo \ {x}
  /\ live'    = IF added THEN live \cup {x} ELSE live
  /\ handles' = IF added THEN handles \cup {x} ELSE handles
  /\ UNCHANGED <<status, pc, dirty, capacity>>

(* param_server_load_from_config, session_active = true, then led_set(true)*)
SessionUp ==
  /\ pc = "services" /\ todo = {}
  /\ pc' = "run" /\ session_active' = TRUE /\ led' = TRUE
  /\ UNCHANGED <<agent, known, live, dirty, todo, handles, capacity, reconnects>>

-----------------------------------------------------------------------------
(* Phase 3: passes of the loop until a ping fails.                         *)
PingFails ==
  /\ pc = "run" /\ ~agent
  /\ pc' = "fini_services" /\ led' = FALSE
  /\ UNCHANGED <<agent, known, live, dirty, todo, handles, capacity, session_active, reconnects>>

-----------------------------------------------------------------------------
(* Phase 4: ros_session_fini, one library layer after the other.           *)
Fini(here, next, gone) ==
  /\ pc = here
  /\ pc' = next
  /\ live' = live \ gone
  /\ UNCHANGED <<agent, known, led, dirty, todo, capacity>>

ServiceFini  == Fini("fini_services", "fini_diag", Services)
                /\ UNCHANGED <<handles, session_active, reconnects>>
DiagFini     == Fini("fini_diag", "fini_entities", {"diag"})
                /\ UNCHANGED <<handles, session_active, reconnects>>
EntitiesFini == Fini("fini_entities", "fini_executor", Pubs \cup Subs)
                /\ UNCHANGED <<handles, session_active, reconnects>>
ExecutorFini == Fini("fini_executor", "fini_node", {"executor"})
                /\ handles' = {}
                /\ UNCHANGED <<session_active, reconnects>>
NodeFini     == Fini("fini_node", "fini_support", {"node"})
                /\ UNCHANGED <<handles, session_active, reconnects>>
SupportFini  == Fini("fini_support", "search", {"support"})
                /\ session_active' = FALSE
                /\ UNCHANGED handles
                /\ reconnects' = IF reconnects < MaxReconnects THEN reconnects + 1
                                 ELSE MaxReconnects

-----------------------------------------------------------------------------
Works(ok) == \/ SupportInit(ok) \/ NodeInit(ok) \/ DiagInit(ok) \/ ExecutorInit(ok)
             \/ \E x \in Pubs \cup Subs : CreateEntity(x, ok) \/ AddSub(x, ok)

Step ==
  \/ Search \/ (\E ok \in BOOLEAN : Works(ok))
  \/ EntitiesDone \/ SubsDone \/ SessionUp \/ PingFails
  \/ \E x \in Services, created \in BOOLEAN, added \in BOOLEAN : InitService(x, created, added)
  \/ ServiceFini \/ DiagFini \/ EntitiesFini \/ ExecutorFini \/ NodeFini \/ SupportFini

Next == Step \/ AgentChanges

Spec == Init /\ [][Next]_vars

(* The main thread keeps running; a library call that is repeated for ever *)
(* on zeroed structs does not fail for ever.                               *)
Fairness ==
  /\ WF_vars(Step)
  /\ SF_vars(SupportInit(TRUE)) /\ SF_vars(NodeInit(TRUE)) /\ SF_vars(ExecutorInit(TRUE))

FairSpec == Spec /\ Fairness

-----------------------------------------------------------------------------
TypeOK ==
  /\ pc \in {"search", "support", "node", "entities", "diag", "executor", "subs",
             "services", "run", "fini_services", "fini_diag", "fini_entities",
             "fini_executor", "fini_node", "fini_support"}
  /\ agent \in BOOLEAN /\ known \in BOOLEAN /\ session_active \in BOOLEAN /\ led \in BOOLEAN
  /\ live \subseteq Object /\ dirty \subseteq Structs
  /\ todo \subseteq Pubs \cup Subs \cup Services
  /\ handles \subseteq Subs \cup Services
  /\ capacity \in Nat /\ reconnects \in 0..MaxReconnects

(* "Destroying the node before its children (subscriptions, publishers,    *)
(* services) causes use-after-free" (TECHNICAL_OVERVIEW.md:514): on every  *)
(* path through init, its error paths and cleanup a child has its parent.  *)
ChildrenHaveParents ==
  /\ live \cap ({"diag"} \cup Pubs \cup Subs \cup Services) # {} => "node" \in live
  /\ live \cap {"node", "executor"} # {} => "support" \in live

(* An attempt starts from nothing: whichever call failed, or however far a *)
(* session got, no object is left behind when the next search begins, the  *)
(* LED is off and no session is marked active.                             *)
SearchStartsClean == pc = "search" => live = {} /\ ~session_active /\ ~led

(* The executor is sized before the entities are added to it: handle_count *)
(* leaves room for everything that will be added later.                    *)
ExecutorHasRoom ==
  pc \in {"subs", "services"} /\ todo # {} => Cardinality(handles) < capacity

(* While the loop spins, every handle it walks belongs to an entity that   *)
(* exists, although creating any of them may have failed.                  *)
SpinsOnlyLive == pc = "run" => handles \cup Structs \subseteq live

(* Every failure is retried and every lost session rebuilt: once the agent *)
(* stays reachable the bridge ends up in a session and stays there.        *)
SessionReturns == <>[]agent => <>[](pc = "run")

(* "Agent disappears mid-session: ping failure in Phase 3, Phase 4 cleanup"*)
(* (TECHNICAL_OVERVIEW.md:1037): a session the agent no longer holds is    *)
(* noticed and left.  The ping asks whether an agent answers, not whether  *)
(* it knows this session.                                                  *)
LostSessionDetected == (pc = "run" /\ ~known) ~> (pc # "run")
=============================================================================
