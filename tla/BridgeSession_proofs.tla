------------------------ MODULE BridgeSession_proofs ------------------------
(***************************************************************************)
(* Proofs about BridgeSession, for every number of channels and services:  *)
(* its invariants, and the one that carries them, which says of each       *)
(* program point exactly which objects may and must exist there.           *)
(***************************************************************************)
EXTENDS BridgeSession, FiniteSetTheorems, TLAPS

Entities == Pubs \cup Subs

(* The objects that exist at each point of bridge_run.                     *)
LiveAt ==
  /\ pc \in {"search", "support"} => live = {}
  /\ pc = "node" => live = {"support"}
  /\ pc \in {"entities", "diag", "executor"} => {"support", "node"} \subseteq live
  /\ pc \in {"entities", "diag", "executor"} => live \cap (Services \cup {"executor"}) = {}
  /\ pc \in {"subs", "services", "run", "fini_services", "fini_diag", "fini_entities"}
       => Structs \subseteq live
  /\ pc \in {"fini_diag", "fini_entities"} => live \cap Services = {}
  /\ pc = "fini_entities" => "diag" \notin live
  /\ pc = "fini_executor" => live = Structs
  /\ pc = "fini_node" => live = {"support", "node"}
  /\ pc = "fini_support" => live = {"support"}

Status ==
  /\ pc \in {"search", "support", "node", "entities", "diag", "executor", "subs", "services"}
       => ~session_active /\ ~led
  /\ pc # "run" => ~led

(* The executor's handles, and the subscriptions still to be added, exist. *)
HandlesAt ==
  /\ pc \in {"subs", "services", "run"} => handles \subseteq live
  /\ pc = "subs" => todo \subseteq live \cap Subs
  /\ pc = "services" => todo \subseteq Services
  /\ pc = "entities" => todo \subseteq Entities

SessionInv == TypeOK /\ LiveAt /\ Status /\ HandlesAt

----------------------------------------------------------------------------
(* The kinds of object are told apart.                                     *)
LEMMA Disjoint ==
  /\ Pubs \cap (Structs \cup {"diag"}) = {} /\ Subs \cap (Structs \cup {"diag"}) = {}
  /\ Services \cap (Structs \cup {"diag"}) = {} /\ Services \cap Entities = {}
  BY Assumption DEF Assumption, Structs, Entities

(* The count of reconnections stays within its bound.                      *)
LEMMA CounterType ==
  /\ 0 \in 0..MaxReconnects
  /\ \A r \in 0..MaxReconnects :
       (IF r < MaxReconnects THEN r + 1 ELSE MaxReconnects) \in 0..MaxReconnects
  BY Assumption DEF Assumption

LEMMA SessionInit == Init => SessionInv
  <1> SUFFICES ASSUME Init PROVE SessionInv
    OBVIOUS
  <1>1. TypeOK
    BY CounterType DEF Init, TypeOK
  <1>2. LiveAt
    BY DEF Init, LiveAt
  <1>3. Status /\ HandlesAt
    BY DEF Init, Status, HandlesAt
  <1>4. QED
    BY <1>1, <1>2, <1>3 DEF SessionInv

LEMMA HandleCountType == HandleCount \in Nat
  <1>1. IsFiniteSet(Addable)
    BY Assumption, FS_Subset DEF Assumption, Addable
  <1>2. Cardinality(Addable) \in Nat /\ Cardinality(Services) \in Nat
    BY <1>1, Assumption, FS_CardinalityType DEF Assumption
  <1>3. QED
    BY <1>2 DEF HandleCount

(* One step per action, one leaf per part of the invariant where the parts *)
(* need different facts.                                                   *)
LEMMA SessionStep == SessionInv /\ [Next]_vars => SessionInv'
  <1> SUFFICES ASSUME SessionInv, [Next]_vars PROVE SessionInv'
    OBVIOUS
  <1> USE Disjoint DEF SessionInv, TypeOK, LiveAt, Status, HandlesAt, Entities, Structs,
                       status, Object
  <1>1. CASE UNCHANGED vars
    BY <1>1 DEF vars
  <1>2. CASE AgentChanges
    <2>1. agent' \in BOOLEAN /\ known' \in BOOLEAN
      BY <1>2 DEF AgentChanges
    <2>2. UNCHANGED <<pc, live, dirty, todo, handles, capacity, session_active, led, reconnects>>
      BY <1>2 DEF AgentChanges
    <2>3. LiveAt' /\ Status' /\ HandlesAt'
      BY <2>2
    <2>4. TypeOK'
      BY <2>1, <2>2
    <2>5. QED
      BY <2>3, <2>4
  <1>3. CASE Search
    BY <1>3 DEF Search
  <1>4. ASSUME NEW ok \in BOOLEAN, SupportInit(ok) PROVE SessionInv'
    BY <1>4 DEF SupportInit, Memset
  <1>5. ASSUME NEW ok \in BOOLEAN, NodeInit(ok) PROVE SessionInv'
    BY <1>5 DEF NodeInit
  <1>6. ASSUME NEW ok \in BOOLEAN, NEW x \in Pubs \cup Subs, CreateEntity(x, ok)
        PROVE  SessionInv'
    <2>1. x \notin Services \cup {"executor", "diag"}
      BY Disjoint
    <2>2. LiveAt'
      BY <1>6, <2>1 DEF CreateEntity
    <2>3. TypeOK' /\ Status' /\ HandlesAt'
      BY <1>6 DEF CreateEntity
    <2>4. QED
      BY <2>2, <2>3
  <1>7. CASE EntitiesDone
    BY <1>7 DEF EntitiesDone
  <1>8. ASSUME NEW ok \in BOOLEAN, DiagInit(ok) PROVE SessionInv'
    BY <1>8 DEF DiagInit
  <1>9. ASSUME NEW ok \in BOOLEAN, ExecutorInit(ok) PROVE SessionInv'
    <2>1. CASE ok
      <3>1. pc' = "subs" /\ todo' = live \cap Subs /\ live' = live \cup {"executor"}
        BY <1>9, <2>1 DEF ExecutorInit, Addable
      <3>2. LiveAt' /\ Status'
        BY <1>9, <3>1 DEF ExecutorInit
      <3>3. HandlesAt' /\ TypeOK'
        BY <1>9, <3>1, HandleCountType DEF ExecutorInit
      <3>4. QED
        BY <3>2, <3>3
    <2>2. CASE ~ok
      <3>1. live' = {}
        BY <1>9, <2>2 DEF ExecutorInit, Unwound
      <3>2. QED
        BY <1>9, <2>2, <3>1, HandleCountType DEF ExecutorInit
    <2>3. QED
      BY <2>1, <2>2
  <1>10. ASSUME NEW ok \in BOOLEAN, NEW x \in Pubs \cup Subs, AddSub(x, ok)
         PROVE  SessionInv'
    BY <1>10 DEF AddSub
  <1>11. CASE SubsDone
    BY <1>11 DEF SubsDone
  <1>12. ASSUME NEW x \in Services, NEW created \in BOOLEAN, NEW added \in BOOLEAN,
                InitService(x, created, added)
         PROVE  SessionInv'
    BY <1>12 DEF InitService
  <1>13. CASE SessionUp
    BY <1>13 DEF SessionUp
  <1>14. CASE PingFails
    BY <1>14 DEF PingFails
  <1>15. CASE ServiceFini
    BY <1>15 DEF ServiceFini, Fini
  <1>16. CASE DiagFini
    BY <1>16 DEF DiagFini, Fini
  <1>17. CASE EntitiesFini
    <2>1. live' = Structs
      BY <1>17 DEF EntitiesFini, Fini
    <2>2. QED
      BY <1>17, <2>1 DEF EntitiesFini, Fini
  <1>18. CASE ExecutorFini
    BY <1>18 DEF ExecutorFini, Fini
  <1>19. CASE NodeFini
    BY <1>19 DEF NodeFini, Fini
  <1>20. CASE SupportFini
    <2>1. reconnects' \in 0..MaxReconnects
      BY <1>20, CounterType DEF SupportFini
    <2>2. QED
      BY <1>20, <2>1 DEF SupportFini, Fini
  <1>21. QED
    BY <1>1, <1>2, <1>3, <1>4, <1>5, <1>6, <1>7, <1>8, <1>9, <1>10, <1>11, <1>12, <1>13,
       <1>14, <1>15, <1>16, <1>17, <1>18, <1>19, <1>20 DEF Next, Step, Works

(* The type invariant of the session, for every set of objects.            *)
THEOREM TypeCorrect == Spec => []TypeOK
  <1>1. SessionInv => TypeOK
    BY DEF SessionInv
  <1>2. QED
    BY <1>1, SessionInit, SessionStep, PTL DEF Spec

(* On every path of ros_session_init, its error returns and                *)
(* ros_session_fini, no publisher, subscription, service or diagnostics    *)
(* entity exists without its node, and no node or executor without support.*)
THEOREM ParentsOutlive == Spec => []ChildrenHaveParents
  <1>1. SessionInv => ChildrenHaveParents
    BY Disjoint DEF SessionInv, TypeOK, LiveAt, ChildrenHaveParents, Structs, Entities
  <1>2. QED
    BY <1>1, SessionInit, SessionStep, PTL DEF Spec

(* Nothing is left of an attempt or of a session when the next search      *)
(* begins, whichever calls failed.                                         *)
THEOREM CleanSearch == Spec => []SearchStartsClean
  <1>1. SessionInv => SearchStartsClean
    BY DEF SessionInv, LiveAt, Status, SearchStartsClean
  <1>2. QED
    BY <1>1, SessionInit, SessionStep, PTL DEF Spec

(* The handles the executor walks while spinning belong to live entities.  *)
THEOREM LiveHandles == Spec => []SpinsOnlyLive
  <1>1. SessionInv => SpinsOnlyLive
    BY DEF SessionInv, LiveAt, HandlesAt, SpinsOnlyLive
  <1>2. QED
    BY <1>1, SessionInit, SessionStep, PTL DEF Spec

-----------------------------------------------------------------------------
(* Room in the executor: what is to be added still fits.                   *)
Room ==
  /\ pc = "subs" => Cardinality(handles) + Cardinality(todo) + Cardinality(Services) <= capacity
  /\ pc = "services" => Cardinality(handles) + Cardinality(todo) <= capacity

(* Every set of objects the counts are taken of is finite.                 *)
LEMMA Finite == SessionInv => IsFiniteSet(todo) /\ IsFiniteSet(handles) /\ IsFiniteSet(Addable)
  <1> SUFFICES ASSUME SessionInv
               PROVE  IsFiniteSet(todo) /\ IsFiniteSet(handles) /\ IsFiniteSet(Addable)
    OBVIOUS
  <1>1. IsFiniteSet(Pubs \cup Subs \cup Services) /\ IsFiniteSet(Subs)
    BY Assumption, FS_Union DEF Assumption
  <1>2. /\ todo \subseteq Pubs \cup Subs \cup Services
        /\ handles \subseteq Pubs \cup Subs \cup Services
        /\ Addable \subseteq Subs
    BY DEF SessionInv, TypeOK, Addable
  <1>3. QED
    BY <1>1, <1>2, FS_Subset

(* Moving one entity from todo to handles keeps the sum.                   *)
LEMMA MoveOne ==
  ASSUME NEW T, NEW H, NEW x \in T, IsFiniteSet(T), IsFiniteSet(H)
  PROVE  /\ Cardinality(T \ {x}) \in Nat /\ Cardinality(H \cup {x}) \in Nat
         /\ Cardinality(T \ {x}) + 1 = Cardinality(T)
         /\ Cardinality(H \cup {x}) <= Cardinality(H) + 1
  <1>1. IsFiniteSet(T \ {x}) /\ IsFiniteSet(H \cup {x})
    BY FS_RemoveElement, FS_AddElement
  <1>2. Cardinality(T) \in Nat /\ Cardinality(H) \in Nat
        /\ Cardinality(T \ {x}) \in Nat /\ Cardinality(H \cup {x}) \in Nat
    BY <1>1, FS_CardinalityType
  <1>3. Cardinality(T \ {x}) = Cardinality(T) - 1
    BY FS_RemoveElement
  <1>4. Cardinality(H \cup {x}) = Cardinality(H) \/ Cardinality(H \cup {x}) = Cardinality(H) + 1
    BY FS_AddElement
  <1>5. QED
    BY <1>2, <1>3, <1>4


LEMMA RoomStep == SessionInv /\ Room /\ [Next]_vars => Room'
  <1> SUFFICES ASSUME SessionInv, Room, [Next]_vars PROVE Room'
    OBVIOUS
  <1> DEFINE C(S) == Cardinality(S)
  <1>0. IsFiniteSet(todo) /\ IsFiniteSet(handles) /\ IsFiniteSet(Addable)
    BY Finite
  <1>1. C(todo) \in Nat /\ C(handles) \in Nat /\ C(Services) \in Nat /\ C(Addable) \in Nat
    BY <1>0, Assumption, FS_CardinalityType DEF Assumption
  <1>2. C({}) = 0
    BY FS_EmptySet
  <1>3. ASSUME NEW ok \in BOOLEAN, ExecutorInit(ok) PROVE Room'
    <2>1. HandleCount \in Nat /\ C(Addable) + C(Services) <= HandleCount
      BY <1>1 DEF HandleCount
    <2>2. CASE ok
      <3>1. pc' = "subs" /\ todo' = Addable /\ handles' = {} /\ capacity' = HandleCount
        BY <1>3, <2>2 DEF ExecutorInit
      <3>2. QED
        BY <3>1, <2>1, <1>1, <1>2 DEF Room
    <2>3. CASE ~ok
      BY <1>3, <2>3 DEF ExecutorInit, Room
    <2>4. QED
      BY <2>2, <2>3
  <1>4. ASSUME NEW ok \in BOOLEAN, NEW x \in Pubs \cup Subs, AddSub(x, ok) PROVE Room'
    <2>1. pc = "subs" /\ pc' = "subs" /\ capacity' = capacity /\ x \in todo
      BY <1>4 DEF AddSub
    <2>2. capacity \in Nat
      BY DEF SessionInv, TypeOK
    <2>3. CASE ok
      <3>1. todo' = todo \ {x} /\ handles' = handles \cup {x}
        BY <1>4, <2>3 DEF AddSub
      <3>2. /\ C(todo \ {x}) \in Nat /\ C(handles \cup {x}) \in Nat
            /\ C(todo \ {x}) + 1 = C(todo) /\ C(handles \cup {x}) <= C(handles) + 1
        BY <1>0, <2>1, MoveOne
      <3>3. QED
        BY <2>1, <2>2, <3>1, <3>2, <1>1 DEF Room
    <2>4. CASE ~ok
      <3>1. todo' = {} /\ handles' = handles
        BY <1>4, <2>4 DEF AddSub
      <3>2. QED
        BY <2>1, <2>2, <3>1, <1>1, <1>2 DEF Room
    <2>5. QED
      BY <2>3, <2>4
  <1>5. CASE SubsDone
    <2>1. pc = "subs" /\ pc' = "services" /\ todo' = Services
          /\ handles' = handles /\ capacity' = capacity
      BY <1>5 DEF SubsDone
    <2>2. capacity \in Nat
      BY DEF SessionInv, TypeOK
    <2>3. QED
      BY <2>1, <2>2, <1>1 DEF Room
  <1>6. ASSUME NEW x \in Services, NEW created \in BOOLEAN, NEW added \in BOOLEAN,
               InitService(x, created, added)
        PROVE  Room'
    <2>1. pc = "services" /\ pc' = "services" /\ capacity' = capacity /\ x \in todo
          /\ todo' = todo \ {x} /\ (handles' = handles \/ handles' = handles \cup {x})
      BY <1>6 DEF InitService
    <2>2. capacity \in Nat
      BY DEF SessionInv, TypeOK
    <2>3. /\ C(todo \ {x}) \in Nat /\ C(handles \cup {x}) \in Nat
          /\ C(todo \ {x}) + 1 = C(todo) /\ C(handles \cup {x}) <= C(handles) + 1
      BY <1>0, <2>1, MoveOne
    <2>4. QED
      BY <2>1, <2>2, <2>3, <1>1 DEF Room
  <1>7. CASE UNCHANGED <<pc, todo, handles, capacity>>
    BY <1>7 DEF Room
  <1>8. CASE pc' \notin {"subs", "services"}
    BY <1>8 DEF Room
  <1>9. AgentChanges \/ UNCHANGED vars => UNCHANGED <<pc, todo, handles, capacity>>
    BY DEF AgentChanges, vars
  <1>10. ASSUME NEW ok \in BOOLEAN, SupportInit(ok) \/ NodeInit(ok) \/ DiagInit(ok)
         PROVE  pc' \notin {"subs", "services"}
    BY <1>10 DEF SupportInit, NodeInit, DiagInit
  <1>11. ASSUME NEW ok \in BOOLEAN, NEW x \in Pubs \cup Subs, CreateEntity(x, ok)
         PROVE  pc' \notin {"subs", "services"}
    BY <1>11 DEF CreateEntity
  <1>12. Search \/ EntitiesDone \/ SessionUp \/ PingFails => pc' \notin {"subs", "services"}
    BY DEF Search, EntitiesDone, SessionUp, PingFails
  <1>13. ServiceFini \/ DiagFini \/ EntitiesFini \/ ExecutorFini \/ NodeFini \/ SupportFini
           => pc' \notin {"subs", "services"}
    BY DEF ServiceFini, DiagFini, EntitiesFini, ExecutorFini, NodeFini, SupportFini, Fini
  <1>14. QED
    BY <1>3, <1>4, <1>5, <1>6, <1>7, <1>8, <1>9, <1>10, <1>11, <1>12, <1>13
       DEF Next, Step, Works

(* The executor is initialised with a handle count that never runs out     *)
(* while subscriptions and services are added to it.                       *)
THEOREM RoomForAll == Spec => []ExecutorHasRoom
  <1>1. Init => Room
    BY DEF Init, Room
  <1>2. ASSUME SessionInv, Room PROVE ExecutorHasRoom
    <2>1. IsFiniteSet(todo) /\ IsFiniteSet(handles) /\ IsFiniteSet(Services)
      BY <1>2, Finite, Assumption DEF Assumption
    <2>2. Cardinality(todo) \in Nat /\ Cardinality(handles) \in Nat /\ Cardinality(Services) \in Nat
      BY <2>1, FS_CardinalityType
    <2>3. todo # {} => Cardinality(todo) # 0
      BY <2>1, FS_EmptySet
    <2>4. capacity \in Nat
      BY <1>2 DEF SessionInv, TypeOK
    <2>5. QED
      BY <1>2, <2>2, <2>3, <2>4 DEF Room, ExecutorHasRoom
  <1>3. QED
    BY <1>1, <1>2, SessionInit, SessionStep, RoomStep, PTL DEF Spec

=============================================================================
