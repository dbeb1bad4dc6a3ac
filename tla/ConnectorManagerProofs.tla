----------------------- MODULE ConnectorManagerProofs -----------------------
(***************************************************************************)
(* Machine-checked proofs about ConnectorManager, for any set of           *)
(* connectors, any timeouts and any channel capacity.                      *)
(***************************************************************************)
EXTENDS ConnectorManager, TLAPS

USE TimeoutsAssumption DEF TimeoutsAssumption

(* The steps of Next, one per action. *)
LEMMA NextCases ==
    ASSUME Next
    PROVE  \/ Tick \/ evaluateHealth \/ healthCheckStops \/ Listen
           \/ DisconnectAllStarts \/ DisconnectAllLocked \/ DisconnectAllReturns
           \/ \E c \in Connectors :
                \/ DisconnectAllCancels(c) \/ RegisterSource(c)
                \/ Connect(c) \/ ConnectorHeartbeat(c) \/ Disconnect(c) \/ DisconnectCancels(c)
                \/ PumpOpens(c) \/ PumpReceives(c) \/ PumpHandles(c) \/ PumpSends(c) \/ PumpEnds(c)
                \/ SourceForwards(c) \/ SourceCloses(c)
BY Zenon DEF Next, Shutdown, healthCheckLoop, Http, runPump

(* The initial state has the right types. *)
LEMMA TypeInit == Init => TypeOK
<1> SUFFICES ASSUME Init PROVE TypeOK
  OBVIOUS
<1>1. missed \in [Connectors -> BOOLEAN]
  BY Zenon DEF Init
<1>2. 0 \in 0..TooOld /\ 0 \in 0..ChannelCap
  BY DEF TooOld
<1>3. age \in [Connectors -> 0..TooOld] /\ channel \in [Connectors -> 0..ChannelCap]
  BY <1>2, Zenon DEF Init
<1>4. /\ health \in [Connectors -> {"absent", "healthy", "degraded", "recovering", "disconnected"}]
      /\ pump \in [Connectors -> {"none", "open", "select", "handle", "send", "done"}]
  BY DEF Init
<1>5. QED
  BY <1>1, <1>3, <1>4, Zenon DEF Init, TypeOK

(* RecordHeartbeat keeps the types of the health variables. *)
LEMMA HeartbeatTypes ==
    ASSUME TypeOK, NEW c \in Connectors, Heartbeat(c)
    PROVE  /\ health' \in [Connectors -> {"absent", "healthy", "degraded", "recovering", "disconnected"}]
           /\ age' \in [Connectors -> 0..TooOld]
           /\ missed' \in [Connectors -> BOOLEAN]
<1>1. CASE health[c] \in {"absent", "disconnected"}
  BY <1>1 DEF Heartbeat, TypeOK, healthVars
<1>2. CASE health[c] \notin {"absent", "disconnected"}
  <2>1. PICK h \in {"healthy", "recovering"} : SetHealth(c, h)
    BY <1>2 DEF Heartbeat
  <2>2. QED
    BY <2>1 DEF SetHealth, TypeOK, TooOld
<1>3. QED
  BY <1>1, <1>2

(* Every step keeps the types. *)
LEMMA TypeStep == TypeOK /\ [Next]_vars => TypeOK'
<1> SUFFICES ASSUME TypeOK, [Next]_vars PROVE TypeOK'
  OBVIOUS
<1> USE DEF TypeOK, healthVars, checkVars, sourceVars, stopVars
<1>1. CASE Tick
  BY <1>1 DEF Tick, TooOld
<1>2. CASE evaluateHealth
  <2>1. \A c \in Connectors :
          Evaluated(c) \in {"absent", "healthy", "degraded", "recovering", "disconnected"}
    BY DEF Evaluated, Late, promoteRecovering
  <2>2. QED
    BY <1>2, <2>1 DEF evaluateHealth
<1>3. CASE healthCheckStops
  BY <1>3 DEF healthCheckStops
<1>4. CASE Listen \/ DisconnectAllStarts \/ DisconnectAllReturns
  BY <1>4 DEF Listen, DisconnectAllStarts, DisconnectAllReturns
<1>5. CASE DisconnectAllLocked
  BY <1>5 DEF DisconnectAllLocked
<1>6. ASSUME NEW c \in Connectors, DisconnectAllCancels(c) PROVE TypeOK'
  BY <1>6 DEF DisconnectAllCancels
<1>7. ASSUME NEW c \in Connectors, RegisterSource(c) PROVE TypeOK'
  BY <1>7 DEF RegisterSource, SetHealth, TooOld
<1>8. ASSUME NEW c \in Connectors, Connect(c) PROVE TypeOK'
  BY <1>8 DEF Connect, SetHealth, TooOld
<1>9. ASSUME NEW c \in Connectors, ConnectorHeartbeat(c) PROVE TypeOK'
  BY <1>9, HeartbeatTypes DEF ConnectorHeartbeat
<1>10. ASSUME NEW c \in Connectors, Disconnect(c) PROVE TypeOK'
  BY <1>10 DEF Disconnect
<1>11. ASSUME NEW c \in Connectors, DisconnectCancels(c) PROVE TypeOK'
  BY <1>11 DEF DisconnectCancels
<1>12. ASSUME NEW c \in Connectors, PumpReceives(c) PROVE TypeOK'
  BY <1>12, HeartbeatTypes DEF PumpReceives, PumpMoves
<1>13. ASSUME NEW c \in Connectors,
              PumpOpens(c) \/ PumpHandles(c) \/ PumpSends(c) \/ PumpEnds(c)
       PROVE  TypeOK'
  BY <1>13 DEF PumpOpens, PumpHandles, PumpSends, PumpEnds, PumpMoves
<1>14. ASSUME NEW c \in Connectors, SourceForwards(c) PROVE TypeOK'
  BY <1>14 DEF SourceForwards
<1>15. ASSUME NEW c \in Connectors, SourceCloses(c) PROVE TypeOK'
  BY <1>15 DEF SourceCloses
<1>16. CASE UNCHANGED vars
  BY <1>16 DEF vars
<1>17. QED
  BY <1>1, <1>2, <1>3, <1>4, <1>5, <1>6, <1>7, <1>8, <1>9, <1>10, <1>11, <1>12, <1>13, <1>14,
     <1>15, <1>16, NextCases

(* manager.go: the manager's maps, pumps and health states keep their types.  *)
THEOREM TypeCorrect == Spec => []TypeOK
BY TypeInit, TypeStep, PTL DEF Spec

-----------------------------------------------------------------------------
(* HealthHonest says nothing of a recovering connector between a tick of the *)
(* clock and the check it makes due: there its heartbeat is at most one      *)
(* period old, which is why the check promotes it before it misses a beat.   *)

RecoveringYoung ==
    \A c \in Connectors : checker = "run" /\ health[c] = "recovering" => age[c] <= 1

HonestInv == TypeOK /\ HealthHonest /\ RecoveringYoung

(* A connector set to a fresh heartbeat is honest, and so are the others. *)
LEMMA FreshIsHonest ==
    ASSUME HonestInv, NEW c \in Connectors,
           NEW h \in {"healthy", "recovering"}, SetHealth(c, h), UNCHANGED checkVars
    PROVE  HealthHonest' /\ RecoveringYoung'
BY DEF HonestInv, TypeOK, HealthHonest, RecoveringYoung, SetHealth, checkVars

(* RecordHeartbeat keeps the health states honest. *)
LEMMA HeartbeatIsHonest ==
    ASSUME HonestInv, NEW c \in Connectors, Heartbeat(c), UNCHANGED checkVars
    PROVE  HealthHonest' /\ RecoveringYoung'
<1>1. CASE health[c] \in {"absent", "disconnected"}
  BY <1>1 DEF Heartbeat, HonestInv, HealthHonest, RecoveringYoung, healthVars, checkVars
<1>2. CASE health[c] \notin {"absent", "disconnected"}
  <2>1. PICK h \in {"healthy", "recovering"} : SetHealth(c, h)
    BY <1>2 DEF Heartbeat
  <2>2. QED
    BY <2>1, FreshIsHonest
<1>3. QED
  BY <1>1, <1>2

(* The check finds a connector disconnected, late, or on time. *)
LEMMA CheckIsHonest ==
    ASSUME HonestInv, evaluateHealth
    PROVE  HealthHonest' /\ RecoveringYoung'
<1> SUFFICES ASSUME NEW c \in Connectors
             PROVE  /\ health'[c] = "degraded" => missed'[c] /\ age'[c] > HeartbeatTimeout
                    /\ health'[c] = "recovering" => ~missed'[c]
                    /\ health'[c] = "healthy" => age'[c] <= HeartbeatTimeout
                    /\ health'[c] = "recovering" => age'[c] = 0
                    /\ health'[c] = "degraded" => age'[c] <= DegradedTimeout
  BY DEF HealthHonest, RecoveringYoung
<1>1. /\ health'[c] = Evaluated(c)
      /\ age'[c] = age[c]
      /\ missed'[c] <=> missed[c] \/ (Late(c) /\ health[c] \notin {"absent", "disconnected"})
  BY DEF evaluateHealth, HonestInv, TypeOK
<1>2. age[c] \in Int /\ age[c] >= 0
  BY DEF HonestInv, TypeOK, TooOld
<1>3. /\ health[c] = "degraded" => missed[c] /\ age[c] > HeartbeatTimeout
      /\ health[c] = "recovering" => ~missed[c] /\ age[c] <= 1
      /\ health[c] \in {"absent", "healthy", "degraded", "recovering", "disconnected"}
  BY DEF HonestInv, HealthHonest, RecoveringYoung, TypeOK, evaluateHealth
<1>4. CASE health[c] \in {"absent", "disconnected"}
  BY <1>1, <1>4 DEF Evaluated, Late, promoteRecovering
<1>5. CASE health[c] \notin {"absent", "disconnected"} /\ age[c] > DegradedTimeout
  <2>1. Evaluated(c) = "disconnected"
    BY <1>5, <1>2 DEF Evaluated, Late, promoteRecovering
  <2>2. QED
    BY <2>1, <1>1
<1>6. CASE health[c] \in {"healthy", "degraded"} /\ Late(c)
  <2>1. Evaluated(c) = "degraded"
    BY <1>6, <1>2 DEF Evaluated, Late, promoteRecovering
  <2>2. QED
    BY <2>1, <1>1, <1>2, <1>6 DEF Late
<1>7. CASE health[c] \in {"healthy", "recovering"} /\ age[c] <= HeartbeatTimeout
  <2>1. Evaluated(c) = "healthy"
    BY <1>7, <1>2, <1>3 DEF Evaluated, Late, promoteRecovering
  <2>2. QED
    BY <2>1, <1>1, <1>7
<1>8. QED
  BY <1>2, <1>3, <1>4, <1>5, <1>6, <1>7 DEF Late

(* Every step keeps the health states honest. *)
LEMMA HonestStep == HonestInv /\ [Next]_vars => HonestInv'
<1> SUFFICES ASSUME HonestInv, [Next]_vars PROVE HealthHonest' /\ RecoveringYoung'
  BY TypeStep DEF HonestInv
<1>1. CASE Tick
  <2>1. ~(checker' = "run" /\ ~due')
    BY <1>1 DEF Tick, HonestInv, TypeOK
  <2>2. ASSUME NEW c \in Connectors
        PROVE  /\ health'[c] = health[c] /\ missed'[c] = missed[c] /\ checker' = checker
               /\ age[c] > HeartbeatTimeout => age'[c] > HeartbeatTimeout
               /\ age[c] = 0 => age'[c] <= 1
    BY <1>1, <2>2 DEF Tick, HonestInv, TypeOK, TooOld
  <2>3. QED
    BY <1>1, <2>1, <2>2 DEF Tick, HonestInv, HealthHonest, RecoveringYoung
<1>2. CASE evaluateHealth
  BY <1>2, CheckIsHonest
<1>3. CASE healthCheckStops
  BY <1>3 DEF healthCheckStops, HonestInv, HealthHonest, RecoveringYoung, healthVars
<1>4. CASE DisconnectAllLocked
  BY <1>4 DEF DisconnectAllLocked, HonestInv, TypeOK, HealthHonest, RecoveringYoung, checkVars
<1>5. ASSUME NEW c \in Connectors, RegisterSource(c) PROVE HealthHonest' /\ RecoveringYoung'
  BY <1>5, FreshIsHonest DEF RegisterSource
<1>6. ASSUME NEW c \in Connectors, Connect(c) PROVE HealthHonest' /\ RecoveringYoung'
  BY <1>6, FreshIsHonest DEF Connect
<1>7. ASSUME NEW c \in Connectors, ConnectorHeartbeat(c) \/ PumpReceives(c)
      PROVE  HealthHonest' /\ RecoveringYoung'
  BY <1>7, HeartbeatIsHonest DEF ConnectorHeartbeat, PumpReceives
<1>8. ASSUME NEW c \in Connectors, Disconnect(c) PROVE HealthHonest' /\ RecoveringYoung'
  BY <1>8 DEF Disconnect, HonestInv, TypeOK, HealthHonest, RecoveringYoung, checkVars
<1>9. ASSUME UNCHANGED <<healthVars, checkVars>> PROVE HealthHonest' /\ RecoveringYoung'
  BY <1>9 DEF HonestInv, HealthHonest, RecoveringYoung, healthVars, checkVars
<1>10. CASE Listen \/ DisconnectAllStarts \/ DisconnectAllReturns \/ UNCHANGED vars
  BY <1>9, <1>10 DEF Listen, DisconnectAllStarts, DisconnectAllReturns, vars
<1>11. ASSUME NEW c \in Connectors,
              \/ DisconnectAllCancels(c) \/ DisconnectCancels(c)
              \/ PumpOpens(c) \/ PumpHandles(c) \/ PumpSends(c) \/ PumpEnds(c)
              \/ SourceForwards(c) \/ SourceCloses(c)
       PROVE  HealthHonest' /\ RecoveringYoung'
  BY <1>9, <1>11 DEF DisconnectAllCancels, DisconnectCancels, PumpOpens, PumpHandles, PumpSends,
                     PumpEnds, SourceForwards, SourceCloses
<1>12. QED
  BY <1>1, <1>2, <1>3, <1>4, <1>5, <1>6, <1>7, <1>8, <1>10, <1>11, NextCases

(* manager.go: what a health state says about the heartbeats is true in every *)
(* interleaving of the health check, the pumps and the HTTP routes.           *)
THEOREM HealthHonestHolds == Spec => []HealthHonest
<1>1. Init => HonestInv
  BY TypeInit DEF Init, HonestInv, HealthHonest, RecoveringYoung
<1>2. HonestInv => HealthHonest
  BY DEF HonestInv
<1>3. QED
  BY <1>1, <1>2, HonestStep, PTL DEF Spec

-----------------------------------------------------------------------------
(* NoPumpLost needs to know that DisconnectAll takes its list only once.   *)

ClosingOnce == phase \in {"boot", "serve", "stopping"} => closing = {}

PumpInv == TypeOK /\ NoPumpLost /\ ClosingOnce

(* Every step keeps every pump within reach. *)
LEMMA PumpStep == PumpInv /\ [Next]_vars => PumpInv'
<1> SUFFICES ASSUME PumpInv, [Next]_vars PROVE NoPumpLost' /\ ClosingOnce'
  BY TypeStep DEF PumpInv
<1> USE DEF PumpInv, TypeOK, NoPumpLost, ClosingOnce
<1>1. CASE Tick \/ evaluateHealth \/ healthCheckStops \/ UNCHANGED vars
  BY <1>1 DEF Tick, evaluateHealth, healthCheckStops, vars, sourceVars, stopVars
<1>2. CASE Listen \/ DisconnectAllStarts \/ DisconnectAllReturns
  BY <1>2 DEF Listen, DisconnectAllStarts, DisconnectAllReturns, sourceVars, stopVars
<1>3. CASE DisconnectAllLocked
  BY <1>3 DEF DisconnectAllLocked, sourceVars
<1>4. ASSUME NEW c \in Connectors, DisconnectAllCancels(c) \/ DisconnectCancels(c)
      PROVE  NoPumpLost' /\ ClosingOnce'
  BY <1>4 DEF DisconnectAllCancels, DisconnectCancels, sourceVars
<1>5. ASSUME NEW c \in Connectors, RegisterSource(c) PROVE NoPumpLost' /\ ClosingOnce'
  BY <1>5 DEF RegisterSource, stopVars
<1>6. ASSUME NEW c \in Connectors, Connect(c) \/ ConnectorHeartbeat(c)
      PROVE  NoPumpLost' /\ ClosingOnce'
  BY <1>6 DEF Connect, ConnectorHeartbeat, sourceVars, stopVars
<1>7. ASSUME NEW c \in Connectors, Disconnect(c) PROVE NoPumpLost' /\ ClosingOnce'
  BY <1>7 DEF Disconnect, sourceVars
<1>8. ASSUME NEW c \in Connectors,
             \/ PumpOpens(c) \/ PumpReceives(c) \/ PumpHandles(c) \/ PumpSends(c) \/ PumpEnds(c)
      PROVE  NoPumpLost' /\ ClosingOnce'
  BY <1>8 DEF PumpOpens, PumpReceives, PumpHandles, PumpSends, PumpEnds, PumpMoves, stopVars
<1>9. ASSUME NEW c \in Connectors, SourceForwards(c) \/ SourceCloses(c)
      PROVE  NoPumpLost' /\ ClosingOnce'
  BY <1>9 DEF SourceForwards, SourceCloses, stopVars
<1>10. QED
  BY <1>1, <1>2, <1>3, <1>4, <1>5, <1>6, <1>7, <1>8, <1>9, NextCases

(* manager.go: neither Disconnect nor DisconnectAll drops a running pump that *)
(* nobody will cancel, however they interleave.                               *)
THEOREM NoPumpLostHolds == Spec => []NoPumpLost
<1>1. Init => PumpInv
  BY TypeInit DEF Init, PumpInv, NoPumpLost, ClosingOnce
<1>2. PumpInv => NoPumpLost
  BY DEF PumpInv
<1>3. QED
  BY <1>1, <1>2, PumpStep, PTL DEF Spec
=============================================================================
