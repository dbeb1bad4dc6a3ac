-------------------------- MODULE ConnectorManager --------------------------
(***************************************************************************)
(* The gateway's connector manager                                         *)
(* (services/gateway/internal/connector/manager.go): health states and the *)
(* health check loop, one inbound pump per registered source, and the      *)
(* teardown of pumps by Disconnect and DisconnectAll; with the adapter     *)
(* goroutine of the Telegram source (telegram_source.go) that feeds a pump *)
(* and the HTTP routes that call the manager (handler/handler.go).         *)
(*                                                                         *)
(* Every step is one section under m.mu, one channel operation or one call *)
(* that blocks.  Time is the age of each connector's last heartbeat in     *)
(* periods of the health check (10 s), saturated where it no longer matters.*)
(***************************************************************************)
EXTENDS Integers

CONSTANTS
    Connectors,        \* connector ids
    Sourced,           \* the ids main registers an InboundSource for
    HeartbeatTimeout,  \* in health check periods (3 in the code)
    DegradedTimeout,   \* in health check periods (12 in the code)
    ChannelCap         \* capacity of the source's channel (64)

ASSUME TimeoutsAssumption ==
    /\ Sourced \subseteq Connectors
    /\ HeartbeatTimeout \in Nat \ {0, 1}
    /\ DegradedTimeout \in Nat
    /\ HeartbeatTimeout < DegradedTimeout
    /\ ChannelCap \in Nat \ {0}

VARIABLES
    phase,      \* the main goroutine: boot, serve, stopping, cancelling, stopped
    health,     \* Health of each state; "absent" when the id is not in states
    age,        \* time since LastHeartbeat
    missed,     \* MissedBeats > 0
    due,        \* the health check's ticker has fired
    checker,    \* the health check goroutine
    sources,    \* the keys of the sources map
    pump,       \* the pump goroutine of each source
    channel,    \* how many messages wait in the source's channel
    closed,     \* sources whose channel is closed
    cancelled,  \* pumps whose context is cancelled
    ending,     \* sources a Disconnect took out of the map and has yet to cancel
    closing     \* sources DisconnectAll took out of the map and has yet to cancel

healthVars == <<health, age, missed>>
checkVars == <<due, checker>>
sourceVars == <<pump, channel, closed>>
stopVars == <<cancelled, ending, closing>>
vars == <<phase, healthVars, checkVars, sources, sourceVars, stopVars>>

TooOld == DegradedTimeout + 1

Init ==
    /\ phase = "boot"
    /\ health = [c \in Connectors |-> "absent"]
    /\ age = [c \in Connectors |-> 0]
    /\ missed = [c \in Connectors |-> FALSE]
    /\ due = FALSE
    /\ checker = "run"
    /\ sources = {}
    /\ pump = [c \in Connectors |-> "none"]
    /\ channel = [c \in Connectors |-> 0]
    /\ closed = {}
    /\ cancelled = {}
    /\ ending = {}
    /\ closing = {}

-----------------------------------------------------------------------------
(* Health states. *)

SetHealth(c, h) ==
    /\ health' = [health EXCEPT ![c] = h]
    /\ age' = [age EXCEPT ![c] = 0]
    /\ missed' = [missed EXCEPT ![c] = FALSE]

(* Mutant of Heartbeat: MissedBeats is not reset. *)
HeartbeatKeepsMissed(c) ==
    IF health[c] \in {"absent", "disconnected"}
      THEN UNCHANGED healthVars
      ELSE /\ health' = [health EXCEPT ![c] =
                            IF health[c] = "healthy" THEN "healthy" ELSE "recovering"]
           /\ age' = [age EXCEPT ![c] = 0]
           /\ UNCHANGED missed

(* RecordHeartbeat is refused for an unknown or disconnected connector. *)
Heartbeat(c) ==
    IF health[c] \in {"absent", "disconnected"}
      THEN UNCHANGED healthVars
      ELSE SetHealth(c, IF health[c] = "healthy" THEN "healthy" ELSE "recovering")

(* Time passes: the ticker fires.  The health check is never a whole       *)
(* period late; nothing holds m.mu for long.                               *)
Tick ==
    /\ ~due
    /\ due' = (checker = "run")
    /\ age' = [c \in Connectors |-> IF age[c] < TooOld THEN age[c] + 1 ELSE age[c]]
    /\ UNCHANGED <<phase, health, missed, checker, sources, sourceVars, stopVars>>

(* Silent for longer than HeartbeatTimeout, not yet for DegradedTimeout. *)
Late(c) == age[c] > HeartbeatTimeout /\ age[c] <= DegradedTimeout

promoteRecovering(c) ==
    health[c] = "recovering" /\ ~missed[c] /\ age[c] < HeartbeatTimeout

(* Mutant of Evaluated: a recovering connector is never promoted. *)
EvaluatedUnpromoted(c) ==
    CASE health[c] \in {"absent", "disconnected"} -> health[c]
      [] age[c] > DegradedTimeout /\ health[c] \notin {"absent", "disconnected"} -> "disconnected"
      [] Late(c) /\ health[c] = "healthy" -> "degraded"
      [] OTHER -> health[c]

(* Mutant of Evaluated: a healthy connector is skipped like a disconnected one. *)
EvaluatedSkipsHealthy(c) ==
    CASE health[c] \in {"absent", "disconnected", "healthy"} -> health[c]
      [] age[c] > DegradedTimeout /\ health[c] \in {"degraded", "recovering"} -> "disconnected"
      [] promoteRecovering(c) -> "healthy"
      [] OTHER -> health[c]

(* The switch of evaluateHealth. *)
Evaluated(c) ==
    CASE health[c] \in {"absent", "disconnected"} -> health[c]
      [] age[c] > DegradedTimeout /\ health[c] \notin {"absent", "disconnected"} -> "disconnected"
      [] Late(c) /\ health[c] = "healthy" -> "degraded"
      [] promoteRecovering(c) -> "healthy"
      [] OTHER -> health[c]

evaluateHealth ==
    /\ checker = "run"
    /\ due
    /\ due' = FALSE
    /\ health' = [c \in Connectors |-> Evaluated(c)]
    /\ missed' = [c \in Connectors |->
                    \/ missed[c]
                    \/ Late(c) /\ health[c] \notin {"absent", "disconnected"}]
    /\ UNCHANGED <<phase, age, checker, sources, sourceVars, stopVars>>

(* stopCh is closed. *)
healthCheckStops ==
    /\ checker = "run"
    /\ phase \notin {"boot", "serve"}
    /\ checker' = "done"
    /\ due' = FALSE
    /\ UNCHANGED <<phase, healthVars, sources, sourceVars, stopVars>>

-----------------------------------------------------------------------------
(* main: sources are registered before the HTTP server listens, and        *)
(* DisconnectAll is called when it has shut down.                          *)

(* RegisterSource, once per source: Connect, the map entry, the pump. *)
RegisterSource(c) ==
    /\ phase = "boot"
    /\ c \in Sourced
    /\ pump[c] = "none"
    /\ SetHealth(c, "healthy")
    /\ sources' = sources \cup {c}
    /\ pump' = [pump EXCEPT ![c] = "open"]
    /\ UNCHANGED <<phase, checkVars, channel, closed, stopVars>>

Listen ==
    /\ phase = "boot"
    /\ phase' = "serve"
    /\ UNCHANGED <<healthVars, checkVars, sources, sourceVars, stopVars>>

(* The signal arrived, the server has shut down: close(m.stopCh). *)
DisconnectAllStarts ==
    /\ phase = "serve"
    /\ phase' = "stopping"
    /\ UNCHANGED <<healthVars, checkVars, sources, sourceVars, stopVars>>

DisconnectAllLocked ==
    /\ phase = "stopping"
    /\ phase' = "cancelling"
    /\ closing' = sources
    /\ sources' = {}
    /\ health' = [c \in Connectors |-> IF health[c] = "absent" THEN "absent" ELSE "disconnected"]
    /\ UNCHANGED <<age, missed, checkVars, sourceVars, cancelled, ending>>

DisconnectAllCancels(c) ==
    /\ c \in closing
    /\ closing' = closing \ {c}
    /\ cancelled' = cancelled \cup {c}
    /\ UNCHANGED <<phase, healthVars, checkVars, sources, sourceVars, ending>>

(* pumpWG.Wait. *)
DisconnectAllReturns ==
    /\ phase = "cancelling"
    /\ closing = {}
    /\ \A c \in Connectors : pump[c] \in {"none", "done"}
    /\ phase' = "stopped"
    /\ UNCHANGED <<healthVars, checkVars, sources, sourceVars, stopVars>>

-----------------------------------------------------------------------------
(* HTTP routes.  A handler may outlive the server's Shutdown, which waits  *)
(* 15 s, and meet DisconnectAll up to its lock.                            *)

Serving == phase \in {"serve", "stopping"}

Connect(c) ==
    /\ Serving
    /\ SetHealth(c, "healthy")
    /\ UNCHANGED <<phase, checkVars, sources, sourceVars, stopVars>>

ConnectorHeartbeat(c) ==
    /\ Serving
    /\ Heartbeat(c)
    /\ UNCHANGED <<phase, checkVars, sources, sourceVars, stopVars>>

(* Mutant of Disconnect: hasPump is not looked at. *)
DisconnectUnchecked(c) ==
    /\ Serving
    /\ health[c] # "absent"
    /\ health' = [health EXCEPT ![c] = "disconnected"]
    /\ ending' = ending \cup {c}
    /\ sources' = sources \ {c}
    /\ UNCHANGED <<phase, age, missed, checkVars, sourceVars, cancelled, closing>>

(* Mutant of Disconnect: the entry is deleted and its cancel forgotten. *)
DisconnectLoses(c) ==
    /\ Serving
    /\ health[c] # "absent"
    /\ health' = [health EXCEPT ![c] = "disconnected"]
    /\ sources' = sources \ {c}
    /\ UNCHANGED <<phase, age, missed, checkVars, sourceVars, stopVars>>

(* The section of Disconnect under the lock... *)
Disconnect(c) ==
    /\ Serving
    /\ health[c] # "absent"
    /\ health' = [health EXCEPT ![c] = "disconnected"]
    /\ ending' = ending \cup ({c} \cap sources)
    /\ sources' = sources \ {c}
    /\ UNCHANGED <<phase, age, missed, checkVars, sourceVars, cancelled, closing>>

(* ...and its cancel, which may come after the server's shutdown timeout.  *)
DisconnectCancels(c) ==
    /\ c \in ending
    /\ ending' = ending \ {c}
    /\ cancelled' = cancelled \cup {c}
    /\ UNCHANGED <<phase, healthVars, checkVars, sources, sourceVars, closing>>

-----------------------------------------------------------------------------
(* A pump and the goroutine of its source. *)

PumpMoves(c, from, to) ==
    /\ pump[c] = from
    /\ pump' = [pump EXCEPT ![c] = to]

(* src.Receive: an open channel, or an error that ends the pump. *)
PumpOpens(c) ==
    /\ PumpMoves(c, "open", "select") \/ PumpMoves(c, "open", "done")
    /\ UNCHANGED <<phase, healthVars, checkVars, sources, channel, closed, stopVars>>

(* A message comes in from outside. *)
SourceForwards(c) ==
    /\ pump[c] \in {"select", "handle", "send"}
    /\ c \notin closed
    /\ channel[c] < ChannelCap
    /\ channel' = [channel EXCEPT ![c] = @ + 1]
    /\ UNCHANGED <<phase, healthVars, checkVars, sources, pump, closed, stopVars>>

(* The source's goroutine sees the cancellation and closes the channel. *)
SourceCloses(c) ==
    /\ pump[c] \in {"select", "handle", "send"}
    /\ c \in cancelled \ closed
    /\ closed' = closed \cup {c}
    /\ UNCHANGED <<phase, healthVars, checkVars, sources, pump, channel, stopVars>>

(* A message is taken, and counts as a heartbeat. *)
PumpReceives(c) ==
    /\ PumpMoves(c, "select", "handle")
    /\ channel[c] > 0
    /\ channel' = [channel EXCEPT ![c] = @ - 1]
    /\ Heartbeat(c)
    /\ UNCHANGED <<phase, checkVars, sources, closed, stopVars>>

(* The inbound handler returned a reply, or an error or nothing to send. *)
PumpHandles(c) ==
    /\ PumpMoves(c, "handle", "send") \/ PumpMoves(c, "handle", "select")
    /\ UNCHANGED <<phase, healthVars, checkVars, sources, channel, closed, stopVars>>

(* src.Send returned; its error is logged. *)
PumpSends(c) ==
    /\ PumpMoves(c, "send", "select")
    /\ UNCHANGED <<phase, healthVars, checkVars, sources, channel, closed, stopVars>>

(* The channel is closed and drained, or the context is cancelled. *)
PumpEnds(c) ==
    /\ PumpMoves(c, "select", "done")
    /\ c \in cancelled \/ (c \in closed /\ channel[c] = 0)
    /\ UNCHANGED <<phase, healthVars, checkVars, sources, channel, closed, stopVars>>

-----------------------------------------------------------------------------

Shutdown ==
    \/ DisconnectAllStarts \/ DisconnectAllLocked \/ DisconnectAllReturns
    \/ \E c \in Connectors : DisconnectAllCancels(c)

healthCheckLoop == evaluateHealth \/ healthCheckStops

Http(c) == Connect(c) \/ ConnectorHeartbeat(c) \/ Disconnect(c) \/ DisconnectCancels(c)

runPump(c) == PumpOpens(c) \/ PumpReceives(c) \/ PumpHandles(c) \/ PumpSends(c) \/ PumpEnds(c)

Next ==
    \/ Tick
    \/ healthCheckLoop
    \/ Listen
    \/ Shutdown
    \/ \E c \in Connectors :
         RegisterSource(c) \/ Http(c) \/ runPump(c) \/ SourceForwards(c) \/ SourceCloses(c)

Spec == Init /\ [][Next]_vars

(* The clock and every goroutine run on; the inbound handler, Send and     *)
(* Receive return because their contexts are cancelled or time out.        *)
(* Nothing is assumed of messages, of HTTP requests or of a shutdown.      *)
Fairness ==
    /\ WF_vars(Tick)
    /\ WF_vars(healthCheckLoop)
    /\ WF_vars(DisconnectAllLocked)
    /\ WF_vars(DisconnectAllReturns)
    /\ \A c \in Connectors : /\ WF_vars(DisconnectAllCancels(c))
                             /\ WF_vars(DisconnectCancels(c))
                             /\ WF_vars(SourceCloses(c))
                             /\ WF_vars(runPump(c))

FairSpec == Spec /\ Fairness

-----------------------------------------------------------------------------
(* Properties. *)

(* Every variable has its type. *)
TypeOK ==
    /\ phase \in {"boot", "serve", "stopping", "cancelling", "stopped"}
    /\ health \in [Connectors -> {"absent", "healthy", "degraded", "recovering", "disconnected"}]
    /\ age \in [Connectors -> 0..TooOld]
    /\ missed \in [Connectors -> BOOLEAN]
    /\ due \in BOOLEAN
    /\ checker \in {"run", "done"}
    /\ sources \subseteq Sourced
    /\ pump \in [Connectors -> {"none", "open", "select", "handle", "send", "done"}]
    /\ channel \in [Connectors -> 0..ChannelCap]
    /\ closed \subseteq Sourced
    /\ cancelled \subseteq Sourced
    /\ ending \subseteq Sourced
    /\ closing \subseteq Sourced

(* What a connector's health says about its heartbeats, whatever order the    *)
(* check, the pump and the HTTP routes come in.  Degraded means missed beats  *)
(* and a silence longer than HeartbeatTimeout; recovering means none missed   *)
(* since the heartbeat that ended the silence.  After a check a healthy       *)
(* connector was not silent for longer than HeartbeatTimeout, a recovering one*)
(* was heard since that check, and a degraded one has not been silent for     *)
(* longer than DegradedTimeout ("prolonged heartbeat absence", manager.go:437).*)
(* That bounds the silence: a connector is degraded for the difference of the *)
(* two timeouts, where manager.go:77-78 calls DegradedTimeout the time it can *)
(* stay degraded (README, finding 9).                                         *)
HealthHonest ==
    \A c \in Connectors :
        /\ health[c] = "degraded" => missed[c] /\ age[c] > HeartbeatTimeout
        /\ health[c] = "recovering" => ~missed[c]
        /\ checker = "run" /\ ~due =>
             /\ health[c] = "healthy" => age[c] <= HeartbeatTimeout
             /\ health[c] = "recovering" => age[c] = 0
             /\ health[c] = "degraded" => age[c] <= DegradedTimeout

(* No pump is lost: a pump that has not ended is in the sources map, or its   *)
(* context is cancelled, or the goroutine that took it out of the map is      *)
(* about to cancel it.  DisconnectAll would wait for a lost pump for ever.    *)
NoPumpLost ==
    \A c \in Connectors :
        pump[c] \notin {"none", "done"} => c \in sources \cup cancelled \cup ending \cup closing

(* DisconnectAll returns, whatever Disconnects, messages and replies it finds *)
(* on the way, and although a pump's select may prefer messages to the        *)
(* cancellation.                                                              *)
ShutdownCompletes == phase = "stopping" ~> phase = "stopped"

(* A connector does not stay "recovering": it is promoted, or it falls silent *)
(* and is disconnected.                                                       *)
RecoveringResolves ==
    \A c \in Connectors : health[c] = "recovering" ~> health[c] # "recovering"

(* manager.go on a failed Receive: "the connector will surface the failure    *)
(* via its health state", unless somebody else keeps reporting heartbeats.    *)
DeadPumpSurfaces ==
    \A c \in Connectors :
        (pump[c] = "done" /\ health[c] = "healthy" /\ age[c] > 0)
            ~> (health[c] # "healthy" \/ age[c] = 0)

(* manager.go on the pump: "Treat the inbound message as an activity heartbeat*)
(* too".  A message taken from a registered source leaves its connector       *)
(* connected.                                                                 *)
MessageIsHeartbeat ==
    [][\A c \in sources :
         pump[c] = "select" /\ pump'[c] = "handle" => health'[c] # "disconnected"]_vars
=============================================================================
