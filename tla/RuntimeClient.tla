---------------------------- MODULE RuntimeClient ----------------------------
(***************************************************************************)
(* The gateway's NDJSON client for the runtimed child process              *)
(* (services/gateway/internal/runtime/client.go) together with the child   *)
(* it talks to (runtime/runtimed/src/main.rs).                             *)
(*                                                                         *)
(* Actors: any number of callers (Execute, LlmCall, Ping/ListProviders),   *)
(* the writer, reader and supervisor goroutines of one Client, the child   *)
(* process and its request tasks, and the goroutine that calls Close.      *)
(* Every atomic step below ends where the code releases a lock, blocks on  *)
(* a channel or a pipe, or hands over to another goroutine.                *)
(***************************************************************************)
EXTENDS Integers, Sequences

CONSTANTS
    ExecuteCalls,        \* request ids of Execute calls (an event stream and Done)
    LlmCalls,            \* request ids of LlmCall calls (run as a task of the child)
    PingCalls,           \* request ids of Ping and ListProviders (answered inline)
    BadEnvelopes,        \* requests the child's serde parser rejects
    Oversized,           \* requests whose response line exceeds the 1 MB scanner buffer
    Shutdown,            \* the Shutdown message of Close
    OutboundCap,         \* capacity of the outbound channel (64 in the code)
    MaxRestartAttempts,  \* cfg.MaxRestartAttempts (5 by default)
    MayClose,            \* whether the gateway may call Close
    MayFailSpawn         \* whether a respawn may fail

Requests == ExecuteCalls \cup LlmCalls \cup PingCalls
Messages == Requests \cup {Shutdown}

ASSUME ConstantsAssumption ==
    /\ Shutdown \notin Requests
    /\ ExecuteCalls \cap (LlmCalls \cup PingCalls) = {}
    /\ LlmCalls \cap PingCalls = {}
    /\ BadEnvelopes \subseteq ExecuteCalls \cup LlmCalls
    /\ Oversized \subseteq ExecuteCalls \cup LlmCalls
    /\ OutboundCap \in Nat \ {0}
    /\ MaxRestartAttempts \in Nat \ {0}
    /\ MayClose \in BOOLEAN
    /\ MayFailSpawn \in BOOLEAN

VARIABLES
    state,     \* clientState
    sup,       \* where the supervisor goroutine is
    attempts,  \* the supervisor's crash counter
    respawns,  \* children started after the first one (history)
    writer,    \* the writer goroutine of the current child
    reader,    \* the reader goroutine of the current child
    hold,      \* the pendingRequest deliverEvent has looked up and not yet sent to
    outbound,  \* the outbound channel
    pending,   \* the keys of the pending map
    result,    \* what was sent on pr.done (pr.events is closed with it)
    call,      \* where the caller of each request is
    child,     \* the child process
    inbox,     \* lines in the child's stdin
    task,      \* the child's in-flight task of each request
    stdout,    \* lines in the child's stdout
    runs,      \* how often a child started working on a request (history)
    closer,    \* progress of Close
    panicked   \* the gateway process died of a Go panic

clientVars == <<state, sup, attempts, respawns, writer, reader, hold>>
queueVars == <<outbound, pending, result, call>>
childVars == <<child, inbox, task, stdout, runs>>
vars == <<clientVars, queueVars, childVars, closer, panicked>>

Line(kind, r) == [kind |-> kind, id |-> r]

Lines == [kind : {"event"}, id : ExecuteCalls] \cup [kind : {"terminal", "nil_uuid"}, id : Requests]

-----------------------------------------------------------------------------

Init ==
    /\ state = "running"
    /\ sup = "wait"
    /\ attempts = 0
    /\ respawns = 0
    /\ writer = "run"
    /\ reader = "run"
    /\ hold = {}
    /\ outbound = <<>>
    /\ pending = {}
    /\ result = [r \in Requests |-> "none"]
    /\ call = [r \in Requests |-> "idle"]
    /\ child = "alive"
    /\ inbox = <<>>
    /\ task = [r \in Requests |-> "none"]
    /\ stdout = <<>>
    /\ runs = [r \in Requests |-> 0]
    /\ closer = "open"
    /\ panicked = FALSE

acceptingWork == state \in {"running", "restarting"}

stopped == closer = "stopped"

(* Swaps the pending map for an empty one and settles every entry. *)
failAllPending ==
    /\ result' = [r \in Requests |-> IF r \in pending THEN "error" ELSE result[r]]
    /\ pending' = {}

-----------------------------------------------------------------------------
(* Callers.  Ping, ListProviders, LlmCall and Execute share one shape:     *)
(* acceptingWork, register, send, then wait for pr.done or the context.    *)

(* The state check of register, under stateMu alone. *)
Admit(r) ==
    /\ call[r] = "idle"
    /\ call' = [call EXCEPT ![r] = IF acceptingWork THEN "admitted" ELSE "refused"]
    /\ UNCHANGED <<clientVars, outbound, pending, result, childVars, closer, panicked>>

(* The insertion of register, under pendingMu alone. *)
register(r) ==
    /\ call[r] = "admitted"
    /\ call' = [call EXCEPT ![r] = "registered"]
    /\ pending' = pending \cup {r}
    /\ UNCHANGED <<clientVars, outbound, result, childVars, closer, panicked>>

(* send when the outbound channel has room. *)
send(r) ==
    /\ call[r] = "registered"
    /\ Len(outbound) < OutboundCap
    /\ call' = [call EXCEPT ![r] = "waiting"]
    /\ outbound' = Append(outbound, r)
    /\ UNCHANGED <<clientVars, pending, result, childVars, closer, panicked>>

(* send when the context expires or stop fires first: the caller unregisters. *)
SendFails(r) ==
    /\ call[r] = "registered"
    /\ call' = [call EXCEPT ![r] = "abandoned"]
    /\ pending' = pending \ {r}
    /\ UNCHANGED <<clientVars, outbound, result, childVars, closer, panicked>>

(* The caller (the adapter goroutine of Execute) receives from pr.done. *)
Return(r) ==
    /\ call[r] = "waiting"
    /\ result[r] # "none"
    /\ call' = [call EXCEPT ![r] = "returned"]
    /\ UNCHANGED <<clientVars, outbound, pending, result, childVars, closer, panicked>>

(* Mutant of GiveUp: the select has no ctx.Done case. *)
GiveUpNever(r) == r \notin Requests /\ UNCHANGED vars

(* The context of Ping, ListProviders or LlmCall expires. *)
GiveUp(r) ==
    /\ r \notin ExecuteCalls
    /\ call[r] = "waiting"
    /\ call' = [call EXCEPT ![r] = "abandoned"]
    /\ pending' = pending \ {r}
    /\ UNCHANGED <<clientVars, outbound, result, childVars, closer, panicked>>

(* HandleInbound's execCtx expires: it stops waiting on Done, and nothing  *)
(* unregisters the request.                                                *)
AbandonInbound(r) ==
    /\ r \in ExecuteCalls
    /\ call[r] = "waiting"
    /\ call' = [call EXCEPT ![r] = "abandoned"]
    /\ UNCHANGED <<clientVars, outbound, pending, result, childVars, closer, panicked>>

-----------------------------------------------------------------------------
(* The writer goroutine. *)

(* Mutant of runWriter: a failed write is logged and the loop goes on. *)
runWriterGoesOn ==
    /\ writer = "run"
    /\ outbound # <<>>
    /\ outbound' = Tail(outbound)
    /\ inbox' = IF child # "exited" THEN Append(inbox, Head(outbound)) ELSE inbox
    /\ UNCHANGED <<clientVars, pending, result, call, child, task, stdout, runs, closer, panicked>>

(* One message: written to a live child, lost (with the writer) otherwise. *)
runWriter ==
    /\ writer = "run"
    /\ outbound # <<>>
    /\ outbound' = Tail(outbound)
    /\ IF child # "exited"
         THEN /\ inbox' = Append(inbox, Head(outbound))
              /\ UNCHANGED writer
         ELSE /\ writer' = "exited"
              /\ UNCHANGED inbox
    /\ UNCHANGED <<state, sup, attempts, respawns, reader, hold, pending, result, call,
                   child, task, stdout, runs, closer, panicked>>

(* Mutant of WriterStops: the writer's select has no stop case. *)
WriterNeverStops == writer \notin {"run", "exited"} /\ UNCHANGED vars

WriterStops ==
    /\ writer = "run"
    /\ stopped
    /\ writer' = "exited"
    /\ UNCHANGED <<state, sup, attempts, respawns, reader, hold, queueVars, childVars,
                   closer, panicked>>

-----------------------------------------------------------------------------
(* The reader goroutine. *)

ReaderAtLine ==
    /\ reader = "run"
    /\ hold = {}
    /\ stdout # <<>>

(* Mutant of deliverTerminal: the entry stays in the pending map. *)
deliverTerminalKeeps ==
    /\ ReaderAtLine
    /\ Head(stdout).kind = "terminal"
    /\ stdout' = Tail(stdout)
    /\ result' = IF Head(stdout).id \in pending
                   THEN [result EXCEPT ![Head(stdout).id] = "response"] ELSE result
    /\ UNCHANGED <<clientVars, outbound, pending, call, child, inbox, task, runs, closer, panicked>>

(* Mutant of deliverTerminal: a request that is gone is settled too. *)
deliverTerminalUnchecked ==
    /\ ReaderAtLine
    /\ Head(stdout).kind = "terminal"
    /\ Head(stdout).id \notin Oversized
    /\ stdout' = Tail(stdout)
    /\ pending' = pending \ {Head(stdout).id}
    /\ result' = [result EXCEPT ![Head(stdout).id] = "response"]
    /\ UNCHANGED <<clientVars, outbound, call, child, inbox, task, runs, closer, panicked>>

(* A terminal response settles its own request, or nobody if it is gone. *)
deliverTerminal ==
    /\ ReaderAtLine
    /\ Head(stdout).kind = "terminal"
    /\ Head(stdout).id \notin Oversized
    /\ stdout' = Tail(stdout)
    /\ IF Head(stdout).id \in pending
         THEN /\ pending' = pending \ {Head(stdout).id}
              /\ result' = [result EXCEPT ![Head(stdout).id] = "response"]
         ELSE UNCHANGED <<pending, result>>
    /\ UNCHANGED <<clientVars, outbound, call, child, inbox, task, runs, closer, panicked>>

(* A response with the nil request id settles every request in flight. *)
deliverNilUUID ==
    /\ ReaderAtLine
    /\ Head(stdout).kind = "nil_uuid"
    /\ stdout' = Tail(stdout)
    /\ failAllPending
    /\ UNCHANGED <<clientVars, outbound, call, child, inbox, task, runs, closer, panicked>>

(* deliverEvent up to the release of pendingMu. *)
deliverEvent ==
    /\ ReaderAtLine
    /\ Head(stdout).kind = "event"
    /\ stdout' = Tail(stdout)
    /\ hold' = {Head(stdout).id} \cap pending
    /\ UNCHANGED <<state, sup, attempts, respawns, writer, reader, queueVars,
                   child, inbox, task, runs, closer, panicked>>

(* deliverEvent's send: a panic if failAllPending closed the channel.      *)
DeliverEventSend ==
    /\ \E r \in hold : panicked' = (result[r] # "none")
    /\ hold' = {}
    /\ UNCHANGED <<state, sup, attempts, respawns, writer, reader, queueVars, childVars,
                   closer>>

(* A line longer than the scanner's buffer ends the reader, not the child. *)
ReaderTooLong ==
    /\ ReaderAtLine
    /\ Head(stdout).kind = "terminal"
    /\ Head(stdout).id \in Oversized
    /\ reader' = "exited"
    /\ UNCHANGED <<state, sup, attempts, respawns, writer, hold, queueVars, childVars,
                   closer, panicked>>

(* End of stdout.  cmd.Wait closes the pipe, so lines may still be in it.  *)
ReaderEOF ==
    /\ reader = "run"
    /\ hold = {}
    /\ child = "exited"
    /\ reader' = "exited"
    /\ stdout' = <<>>
    /\ UNCHANGED <<state, sup, attempts, respawns, writer, hold, queueVars,
                   child, inbox, task, runs, closer, panicked>>

-----------------------------------------------------------------------------
(* The child process. *)

ChildAtLine(m) ==
    /\ child = "alive"
    /\ inbox # <<>>
    /\ Head(inbox) = m
    /\ inbox' = Tail(inbox)
    /\ UNCHANGED <<clientVars, queueVars, closer, panicked>>

(* The main loop on an unparseable line: a response with the nil id. *)
ChildRejects(r) ==
    /\ ChildAtLine(r)
    /\ r \in BadEnvelopes
    /\ stdout' = Append(stdout, Line("nil_uuid", r))
    /\ UNCHANGED <<child, task, runs>>

(* Ping and ListProviders are answered by the main loop itself. *)
ChildAnswersPing(r) ==
    /\ ChildAtLine(r)
    /\ r \in PingCalls
    /\ stdout' = Append(stdout, Line("terminal", r))
    /\ runs' = [runs EXCEPT ![r] = @ + 1]
    /\ UNCHANGED <<child, task>>

(* Execute and LlmCall requests become tasks of in_flight. *)
ChildSpawnsTask(r) ==
    /\ ChildAtLine(r)
    /\ r \in (ExecuteCalls \cup LlmCalls) \ BadEnvelopes
    /\ task' = [task EXCEPT ![r] = "running"]
    /\ runs' = [runs EXCEPT ![r] = @ + 1]
    /\ UNCHANGED <<child, stdout>>

(* The loop breaks on Shutdown and joins the tasks still in flight. *)
ChildShutsDown ==
    /\ ChildAtLine(Shutdown)
    /\ child' = "draining"
    /\ UNCHANGED <<task, stdout, runs>>

(* A finished plan: its notifications first, one line standing for all... *)
TaskStreams(r) ==
    /\ r \in ExecuteCalls
    /\ task[r] = "running"
    /\ task' = [task EXCEPT ![r] = "streamed"]
    /\ stdout' = Append(stdout, Line("event", r))
    /\ UNCHANGED <<clientVars, queueVars, child, inbox, runs, closer, panicked>>

(* ...then the terminal response; other tasks' lines may fall in between.  *)
(* A task that panics answers nothing: here it stays "running" for good.   *)
TaskResponds(r) ==
    /\ task[r] = IF r \in ExecuteCalls THEN "streamed" ELSE "running"
    /\ task' = [task EXCEPT ![r] = "none"]
    /\ stdout' = Append(stdout, Line("terminal", r))
    /\ UNCHANGED <<clientVars, queueVars, child, inbox, runs, closer, panicked>>

(* What is left of the child when the process is gone: lines in stdout.    *)
ProcessEnds ==
    /\ child' = "exited"
    /\ inbox' = <<>>
    /\ task' = [r \in Requests |-> "none"]
    /\ UNCHANGED <<stdout, runs>>

(* A crash, or the end of main once a draining child has joined its tasks. *)
ChildExits ==
    /\ child # "exited"
    /\ ProcessEnds
    /\ UNCHANGED <<clientVars, queueVars, closer, panicked>>

-----------------------------------------------------------------------------
(* The supervisor goroutine: one action per stretch between two blocking   *)
(* points or two lock sections of its loop.                                *)

(* cmd.Wait returned: go and wait for the writer and the reader. *)
superviseExit ==
    /\ sup = "wait"
    /\ child = "exited"
    /\ sup' = "drain"
    /\ UNCHANGED <<state, attempts, respawns, writer, reader, hold, queueVars, childVars,
                   closer, panicked>>

(* stop fired: kill the child and collect its exit.  (The supervisor's     *)
(* context takes the same path; main cancels it only after Close.)         *)
superviseKill ==
    /\ sup = "wait"
    /\ stopped
    /\ ProcessEnds
    /\ sup' = "killed"
    /\ UNCHANGED <<state, attempts, respawns, writer, reader, hold, queueVars,
                   closer, panicked>>

(* After the kill the pending requests fail; the reader may still be running. *)
superviseFailClosed ==
    /\ sup = "killed"
    /\ failAllPending
    /\ sup' = "closing"
    /\ UNCHANGED <<state, attempts, respawns, writer, reader, hold, outbound, call,
                   childVars, closer, panicked>>

superviseClosed ==
    /\ sup = "closing"
    /\ state' = "closed"
    /\ sup' = "done"
    /\ UNCHANGED <<attempts, respawns, writer, reader, hold, queueVars, childVars,
                   closer, panicked>>

(* Mutant of superviseFailCrashed: the reader is not waited for. *)
superviseFailEarly ==
    /\ sup = "drain"
    /\ writer = "exited"
    /\ failAllPending
    /\ sup' = "count"
    /\ UNCHANGED <<state, attempts, respawns, writer, reader, hold, outbound, call,
                   childVars, closer, panicked>>

(* Mutant of superviseFailCrashed: what is in flight is left to the next child. *)
superviseSkipFail ==
    /\ sup = "drain"
    /\ writer = "exited"
    /\ reader = "exited"
    /\ sup' = "count"
    /\ UNCHANGED <<state, attempts, respawns, writer, reader, hold, queueVars,
                   childVars, closer, panicked>>

(* Mutant of superviseFailCrashed: a request in flight is sent again. *)
superviseRetry ==
    /\ sup = "drain"
    /\ writer = "exited"
    /\ reader = "exited"
    /\ sup' = "count"
    /\ \E r \in Requests : outbound' = IF r \in pending THEN Append(outbound, r) ELSE outbound
    /\ UNCHANGED <<state, attempts, respawns, writer, reader, hold, pending, result, call,
                   childVars, closer, panicked>>

(* Both goroutines of the dead child have ended: fail what is in flight. *)
superviseFailCrashed ==
    /\ sup = "drain"
    /\ writer = "exited"
    /\ reader = "exited"
    /\ failAllPending
    /\ sup' = "count"
    /\ UNCHANGED <<state, attempts, respawns, writer, reader, hold, outbound, call,
                   childVars, closer, panicked>>

(* Mutant of superviseCount: one restart too many. *)
superviseCountLate ==
    /\ sup = "count"
    /\ attempts' = attempts + 1
    /\ IF attempts + 1 > MaxRestartAttempts
         THEN state' = "dead" /\ sup' = "done"
         ELSE state' = "restarting" /\ sup' = "backoff"
    /\ UNCHANGED <<respawns, writer, reader, hold, queueVars, childVars, closer, panicked>>

(* The restart budget. *)
superviseCount ==
    /\ sup = "count"
    /\ attempts' = attempts + 1
    /\ IF attempts + 1 >= MaxRestartAttempts
         THEN state' = "dead" /\ sup' = "done"
         ELSE state' = "restarting" /\ sup' = "backoff"
    /\ UNCHANGED <<respawns, writer, reader, hold, queueVars, childVars, closer, panicked>>

(* stop fires during the backoff: closed, and nothing is failed. *)
superviseBackoffStop ==
    /\ sup = "backoff"
    /\ stopped
    /\ state' = "closed"
    /\ sup' = "done"
    /\ UNCHANGED <<attempts, respawns, writer, reader, hold, queueVars, childVars,
                   closer, panicked>>

(* The backoff ends and spawn succeeds. *)
superviseRespawn ==
    /\ sup = "backoff"
    /\ sup' = "wait"
    /\ state' = "running"
    /\ respawns' = respawns + 1
    /\ writer' = "run"
    /\ reader' = "run"
    /\ child' = "alive"
    /\ stdout' = <<>>
    /\ UNCHANGED <<attempts, hold, queueVars, inbox, task, runs, closer, panicked>>

(* The backoff ends and spawn fails: `continue` with nil handles panics.   *)
superviseRespawnFails ==
    /\ sup = "backoff"
    /\ MayFailSpawn
    /\ panicked' = TRUE
    /\ UNCHANGED <<clientVars, queueVars, childVars, closer>>

-----------------------------------------------------------------------------
(* Close: a best-effort Shutdown message, then close(stop). *)

CloseSends ==
    /\ MayClose
    /\ closer = "open"
    /\ closer' = "sent"
    /\ \/ /\ Len(outbound) < OutboundCap
          /\ outbound' = Append(outbound, Shutdown)
       \/ UNCHANGED outbound                             \* the 2 s send timeout
    /\ UNCHANGED <<clientVars, pending, result, call, childVars, panicked>>

CloseStops ==
    /\ closer = "sent"
    /\ closer' = "stopped"
    /\ UNCHANGED <<clientVars, queueVars, childVars, panicked>>

-----------------------------------------------------------------------------

Caller(r) ==
    \/ Admit(r) \/ register(r) \/ send(r) \/ SendFails(r)
    \/ Return(r) \/ GiveUp(r) \/ AbandonInbound(r)

Writer == runWriter \/ WriterStops

Reader ==
    \/ deliverTerminal \/ deliverNilUUID \/ deliverEvent
    \/ DeliverEventSend \/ ReaderTooLong \/ ReaderEOF

ChildLoop ==
    \/ \E r \in Requests : ChildRejects(r) \/ ChildAnswersPing(r) \/ ChildSpawnsTask(r)
    \/ ChildShutsDown

ChildTask(r) == TaskStreams(r) \/ TaskResponds(r)

supervise ==
    \/ superviseExit \/ superviseKill \/ superviseFailClosed \/ superviseClosed
    \/ superviseFailCrashed \/ superviseCount \/ superviseBackoffStop
    \/ superviseRespawn \/ superviseRespawnFails

Close == CloseSends \/ CloseStops

(* The gateway process is up: a Go panic ends every goroutine. *)
Up == ~panicked

Next ==
    /\ Up
    /\ \/ \E r \in Requests : Caller(r) \/ ChildTask(r)
       \/ Writer
       \/ Reader
       \/ ChildLoop
       \/ ChildExits
       \/ supervise
       \/ Close

(* The Go and tokio schedulers run every goroutine and task that can run,  *)
(* and every context the callers pass has a deadline.  Nothing is assumed  *)
(* of plans and model calls (they may never finish), of the child staying  *)
(* up, or of Close being called; a process that panicked does nothing.     *)
Fairness ==
    /\ \A r \in Requests : /\ WF_vars(Up /\ register(r))
                           /\ WF_vars(Up /\ (send(r) \/ SendFails(r)))
                           /\ WF_vars(Up /\ (Return(r) \/ GiveUp(r) \/ AbandonInbound(r)))
    /\ WF_vars(Up /\ Writer)
    /\ WF_vars(Up /\ Reader)
    /\ WF_vars(Up /\ ChildLoop)
    /\ WF_vars(/\ Up
               /\ child = "draining" /\ \A r \in Requests : task[r] = "none"
               /\ ChildExits)
    /\ WF_vars(Up /\ supervise)
    /\ WF_vars(Up /\ CloseStops)

Spec == Init /\ [][Next]_vars

FairSpec == Spec /\ Fairness

-----------------------------------------------------------------------------
(* Properties. *)

(* Every variable has its type. *)
TypeOK ==
    /\ state \in {"running", "restarting", "dead", "closed"}
    /\ sup \in {"wait", "drain", "count", "backoff", "killed", "closing", "done"}
    /\ attempts \in 0..MaxRestartAttempts
    /\ respawns \in 0..(MaxRestartAttempts - 1)
    /\ writer \in {"run", "exited"}
    /\ reader \in {"run", "exited"}
    /\ hold \subseteq ExecuteCalls
    /\ outbound \in Seq(Messages)
    /\ pending \subseteq Requests
    /\ result \in [Requests -> {"none", "response", "error"}]
    /\ call \in [Requests -> {"idle", "admitted", "refused", "registered", "waiting",
                             "returned", "abandoned"}]
    /\ child \in {"alive", "draining", "exited"}
    /\ inbox \in Seq(Messages)
    /\ task \in [Requests -> {"none", "running", "streamed"}]
    /\ stdout \in Seq(Lines)
    /\ runs \in [Requests -> Nat]
    /\ closer \in {"open", "sent", "stopped"}
    /\ panicked \in BOOLEAN

(* pr.done is a one-shot future (client.go, "exactly one of Response / Err"): *)
(* whichever of the reader and the supervisor settles a request first, no     *)
(* later response, nil-uuid answer, crash or Close settles it again, which    *)
(* would close pr.done twice.                                                 *)
SettledOnce ==
    [][\A r \in Requests : result[r] # "none" => result'[r] = result[r]]_vars

(* A request is started by at most one child, however often the child is      *)
(* restarted while its message is queued, written or running; and a caller    *)
(* that gets a response gets it for work that was done.                       *)
AtMostOnce ==
    \A r \in Requests : /\ runs[r] <= 1
                        /\ result[r] = "response" => runs[r] = 1

Contains(seq, m) == \E i \in DOMAIN seq : seq[i] = m

Answering(r) ==
    Contains(stdout, Line("terminal", r)) \/ Contains(stdout, Line("nil_uuid", r))

(* Where a request that still has an entry in the pending map can be. *)
Accounted(r) ==
    \/ call[r] = "registered"                          \* its send is still to come
    \/ Contains(outbound, r)
    \/ Contains(inbox, r) \/ task[r] # "none" \/ Answering(r)
    \/ child = "exited" /\ sup \in {"wait", "drain", "killed"}  \* failAllPending to come
    \/ child # "exited" /\ reader = "exited"            \* deaf after an oversized line
    \/ sup \in {"closing", "done"}                     \* the client is going away

(* While the client is up no request in the pending map is forgotten: it is   *)
(* queued, with the child, on its way back, or about to be failed by the      *)
(* supervisor.  In particular a message swallowed by the writer of a dead     *)
(* child, or lost with its pipes, is failed before the next child starts.     *)
NoRequestForgotten == \A r \in pending : Accounted(r)

(* Restarting a crashed child never panics the gateway: the supervisor closes *)
(* the event channels only after the reader has finished its last send.       *)
NoPanic == ~panicked

(* The client gives up only when its budget is used up, and then for good: no *)
(* child and no goroutine of one is left that could still answer, fail or     *)
(* restart anything.  attempts counts the exits of a child, the first one's   *)
(* included, so the re-spawns stay below MaxRestartAttempts; the package      *)
(* comment (client.go:13-14) counts one more, with a backoff of 16 s, which   *)
(* no behaviour reaches (README, finding 6).                                  *)
DeadIsFinal ==
    state = "dead" => /\ attempts = MaxRestartAttempts
                      /\ respawns < attempts
                      /\ sup = "done"
                      /\ child = "exited"
                      /\ writer = "exited"
                      /\ reader = "exited"

(* What the caller of a request may observe of it. *)
Observed(r) ==
    CASE result[r] = "response" -> "answered"
      [] result[r] = "error" -> "failed"
      [] result[r] = "none" /\ call[r] = "idle" -> "new"
      [] result[r] = "none" /\ call[r] = "refused" -> "refused"
      [] result[r] = "none" /\ call[r] = "abandoned" /\ r \notin pending -> "dropped"
      [] OTHER -> "open"

Contract == INSTANCE RequestContract
    WITH phase <- [r \in Requests |-> Observed(r)], started <- runs

(* The client keeps the contract of RequestContract: whatever children come   *)
(* and go, each request is settled once, dropped requests are never settled,  *)
(* answers are for work that was started, and work is started at most once.   *)
KeepsContract == Contract!Spec

(* Ping, ListProviders and LlmCall always come back to their caller, whatever *)
(* happens to the child, the reader or the client meanwhile.                  *)
PlainCallsReturn ==
    \A r \in Requests \ ExecuteCalls :
        call[r] = "admitted" ~> (call[r] \in {"returned", "abandoned"} \/ panicked)

(* Close ends: once stop is closed the supervisor returns, even when it was   *)
(* waiting for an idle writer, in a backoff, or for a child that is draining. *)
CloseCompletes == stopped ~> (sup = "done" \/ panicked)

(* A crashed child is replaced (or the budget given up) as soon as there is   *)
(* one more message for it.                                                   *)
CrashNoticedWithTraffic ==
    (child = "exited" /\ outbound # <<>>) ~> (child = "alive" \/ sup = "done" \/ panicked)

(* What client.go says of ExecuteResult.Done: "It blocks until the run        *)
(* completes, the context cancels, or the child crashes."                     *)
CrashSettlesInFlight ==
    \A r \in ExecuteCalls :
        (child = "exited" /\ call[r] = "waiting" /\ r \in pending) ~> result[r] # "none"
=============================================================================
