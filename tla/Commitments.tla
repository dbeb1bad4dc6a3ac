----------------------------- MODULE Commitments -----------------------------
(***************************************************************************)
(* The gateway's commitments: the SQLite store                             *)
(* (services/gateway/internal/commitments/store.go), the 60 s ticker and   *)
(* Enqueue (runtime.go), and the user's dismiss, snooze and delete         *)
(* (internal/handler/commitments.go).                                      *)
(*                                                                         *)
(* Every SQL statement is one atomic step; nothing in the code spans two   *)
(* of them with a transaction.  Actors: one Enqueue goroutine per extracted*)
(* candidate, the ticker goroutine, the HTTP handlers and the clock.  The  *)
(* rows, the messages sent and the event log survive a gateway crash; the  *)
(* goroutines do not.                                                      *)
(***************************************************************************)
EXTENDS Integers, Sequences, FiniteSets

CONSTANTS
    Rows,          \* candidates over MinConfidence, each with a row id of its own
    dedupe_key,    \* workspace and dedupe key of each candidate
    Earliest,      \* earliest_ms of each candidate's due window
    Latest,        \* latest_ms of each candidate's due window
    ExpireGrace,   \* cfg.ExpireGrace
    dueNowBatch,   \* LIMIT of DueNow (50)
    expireBatch,   \* LIMIT of ExpireOverdue (200)
    MaxTime,       \* bound: the clock stops here
    MaxSnoozes,    \* bound on user snoozes
    MaxCrashes     \* bound on gateway crashes

ASSUME WindowsAssumption ==
    /\ IsFiniteSet(Rows)
    /\ Earliest \in [Rows -> Nat]
    /\ Latest \in [Rows -> Nat \ {0}]
    /\ ExpireGrace \in Nat
    /\ dueNowBatch \in Nat \ {0}
    /\ expireBatch \in Nat \ {0}
    /\ MaxTime \in Nat
    /\ MaxSnoozes \in Nat
    /\ MaxCrashes \in Nat

VARIABLES
    now,          \* the wall clock
    status,       \* status column; "absent" before the INSERT, "deleted" after the DELETE
    earliest,     \* earliest_ms column
    enqueue,      \* progress of each Enqueue goroutine
    ticker,       \* where the ticker goroutine is
    lastTick,     \* the clock value of its last tick, -1 before the first
    queue,        \* rows the tick still has to go through, a snapshot
    delivered,    \* messages the user got for each row
    fired,        \* commitment.fired events
    expiredEvents,\* how many commitment.expired events are out
    expirations,  \* how many times a row went from pending to expired (history)
    renewals,     \* reasons for another message (history)
    late,         \* messages for a row after its dismissal (history)
    snoozes,      \* snoozes so far (bound)
    crashes       \* crashes so far (bound)

rowVars == <<status, earliest>>
tickVars == <<ticker, lastTick, queue>>
eventVars == <<fired, expiredEvents>>
historyVars == <<expirations, renewals, late>>
boundVars == <<snoozes, crashes>>
vars == <<now, rowVars, enqueue, tickVars, delivered, eventVars, historyVars, boundVars>>

Zero == [r \in Rows |-> 0]

Init ==
    /\ now = 0
    /\ status = [r \in Rows |-> "absent"]
    /\ earliest = Earliest
    /\ enqueue = [r \in Rows |-> "idle"]
    /\ ticker = "idle"
    /\ lastTick = -1
    /\ queue = <<>>
    /\ delivered = Zero
    /\ fired = Zero
    /\ expiredEvents = 0
    /\ expirations = 0
    /\ renewals = Zero
    /\ late = Zero
    /\ snoozes = 0
    /\ crashes = 0

Bump(f, r) == [f EXCEPT ![r] = @ + 1]

Stored(r) == status[r] \notin {"absent", "deleted"}

(* The result of SELECT ... ORDER BY key ASC: any order among equal keys.  *)
OrderedBy(S, key) ==
    {s \in [1..Cardinality(S) -> S] :
        \A i, j \in 1..Cardinality(S) : i < j => s[i] # s[j] /\ key[s[i]] <= key[s[j]]}

Limit(s, n) == IF Len(s) <= n THEN s ELSE SubSeq(s, 1, n)

-----------------------------------------------------------------------------
(* Enqueue: Insert's SELECT and INSERT are two statements.  The            *)
(* commitment.extracted event that follows is append-only and left out.    *)

InsertSelect(r) ==
    /\ enqueue[r] = "idle"
    /\ enqueue' = [enqueue EXCEPT ![r] =
         IF \E q \in Rows : status[q] = "pending" /\ dedupe_key[q] = dedupe_key[r]
           THEN "done"                                      \* ErrDeduped
           ELSE "insert"]
    /\ UNCHANGED <<now, rowVars, tickVars, delivered, eventVars, historyVars, boundVars>>

InsertRow(r) ==
    /\ enqueue[r] = "insert"
    /\ enqueue' = [enqueue EXCEPT ![r] = "done"]
    /\ status' = [status EXCEPT ![r] = "pending"]
    /\ UNCHANGED <<now, earliest, tickVars, delivered, eventVars, historyVars, boundVars>>

(* Either statement returned an error: the candidate is lost. *)
InsertFails(r) ==
    /\ enqueue[r] # "done"
    /\ enqueue' = [enqueue EXCEPT ![r] = "done"]
    /\ UNCHANGED <<now, rowVars, tickVars, delivered, eventVars, historyVars, boundVars>>

-----------------------------------------------------------------------------
(* The ticker: fireDue, then expireStale. *)

(* Mutant of Due: the query does not filter on the status. *)
DueAnyStatus == {r \in Rows : Stored(r) /\ earliest[r] <= now /\ Latest[r] >= now}

Due == {r \in Rows : status[r] = "pending" /\ earliest[r] <= now /\ Latest[r] >= now}

(* tick starts: DueNow takes its snapshot.  One tick per time unit; when   *)
(* the bounded clock has stopped (past every window) the ticks go on.      *)
DueNow ==
    /\ ticker = "idle"
    /\ lastTick < now \/ now = MaxTime
    /\ lastTick' = now
    /\ ticker' = "fire"
    /\ \E s \in OrderedBy(Due, earliest) : queue' = Limit(s, dueNowBatch)
    /\ UNCHANGED <<now, rowVars, enqueue, delivered, eventVars, historyVars, boundVars>>

Deliver(r) ==
    /\ delivered' = Bump(delivered, r)
    /\ late' = IF status[r] = "dismissed" THEN Bump(late, r) ELSE late

(* Mutant of Dispatch: the row is taken off the list too early. *)
DispatchPops ==
    /\ ticker = "fire"
    /\ queue # <<>>
    /\ ticker' = "mark"
    /\ queue' = Tail(queue)
    /\ Deliver(Head(queue))
    /\ UNCHANGED <<now, rowVars, enqueue, lastTick, eventVars, expirations, renewals, boundVars>>

(* fireOne: Dispatch succeeded. *)
Dispatch ==
    /\ ticker = "fire"
    /\ queue # <<>>
    /\ ticker' = "mark"
    /\ Deliver(Head(queue))
    /\ UNCHANGED <<now, rowVars, enqueue, lastTick, queue, eventVars, expirations, renewals,
                   boundVars>>

(* Mutant of DispatchFails: the error is not looked at. *)
DispatchFailsMarks ==
    /\ ticker = "fire"
    /\ queue # <<>>
    /\ ticker' = "mark"
    /\ UNCHANGED <<now, rowVars, enqueue, lastTick, queue, delivered, eventVars, historyVars,
                   boundVars>>

(* fireOne: Dispatch returned an error; the row stays as it is. *)
DispatchFails ==
    /\ ticker = "fire"
    /\ queue # <<>>
    /\ queue' = Tail(queue)
    /\ UNCHANGED <<now, rowVars, enqueue, ticker, lastTick, delivered, eventVars,
                   historyVars, boundVars>>

(* fireOne: the 15 s timeout hit although the connector delivered. *)
DispatchTimesOut ==
    /\ ticker = "fire"
    /\ queue # <<>>
    /\ queue' = Tail(queue)
    /\ Deliver(Head(queue))
    /\ renewals' = Bump(renewals, Head(queue))
    /\ UNCHANGED <<now, rowVars, enqueue, ticker, lastTick, eventVars, expirations, boundVars>>

(* Mutant of MarkSent: fired is emitted and the row left pending. *)
MarkSentNot ==
    /\ ticker = "mark"
    /\ ticker' = "emit_fired"
    /\ UNCHANGED <<now, rowVars, enqueue, lastTick, queue, delivered, eventVars, historyVars,
                   boundVars>>

(* MarkSent, guarded by status = pending; on failure nothing is emitted.   *)
MarkSent ==
    /\ ticker = "mark"
    /\ IF status[Head(queue)] = "pending"
         THEN /\ status' = [status EXCEPT ![Head(queue)] = "sent"]
              /\ ticker' = "emit_fired"
              /\ UNCHANGED queue
         ELSE /\ ticker' = "fire"
              /\ queue' = Tail(queue)
              /\ UNCHANGED status
    /\ UNCHANGED <<now, earliest, enqueue, lastTick, delivered, eventVars, historyVars,
                   boundVars>>

EmitFired ==
    /\ ticker = "emit_fired"
    /\ fired' = Bump(fired, Head(queue))
    /\ ticker' = "fire"
    /\ queue' = Tail(queue)
    /\ UNCHANGED <<now, rowVars, enqueue, lastTick, delivered, expiredEvents, historyVars,
                   boundVars>>

(* Mutant of Overdue: rows snoozed past the end of their window are left out. *)
OverdueInWindow ==
    {r \in Rows : /\ status[r] = "pending"
                  /\ earliest[r] <= Latest[r]
                  /\ Latest[r] < now - ExpireGrace}

Overdue == {r \in Rows : status[r] = "pending" /\ Latest[r] < now - ExpireGrace}

(* ExpireOverdue's SELECT. *)
ExpireSelect ==
    /\ ticker = "fire"
    /\ queue = <<>>
    /\ \E s \in OrderedBy(Overdue, Latest) : queue' = Limit(s, expireBatch)
    /\ ticker' = IF Overdue = {} THEN "idle" ELSE "expire"
    /\ UNCHANGED <<now, rowVars, enqueue, lastTick, delivered, eventVars, historyVars,
                   boundVars>>

(* ExpireOverdue's guarded UPDATE, and the cut of the snapshot's tail.     *)
StillPending == {i \in DOMAIN queue : status[queue[i]] = "pending"}

(* Mutant of ExpireUpdate: the whole snapshot is returned. *)
ExpireUpdateUncut ==
    /\ ticker = "expire"
    /\ LET hit == {queue[i] : i \in StillPending}
       IN /\ status' = [r \in Rows |-> IF r \in hit THEN "expired" ELSE status[r]]
          /\ expirations' = expirations + Cardinality(hit)
    /\ ticker' = "emit_expired"
    /\ UNCHANGED <<now, earliest, enqueue, lastTick, queue, delivered, eventVars, renewals, late,
                   boundVars>>

ExpireUpdate ==
    /\ ticker = "expire"
    /\ LET hit == {queue[i] : i \in StillPending}
       IN /\ status' = [r \in Rows |-> IF r \in hit THEN "expired" ELSE status[r]]
          /\ expirations' = expirations + Cardinality(hit)
    /\ queue' = SubSeq(queue, 1, Cardinality(StillPending))
    /\ ticker' = "emit_expired"
    /\ UNCHANGED <<now, earliest, enqueue, lastTick, delivered, eventVars, renewals, late,
                   boundVars>>

EmitExpired ==
    /\ ticker = "emit_expired"
    /\ IF queue = <<>>
         THEN ticker' = "idle" /\ UNCHANGED <<queue, expiredEvents>>
         ELSE /\ expiredEvents' = expiredEvents + 1
              /\ queue' = Tail(queue)
              /\ UNCHANGED ticker
    /\ UNCHANGED <<now, rowVars, enqueue, lastTick, delivered, fired, historyVars, boundVars>>

(* A store or emitter call of the tick returned an error, which is logged. *)
(* After a failed MarkSent the row is pending though its message is out.   *)
DueNowFails ==
    /\ ticker = "idle"
    /\ lastTick < now \/ now = MaxTime
    /\ lastTick' = now
    /\ ticker' = "fire"
    /\ UNCHANGED <<now, rowVars, enqueue, queue, delivered, eventVars, historyVars, boundVars>>

MarkSentFails ==
    /\ ticker = "mark"
    /\ ticker' = "fire"
    /\ queue' = Tail(queue)
    /\ renewals' = Bump(renewals, Head(queue))
    /\ UNCHANGED <<now, rowVars, enqueue, lastTick, delivered, eventVars, expirations, late,
                   boundVars>>

ExpireOverdueFails ==
    /\ \/ ticker = "fire" /\ queue = <<>>
       \/ ticker = "expire"
    /\ ticker' = "idle"
    /\ queue' = <<>>
    /\ UNCHANGED <<now, rowVars, enqueue, lastTick, delivered, eventVars, historyVars, boundVars>>

EmitFails ==
    /\ ticker \in {"emit_fired", "emit_expired"}
    /\ queue # <<>>
    /\ ticker' = IF ticker = "emit_fired" THEN "fire" ELSE ticker
    /\ queue' = Tail(queue)
    /\ UNCHANGED <<now, rowVars, enqueue, lastTick, delivered, eventVars, historyVars, boundVars>>

-----------------------------------------------------------------------------
(* HTTP handlers: unguarded single-statement updates. *)

MarkDismissed(r) ==
    /\ Stored(r)
    /\ status' = [status EXCEPT ![r] = "dismissed"]
    /\ UNCHANGED <<now, earliest, enqueue, tickVars, delivered, eventVars, historyVars,
                   boundVars>>

(* Snooze: back to pending from any status, with a later earliest_ms. *)
MarkSnoozed(r, until) ==
    /\ Stored(r)
    /\ until > now
    /\ snoozes < MaxSnoozes
    /\ snoozes' = snoozes + 1
    /\ status' = [status EXCEPT ![r] = "pending"]
    /\ earliest' = [earliest EXCEPT ![r] = until]
    /\ renewals' = Bump(renewals, r)
    /\ late' = [late EXCEPT ![r] = 0]
    /\ UNCHANGED <<now, enqueue, tickVars, delivered, eventVars, expirations, crashes>>

Delete(r) ==
    /\ Stored(r)
    /\ status' = [status EXCEPT ![r] = "deleted"]
    /\ UNCHANGED <<now, earliest, enqueue, tickVars, delivered, eventVars, historyVars,
                   boundVars>>

-----------------------------------------------------------------------------

Tick ==
    /\ now < MaxTime
    /\ now' = now + 1
    /\ UNCHANGED <<rowVars, enqueue, tickVars, delivered, eventVars, historyVars, boundVars>>

(* The gateway dies and starts again; a message on its way to MarkSent is  *)
(* out, and Run ticks at once.                                             *)
Crash ==
    /\ crashes < MaxCrashes
    /\ crashes' = crashes + 1
    /\ enqueue' = [r \in Rows |-> IF enqueue[r] = "idle" THEN "idle" ELSE "done"]
    /\ ticker' = "idle"
    /\ lastTick' = -1
    /\ queue' = <<>>
    /\ renewals' = IF ticker = "mark" THEN Bump(renewals, Head(queue)) ELSE renewals
    /\ UNCHANGED <<now, rowVars, delivered, eventVars, expirations, late, snoozes>>

Ticker ==
    \/ DueNow \/ Dispatch \/ DispatchFails \/ DispatchTimesOut \/ MarkSent \/ EmitFired
    \/ ExpireSelect \/ ExpireUpdate \/ EmitExpired
    \/ DueNowFails \/ MarkSentFails \/ ExpireOverdueFails \/ EmitFails

User ==
    \E r \in Rows : \/ MarkDismissed(r)
                    \/ \E until \in 0..MaxTime : MarkSnoozed(r, until)
                    \/ Delete(r)

Enqueue == \E r \in Rows : InsertSelect(r) \/ InsertRow(r) \/ InsertFails(r)

Next == Ticker \/ User \/ Enqueue \/ Tick \/ Crash

Spec == Init /\ [][Next]_vars

(* The clock advances, the ticker goroutine keeps running, and the         *)
(* statements of ExpireOverdue do not fail for ever; nothing is assumed of *)
(* the connectors (a dispatch may fail for ever) or of users.              *)
FairSpec ==
    Spec /\ WF_vars(Tick) /\ WF_vars(Ticker) /\ SF_vars(ExpireSelect) /\ SF_vars(ExpireUpdate)

-----------------------------------------------------------------------------
(* Properties. *)

(* Every variable has its type. *)
TypeOK ==
    /\ now \in 0..MaxTime
    /\ status \in [Rows -> {"absent", "pending", "sent", "dismissed", "expired", "deleted"}]
    /\ earliest \in [Rows -> Nat]
    /\ enqueue \in [Rows -> {"idle", "insert", "done"}]
    /\ ticker \in {"idle", "fire", "mark", "emit_fired", "expire", "emit_expired"}
    /\ lastTick \in -1..MaxTime
    /\ queue \in Seq(Rows)
    /\ ticker \in {"mark", "emit_fired", "expire"} => queue # <<>>
    /\ delivered \in [Rows -> Nat]
    /\ fired \in [Rows -> Nat]
    /\ expiredEvents \in Nat
    /\ expirations \in Nat
    /\ renewals \in [Rows -> Nat]
    /\ late \in [Rows -> Nat]
    /\ snoozes \in 0..MaxSnoozes
    /\ crashes \in 0..MaxCrashes

(* A row says "sent", and the timeline says "fired", only for a message the   *)
(* user really got, through crashes, timeouts and user actions in between.    *)
SentWasDelivered ==
    \A r \in Rows : /\ status[r] = "sent" => delivered[r] >= 1
                    /\ fired[r] <= delivered[r]

(* At most once, unless...: the user gets a reminder a second time only if    *)
(* they snoozed it, a dispatch timed out after it had been delivered, MarkSent*)
(* failed, or the gateway crashed between Dispatch and MarkSent (renewals     *)
(* counts these).                                                             *)
RepeatsExplained ==
    \A r \in Rows : delivered[r] <= 1 + renewals[r]

(* How late a dismissal may take effect: at most one more message goes out for*)
(* the row, from the snapshot of the tick it interrupts, and no later tick    *)
(* selects it.  This is less than types.go:22 promises, "dismiss (don't       *)
(* fire)": fireOne does not look at the status again, so a row dismissed      *)
(* before its dispatch began is still sent (README, finding 8).               *)
DismissTakesEffect ==
    \A r \in Rows : late[r] <= 1

(* ExpireOverdue keeps its "emit-count honest": over all rows there are never *)
(* more commitment.expired events, out or about to be emitted, than rows      *)
(* that expired, whatever changed between its SELECT and its UPDATE.          *)
ExpiredCountHonest ==
    expiredEvents + (IF ticker = "emit_expired" THEN Len(queue) ELSE 0) <= expirations

(* No commitment is pending for ever: it is sent, dismissed, deleted or       *)
(* expired, also when it was snoozed past the end of its window or revived    *)
(* after that end.                                                            *)
PendingResolves ==
    \A r \in Rows : status[r] = "pending" ~> status[r] # "pending"

(* store.go on Insert's dedupe: "the row stays unique".  No two rows with one *)
(* workspace and dedupe key are pending at the same time.                     *)
OnePendingPerKey ==
    \A r, q \in Rows :
        (r # q /\ status[r] = "pending" /\ status[q] = "pending") => dedupe_key[r] # dedupe_key[q]
=============================================================================
