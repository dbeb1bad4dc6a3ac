-------------------------- MODULE CommitmentsProofs --------------------------
(***************************************************************************)
(* Theorems about Commitments, for any set of candidates, windows, batch   *)
(* limits, number of snoozes and number of crashes.  The ticker works on a *)
(* snapshot of the table while users change the rows under it, so each     *)
(* property needs to know what holds of the rows of that snapshot that     *)
(* have not been delivered yet.                                            *)
(***************************************************************************)
EXTENDS Commitments, FiniteSetTheorems, SequenceTheorems, TLAPS

(* A snapshot is a list of distinct stored rows, and an idle ticker has none. *)
QueueInv ==
    /\ ticker = "idle" => queue = <<>>
    /\ \A i, j \in 1..Len(queue) : i # j => queue[i] # queue[j]
    /\ \A i \in 1..Len(queue) : status[queue[i]] # "absent"

(* The INSERT is the only way into the table, and runs once per candidate. *)
InsertInv == \A r \in Rows : enqueue[r] # "done" => status[r] = "absent"

(* The rows of the tick's snapshot whose message is still to come. *)
Waiting(i) == \/ ticker = "fire"
              \/ ticker \in {"mark", "emit_fired"} /\ i # 1

(* Between Dispatch and the fired event, the message is out and not counted. *)
SentInv ==
    /\ SentWasDelivered
    /\ ticker \in {"mark", "emit_fired"} => fired[Head(queue)] < delivered[Head(queue)]

(* A row that can still be fired has used up no more than its renewals. *)
RepeatsInv ==
    /\ RepeatsExplained
    /\ \A r \in Rows :
          (status[r] \in {"absent", "pending"} /\ ~(ticker = "mark" /\ r = Head(queue)))
              => delivered[r] <= renewals[r]
    /\ \A i \in 1..Len(queue) : Waiting(i) => delivered[queue[i]] <= renewals[queue[i]]

(* A row that can still be fired has had no message after a dismissal. *)
DismissInv ==
    /\ DismissTakesEffect
    /\ \A r \in Rows : status[r] \in {"absent", "pending"} => late[r] = 0
    /\ \A i \in 1..Len(queue) : Waiting(i) => late[queue[i]] = 0

-----------------------------------------------------------------------------
(* The operators. *)

(* Going one row on in the snapshot. *)
LEMMA TailFacts ==
    ASSUME NEW q \in Seq(Rows), q # <<>>
    PROVE  /\ Len(q) \in Nat \ {0}
           /\ Head(q) = q[1]
           /\ Head(q) \in Rows
           /\ Tail(q) \in Seq(Rows)
           /\ Len(Tail(q)) = Len(q) - 1
           /\ \A i \in 1..Len(Tail(q)) : i + 1 \in 1..Len(q) /\ Tail(q)[i] = q[i + 1]
<1>1. Len(q) \in Nat \ {0}
  BY EmptySeq
<1>2. Head(q) = q[1]
  OBVIOUS
<1>3. /\ Head(q) \in Rows
      /\ Tail(q) \in Seq(Rows)
      /\ Len(Tail(q)) = Len(q) - 1
      /\ \A i \in 1..Len(Tail(q)) : Tail(q)[i] = q[i + 1]
  BY HeadTailProperties
<1>4. \A i \in 1..Len(Tail(q)) : i + 1 \in 1..Len(q)
  BY <1>1, <1>3
<1> QED
  BY <1>1, <1>2, <1>3, <1>4

(* One more message or event for a row. *)
LEMMA BumpFacts ==
    ASSUME NEW f \in [Rows -> Nat], NEW r \in Rows
    PROVE  /\ Bump(f, r) \in [Rows -> Nat]
           /\ Bump(f, r)[r] = f[r] + 1
           /\ \A q \in Rows : q # r => Bump(f, r)[q] = f[q]
  BY DEF Bump

(* What SELECT ... ORDER BY ... LIMIT n returns: distinct rows of the set, *)
(* and some whenever there is one.                                         *)
LEMMA SnapshotFacts ==
    ASSUME NEW S \in SUBSET Rows, NEW key, NEW n \in Nat \ {0}, NEW s \in OrderedBy(S, key)
    PROVE  /\ Limit(s, n) \in Seq(Rows)
           /\ \A i \in 1..Len(Limit(s, n)) : Limit(s, n)[i] \in S
           /\ \A i, j \in 1..Len(Limit(s, n)) : i # j => Limit(s, n)[i] # Limit(s, n)[j]
           /\ Limit(s, n) = <<>> <=> S = {}
<1> DEFINE c == Cardinality(S)
<1>1. IsFiniteSet(S) /\ c \in Nat
  BY FS_Subset, FS_CardinalityType, WindowsAssumption DEF WindowsAssumption
<1>2. c = 0 <=> S = {}
  BY <1>1, FS_EmptySet
<1>3. s \in [1..c -> S] /\ \A i, j \in 1..c : i < j => s[i] # s[j]
  BY DEF OrderedBy
<1> HIDE DEF c
<1>4. s \in Seq(S) /\ Len(s) = c
  BY <1>1, <1>3
<1>5. \A i, j \in 1..c : i # j => s[i] # s[j]
  <2> SUFFICES ASSUME NEW i \in 1..c, NEW j \in 1..c, i # j PROVE s[i] # s[j]
    OBVIOUS
  <2>1. i < j \/ j < i
    BY <1>1
  <2> QED
    BY <2>1, <1>3
<1>6. CASE c <= n
  <2>1. Limit(s, n) = s
    BY <1>4, <1>6 DEF Limit
  <2>2. s \in Seq(Rows)
    BY <1>4, SeqMonotonic
  <2>3. s = <<>> <=> c = 0
    BY <1>4, EmptySeq
  <2> QED
    BY <2>1, <2>2, <2>3, <1>2, <1>3, <1>4, <1>5
<1>7. CASE ~(c <= n)
  <2> DEFINE t == SubSeq(s, 1, n)
  <2>1. Limit(s, n) = t
    BY <1>4, <1>7 DEF Limit
  <2>2. \A i \in 1..n : i \in 1..c /\ s[i] \in S
    BY <1>1, <1>3, <1>7
  <2>3. /\ t \in Seq(S)
        /\ Len(t) = n
        /\ \A i \in 1..n : t[i] = s[i]
    BY <2>2, SubSeqProperties
  <2>4. t \in Seq(Rows)
    BY <2>3, SeqMonotonic
  <2> HIDE DEF t
  <2>5. t # <<>>
    BY <2>3
  <2>6. S # {}
    BY <1>1, <1>2, <1>7
  <2> QED
    BY <2>1, <2>2, <2>3, <2>4, <2>5, <2>6, <1>5
<1> QED
  BY <1>6, <1>7

(* DueNow's snapshot: distinct rows, pending when it was taken. *)
LEMMA DueNowFacts ==
    ASSUME DueNow
    PROVE  /\ queue' \in Seq(Rows)
           /\ \A i \in 1..Len(queue') : queue'[i] \in Rows /\ status[queue'[i]] = "pending"
           /\ \A i, j \in 1..Len(queue') : i # j => queue'[i] # queue'[j]
<1>1. PICK s \in OrderedBy(Due, earliest) : queue' = Limit(s, dueNowBatch)
  BY DEF DueNow
<1>2. Due \in SUBSET Rows /\ dueNowBatch \in Nat \ {0}
  BY WindowsAssumption DEF Due, WindowsAssumption
<1> DEFINE q == Limit(s, dueNowBatch)
<1>3. /\ q \in Seq(Rows)
      /\ \A i \in 1..Len(q) : q[i] \in Due
      /\ \A i, j \in 1..Len(q) : i # j => q[i] # q[j]
  BY <1>2, SnapshotFacts
<1> HIDE DEF q
<1>4. queue' = q
  BY <1>1 DEF q
<1>5. /\ queue' \in Seq(Rows)
      /\ \A i \in 1..Len(queue') : queue'[i] \in Due
      /\ \A i, j \in 1..Len(queue') : i # j => queue'[i] # queue'[j]
  BY <1>3, <1>4, Zenon
<1> QED
  BY <1>5 DEF Due

(* ExpireOverdue's UPDATE touches one row per entry it finds still pending. *)
LEMMA StillPendingFacts ==
    ASSUME TypeOK, QueueInv
    PROVE  /\ Cardinality(StillPending) \in 0..Len(queue)
           /\ Cardinality({queue[i] : i \in StillPending}) = Cardinality(StillPending)
<1> DEFINE S == StillPending
           T == {queue[i] : i \in StillPending}
           f == [i \in S |-> queue[i]]
<1>1. Len(queue) \in Nat /\ DOMAIN queue = 1..Len(queue)
  BY LenProperties DEF TypeOK
<1>2. S \in SUBSET (1..Len(queue))
  BY <1>1 DEF StillPending
<1>3. IsFiniteSet(1..Len(queue)) /\ Cardinality(1..Len(queue)) = Len(queue)
  <2>1. 1 \in Int /\ Len(queue) \in Int
    BY <1>1
  <2>2. /\ IsFiniteSet(1..Len(queue))
        /\ Cardinality(1..Len(queue)) = IF 1 > Len(queue) THEN 0 ELSE Len(queue) - 1 + 1
    BY <2>1, FS_Interval, Zenon
  <2> QED
    BY <1>1, <2>2
<1>4. IsFiniteSet(S) /\ Cardinality(S) <= Len(queue)
  BY <1>2, <1>3, FS_Subset
<1>5. Cardinality(S) \in Nat
  BY <1>4, FS_CardinalityType
<1>6. f \in Surjection(S, T)
  BY DEF Surjection
<1>7. \A i, j \in S : i # j => f[i] # f[j]
  BY <1>2 DEF QueueInv
<1>8. f \in Injection(S, T)
  BY <1>7 DEF Injection, IsInjective
<1> HIDE DEF S, T, f
<1>9. Cardinality(T) = Cardinality(S)
  BY <1>4, <1>6, <1>8, FS_Surjection
<1> QED
  BY <1>1, <1>4, <1>5, <1>9 DEF S, T

-----------------------------------------------------------------------------
(* Every step is a step of one of the actions. *)
LEMMA NextCases ==
    ASSUME NEW G, [Next]_vars,
           DueNow => G, Dispatch => G, DispatchFails => G, DispatchTimesOut => G,
           MarkSent => G, EmitFired => G, ExpireSelect => G, ExpireUpdate => G,
           EmitExpired => G, DueNowFails => G, MarkSentFails => G,
           ExpireOverdueFails => G, EmitFails => G,
           \A r \in Rows : MarkDismissed(r) => G,
           \A r \in Rows : \A until \in 0..MaxTime : MarkSnoozed(r, until) => G,
           \A r \in Rows : Delete(r) => G,
           \A r \in Rows : InsertSelect(r) => G,
           \A r \in Rows : InsertRow(r) => G,
           \A r \in Rows : InsertFails(r) => G,
           Tick => G, Crash => G, UNCHANGED vars => G
    PROVE  G
  BY Zenon DEF Next, Ticker, User, Enqueue

(* Init satisfies the types. *)
LEMMA TypeInit == Init => TypeOK
<1> SUFFICES ASSUME Init PROVE TypeOK
  OBVIOUS
<1>1. queue \in Seq(Rows)
  BY EmptySeq DEF Init
<1> QED
  BY <1>1, WindowsAssumption DEF Init, TypeOK, WindowsAssumption, Zero

(* Every action keeps the types: the snapshots are rows of the table, and the *)
(* ticker is in the middle of a row only while it has one.                    *)
LEMMA TypeStep == TypeOK /\ QueueInv /\ [Next]_vars => TypeOK'
<1> SUFFICES ASSUME TypeOK, QueueInv, [Next]_vars PROVE TypeOK'
  OBVIOUS
<1> USE WindowsAssumption DEF WindowsAssumption
<1>t. queue # <<>> => /\ Head(queue) \in Rows
                      /\ Tail(queue) \in Seq(Rows)
  BY TailFacts DEF TypeOK
<1>e. <<>> \in Seq(Rows)
  BY EmptySeq
<1>1. ASSUME DueNow PROVE TypeOK'
  <2>2. queue' \in Seq(Rows)
    BY <1>1, DueNowFacts
  <2> QED
    BY <1>1, <2>2 DEF TypeOK, DueNow, rowVars, eventVars, historyVars, boundVars
<1>2. ASSUME Dispatch PROVE TypeOK'
  <2>1. delivered' \in [Rows -> Nat] /\ late' \in [Rows -> Nat]
    BY <1>2, <1>t, BumpFacts DEF TypeOK, Dispatch, Deliver
  <2> QED
    BY <1>2, <2>1 DEF TypeOK, Dispatch, rowVars, eventVars, boundVars
<1>3. ASSUME DispatchFails PROVE TypeOK'
  BY <1>3, <1>t DEF TypeOK, DispatchFails, rowVars, eventVars, historyVars, boundVars
<1>4. ASSUME DispatchTimesOut PROVE TypeOK'
  <2>1. delivered' \in [Rows -> Nat] /\ late' \in [Rows -> Nat]
    BY <1>4, <1>t, BumpFacts DEF TypeOK, DispatchTimesOut, Deliver
  <2>2. renewals' \in [Rows -> Nat]
    BY <1>4, <1>t, BumpFacts DEF TypeOK, DispatchTimesOut
  <2> QED
    BY <1>4, <1>t, <2>1, <2>2 DEF TypeOK, DispatchTimesOut, rowVars, eventVars, boundVars
<1>5. ASSUME MarkSent PROVE TypeOK'
  BY <1>5, <1>t DEF TypeOK, MarkSent, eventVars, historyVars, boundVars
<1>6. ASSUME EmitFired PROVE TypeOK'
  <2>1. fired' \in [Rows -> Nat]
    BY <1>6, <1>t, BumpFacts DEF TypeOK, EmitFired
  <2> QED
    BY <1>6, <1>t, <2>1 DEF TypeOK, EmitFired, rowVars, historyVars, boundVars
<1>7. ASSUME ExpireSelect PROVE TypeOK'
  <2>1. PICK s \in OrderedBy(Overdue, Latest) : queue' = Limit(s, expireBatch)
    BY <1>7 DEF ExpireSelect
  <2>2. queue' \in Seq(Rows) /\ (queue' = <<>> <=> Overdue = {})
    BY <2>1, SnapshotFacts DEF Overdue
  <2> QED
    BY <1>7, <2>2 DEF TypeOK, ExpireSelect, rowVars, eventVars, historyVars, boundVars
<1>8. ASSUME ExpireUpdate PROVE TypeOK'
  <2>1. Cardinality(StillPending) \in 0..Len(queue)
    BY StillPendingFacts
  <2>2. Cardinality({queue[i] : i \in StillPending}) \in Nat
    BY StillPendingFacts, <2>1
  <2>3. queue' \in Seq(Rows)
    <3>1. \A i \in 1..Cardinality(StillPending) : queue[i] \in Rows
      BY <2>1 DEF TypeOK
    <3> QED
      BY <1>8, <2>1, <3>1, SubSeqProperties DEF ExpireUpdate
  <2>4. status' \in [Rows -> {"absent", "pending", "sent", "dismissed", "expired", "deleted"}]
    BY <1>8 DEF ExpireUpdate, TypeOK
  <2>5. expirations' \in Nat
    <3>1. expirations' = expirations + Cardinality({queue[i] : i \in StillPending})
      BY <1>8, Zenon DEF ExpireUpdate
    <3>2. expirations \in Nat
      BY Zenon DEF TypeOK
    <3> DEFINE n == Cardinality({queue[i] : i \in StillPending})
    <3>3. n \in Nat
      BY <2>2
    <3> HIDE DEF n
    <3>4. expirations' = expirations + n
      BY <3>1 DEF n
    <3> QED
      BY <3>2, <3>3, <3>4
  <2>6. /\ ticker' = "emit_expired"
        /\ UNCHANGED <<now, earliest, enqueue, lastTick, delivered, fired, expiredEvents, renewals,
                       late, snoozes, crashes>>
    BY <1>8, Zenon DEF ExpireUpdate, eventVars, boundVars
  <2> QED
    BY <2>3, <2>4, <2>5, <2>6 DEF TypeOK
<1>9. ASSUME EmitExpired PROVE TypeOK'
  <2>1. CASE queue = <<>>
    BY <1>9, <2>1 DEF TypeOK, EmitExpired, rowVars, historyVars, boundVars
  <2>2. CASE queue # <<>>
    <3>1. expiredEvents' = expiredEvents + 1 /\ queue' = Tail(queue) /\ ticker' = ticker
      BY <1>9, <2>2, Zenon DEF EmitExpired
    <3>2. expiredEvents' \in Nat
      BY <3>1 DEF TypeOK
    <3>3. queue' \in Seq(Rows)
      BY <3>1, <1>t, <2>2
    <3> QED
      BY <1>9, <3>1, <3>2, <3>3 DEF TypeOK, EmitExpired, rowVars, historyVars, boundVars
  <2> QED
    BY <2>1, <2>2
<1>10. ASSUME DueNowFails PROVE TypeOK'
  BY <1>10 DEF TypeOK, DueNowFails, rowVars, eventVars, historyVars, boundVars
<1>11. ASSUME MarkSentFails PROVE TypeOK'
  <2>1. renewals' \in [Rows -> Nat]
    BY <1>11, <1>t, BumpFacts DEF TypeOK, MarkSentFails
  <2> QED
    BY <1>11, <1>t, <2>1 DEF TypeOK, MarkSentFails, rowVars, eventVars, boundVars
<1>12. ASSUME ExpireOverdueFails PROVE TypeOK'
  BY <1>12, <1>e DEF TypeOK, ExpireOverdueFails, rowVars, eventVars, historyVars, boundVars
<1>13. ASSUME EmitFails PROVE TypeOK'
  BY <1>13, <1>t DEF TypeOK, EmitFails, rowVars, eventVars, historyVars, boundVars
<1>14. ASSUME NEW r \in Rows, MarkDismissed(r) PROVE TypeOK'
  BY <1>14 DEF TypeOK, MarkDismissed, tickVars, eventVars, historyVars, boundVars
<1>15. ASSUME NEW r \in Rows, NEW until \in 0..MaxTime, MarkSnoozed(r, until) PROVE TypeOK'
  <2>1. renewals' \in [Rows -> Nat]
    BY <1>15, BumpFacts DEF TypeOK, MarkSnoozed
  <2>2. until \in Nat /\ snoozes' \in 0..MaxSnoozes
    BY <1>15 DEF TypeOK, MarkSnoozed
  <2>3. /\ status' = [status EXCEPT ![r] = "pending"]
        /\ earliest' = [earliest EXCEPT ![r] = until]
        /\ late' = [late EXCEPT ![r] = 0]
    BY <1>15 DEF MarkSnoozed
  <2>4. earliest' \in [Rows -> Nat]
    BY <2>2, <2>3 DEF TypeOK
  <2>5. late' \in [Rows -> Nat]
    BY <2>3 DEF TypeOK
  <2>6. status' \in [Rows -> {"absent", "pending", "sent", "dismissed", "expired", "deleted"}]
    BY <2>3 DEF TypeOK
  <2>7. UNCHANGED <<now, enqueue, ticker, lastTick, queue, delivered, fired, expiredEvents,
                    expirations, crashes>>
    BY <1>15 DEF MarkSnoozed, tickVars, eventVars
  <2> QED
    BY <2>1, <2>2, <2>4, <2>5, <2>6, <2>7 DEF TypeOK
<1>16. ASSUME NEW r \in Rows, Delete(r) PROVE TypeOK'
  BY <1>16 DEF TypeOK, Delete, tickVars, eventVars, historyVars, boundVars
<1>17. ASSUME NEW r \in Rows, InsertSelect(r) PROVE TypeOK'
  BY <1>17 DEF TypeOK, InsertSelect, rowVars, tickVars, eventVars, historyVars, boundVars
<1>18. ASSUME NEW r \in Rows, InsertRow(r) PROVE TypeOK'
  BY <1>18 DEF TypeOK, InsertRow, tickVars, eventVars, historyVars, boundVars
<1>19. ASSUME NEW r \in Rows, InsertFails(r) PROVE TypeOK'
  BY <1>19 DEF TypeOK, InsertFails, rowVars, tickVars, eventVars, historyVars, boundVars
<1>20. ASSUME Tick PROVE TypeOK'
  BY <1>20 DEF TypeOK, Tick, rowVars, tickVars, eventVars, historyVars, boundVars
<1>21. ASSUME Crash PROVE TypeOK'
  <2>1. renewals' \in [Rows -> Nat]
    BY <1>21, <1>t, BumpFacts DEF TypeOK, Crash
  <2>2. enqueue' \in [Rows -> {"idle", "insert", "done"}]
    BY <1>21 DEF TypeOK, Crash
  <2>3. queue' \in Seq(Rows) /\ ticker' = "idle"
    BY <1>21, <1>e DEF Crash
  <2>4. crashes' \in 0..MaxCrashes /\ lastTick' \in -1..MaxTime
    BY <1>21 DEF TypeOK, Crash
  <2> QED
    BY <1>21, <2>1, <2>2, <2>3, <2>4 DEF TypeOK, Crash, rowVars, eventVars
<1>22. ASSUME UNCHANGED vars PROVE TypeOK'
  BY <1>22 DEF TypeOK, vars, rowVars, tickVars, eventVars, historyVars, boundVars
<1> QED
  BY <1>1, <1>2, <1>3, <1>4, <1>5, <1>6, <1>7, <1>8, <1>9, <1>10, <1>11, <1>12, <1>13,
     <1>14, <1>15, <1>16, <1>17, <1>18, <1>19, <1>20, <1>21, <1>22, NextCases

(* No statement removes a row so that its id is free again: a deleted row   *)
(* does not come back.                                                      *)
LEMMA StaysStored ==
    ASSUME TypeOK, [Next]_vars
    PROVE  \A r \in Rows : status[r] # "absent" => status'[r] # "absent"
<1> DEFINE G == \A r \in Rows : status[r] # "absent" => status'[r] # "absent"
<1>t. ticker = "mark" => Head(queue) \in Rows
  BY TailFacts DEF TypeOK
<1>1. UNCHANGED status => G
  OBVIOUS
<1>2. MarkSent => G
  BY <1>t DEF MarkSent, TypeOK
<1>3. ExpireUpdate => G
  BY DEF ExpireUpdate
<1>4. \A r \in Rows : MarkDismissed(r) => G
  BY DEF MarkDismissed, TypeOK
<1>5. \A r \in Rows : \A until \in 0..MaxTime : MarkSnoozed(r, until) => G
  BY DEF MarkSnoozed, TypeOK
<1>6. \A r \in Rows : Delete(r) => G
  BY DEF Delete, TypeOK
<1>7. \A r \in Rows : InsertRow(r) => G
  BY DEF InsertRow, TypeOK
<1> HIDE DEF G
<1>8. /\ DueNow => UNCHANGED status
      /\ Dispatch => UNCHANGED status
      /\ DispatchFails => UNCHANGED status
      /\ DispatchTimesOut => UNCHANGED status
      /\ EmitFired => UNCHANGED status
      /\ ExpireSelect => UNCHANGED status
      /\ EmitExpired => UNCHANGED status
      /\ DueNowFails => UNCHANGED status
      /\ MarkSentFails => UNCHANGED status
      /\ ExpireOverdueFails => UNCHANGED status
      /\ EmitFails => UNCHANGED status
      /\ \A r \in Rows : InsertSelect(r) => UNCHANGED status
      /\ \A r \in Rows : InsertFails(r) => UNCHANGED status
      /\ Tick => UNCHANGED status
      /\ Crash => UNCHANGED status
      /\ UNCHANGED vars => UNCHANGED status
  BY DEF DueNow, Dispatch, DispatchFails, DispatchTimesOut, EmitFired, ExpireSelect,
         EmitExpired, DueNowFails, MarkSentFails, ExpireOverdueFails, EmitFails, InsertSelect,
         InsertFails, Tick, Crash, vars, rowVars
<1>9. G
  BY <1>1, <1>2, <1>3, <1>4, <1>5, <1>6, <1>7, <1>8, NextCases, Zenon
<1> QED
  BY <1>9 DEF G

(* A snapshot that is kept, shortened at either end, or dropped stays a list *)
(* of distinct stored rows.                                                  *)
LEMMA QueueShrinks ==
    ASSUME TypeOK, QueueInv, [Next]_vars,
           \/ queue' = queue
           \/ queue # <<>> /\ queue' = Tail(queue)
           \/ queue' = <<>>
           \/ \E k \in 0..Len(queue) : queue' = SubSeq(queue, 1, k)
    PROVE  /\ \A i, j \in 1..Len(queue') : i # j => queue'[i] # queue'[j]
           /\ \A i \in 1..Len(queue') : status'[queue'[i]] # "absent"
<1>1. queue \in Seq(Rows) /\ \A i \in 1..Len(queue) : queue[i] \in Rows
  BY DEF TypeOK
<1>2. CASE queue' = queue
  BY <1>1, <1>2, StaysStored DEF QueueInv
<1>3. CASE queue # <<>> /\ queue' = Tail(queue)
  <2>1. \A i \in 1..Len(queue') : i + 1 \in 1..Len(queue) /\ queue'[i] = queue[i + 1]
    BY <1>1, <1>3, TailFacts
  <2>2. \A i, j \in 1..Len(queue') : i # j => i + 1 # j + 1
    BY <1>1, <1>3
  <2> QED
    BY <1>1, <2>1, <2>2, StaysStored DEF QueueInv
<1>4. CASE queue' = <<>>
  BY <1>4
<1>5. ASSUME NEW k \in 0..Len(queue), queue' = SubSeq(queue, 1, k)
      PROVE  /\ \A i, j \in 1..Len(queue') : i # j => queue'[i] # queue'[j]
             /\ \A i \in 1..Len(queue') : status'[queue'[i]] # "absent"
  <2>1. Len(queue') = k /\ \A i \in 1..k : i \in 1..Len(queue) /\ queue'[i] = queue[i]
    <3>1. \A i \in 1..k : queue[i] \in Rows
      BY <1>1
    <3> QED
      BY <1>1, <1>5, <3>1, SubSeqProperties
  <2> QED
    BY <1>1, <2>1, StaysStored DEF QueueInv
<1> QED
  BY <1>2, <1>3, <1>4, <1>5

(* Every action keeps the snapshot a list of distinct stored rows. *)
LEMMA QueueStep == TypeOK /\ QueueInv /\ [Next]_vars => QueueInv'
<1> SUFFICES ASSUME TypeOK, QueueInv, [Next]_vars PROVE QueueInv'
  OBVIOUS
<1> USE WindowsAssumption DEF WindowsAssumption
<1> DEFINE Shrinks == \/ queue' = queue
                      \/ queue # <<>> /\ queue' = Tail(queue)
                      \/ queue' = <<>>
                      \/ \E k \in 0..Len(queue) : queue' = SubSeq(queue, 1, k)
<1>s. (Shrinks /\ (ticker' = "idle" => queue' = <<>>)) => QueueInv'
  BY QueueShrinks DEF QueueInv
<1>1. DueNow => QueueInv'
  <2> SUFFICES ASSUME DueNow PROVE QueueInv'
    OBVIOUS
  <2>2. /\ \A i \in 1..Len(queue') : status[queue'[i]] = "pending"
        /\ \A i, j \in 1..Len(queue') : i # j => queue'[i] # queue'[j]
    BY DueNowFacts
  <2>3. ticker' # "idle" /\ status' = status
    BY DEF DueNow, rowVars
  <2> QED
    BY <2>2, <2>3 DEF QueueInv
<1>2. ExpireSelect => QueueInv'
  <2> SUFFICES ASSUME ExpireSelect PROVE QueueInv'
    OBVIOUS
  <2>1. PICK s \in OrderedBy(Overdue, Latest) : queue' = Limit(s, expireBatch)
    BY DEF ExpireSelect
  <2>2. /\ \A i \in 1..Len(queue') : queue'[i] \in Overdue
        /\ \A i, j \in 1..Len(queue') : i # j => queue'[i] # queue'[j]
        /\ queue' = <<>> <=> Overdue = {}
    <3>1. Overdue \in SUBSET Rows /\ expireBatch \in Nat \ {0}
      BY DEF Overdue
    <3> DEFINE q == Limit(s, expireBatch)
    <3>2. /\ \A i \in 1..Len(q) : q[i] \in Overdue
          /\ \A i, j \in 1..Len(q) : i # j => q[i] # q[j]
          /\ q = <<>> <=> Overdue = {}
      BY <3>1, SnapshotFacts
    <3> HIDE DEF q
    <3>3. queue' = q
      BY <2>1 DEF q
    <3> QED
      BY <3>2, <3>3, Zenon
  <2>3. (ticker' = "idle" => Overdue = {}) /\ status' = status
    BY DEF ExpireSelect, rowVars
  <2> QED
    BY <2>2, <2>3 DEF QueueInv, Overdue
<1>3. ExpireUpdate => QueueInv'
  <2> SUFFICES ASSUME ExpireUpdate PROVE QueueInv'
    OBVIOUS
  <2>1. queue' = SubSeq(queue, 1, Cardinality(StillPending)) /\ ticker' # "idle"
    BY DEF ExpireUpdate
  <2> QED
    BY <2>1, <1>s, StillPendingFacts
<1>4. /\ Dispatch => QueueInv'
      /\ DispatchFails => QueueInv'
      /\ DispatchTimesOut => QueueInv'
      /\ MarkSent => QueueInv'
      /\ EmitFired => QueueInv'
      /\ DueNowFails => QueueInv'
      /\ MarkSentFails => QueueInv'
      /\ ExpireOverdueFails => QueueInv'
      /\ EmitFails => QueueInv'
  BY <1>s DEF Dispatch, DispatchFails, DispatchTimesOut, MarkSent, EmitFired, DueNowFails,
              MarkSentFails, ExpireOverdueFails, EmitFails, TypeOK
<1>5. EmitExpired => QueueInv'
  BY <1>s DEF EmitExpired
<1>6. /\ \A r \in Rows : MarkDismissed(r) => QueueInv'
      /\ \A r \in Rows : \A until \in 0..MaxTime : MarkSnoozed(r, until) => QueueInv'
      /\ \A r \in Rows : Delete(r) => QueueInv'
      /\ \A r \in Rows : InsertSelect(r) => QueueInv'
      /\ \A r \in Rows : InsertRow(r) => QueueInv'
      /\ \A r \in Rows : InsertFails(r) => QueueInv'
      /\ Tick => QueueInv'
      /\ UNCHANGED vars => QueueInv'
  BY <1>s DEF MarkDismissed, MarkSnoozed, Delete, InsertSelect, InsertRow, InsertFails, Tick,
              vars, tickVars, QueueInv
<1>7. Crash => QueueInv'
  BY <1>s DEF Crash
<1> QED
  BY <1>1, <1>2, <1>3, <1>4, <1>5, <1>6, <1>7, NextCases, Zenon

(* Every action keeps a candidate out of the table until its INSERT. *)
LEMMA InsertStep == TypeOK /\ InsertInv /\ [Next]_vars => InsertInv'
<1> SUFFICES ASSUME TypeOK, InsertInv, [Next]_vars PROVE InsertInv'
  OBVIOUS
<1>t. ticker = "mark" => Head(queue) \in Rows
  BY TailFacts DEF TypeOK
<1>1. MarkSent => InsertInv'
  BY <1>t DEF MarkSent, InsertInv, TypeOK
<1>2. ExpireUpdate => InsertInv'
  BY DEF ExpireUpdate, StillPending, InsertInv, TypeOK
<1>3. \A r \in Rows : MarkDismissed(r) => InsertInv'
  BY DEF MarkDismissed, Stored, InsertInv, TypeOK
<1>4. \A r \in Rows : \A until \in 0..MaxTime : MarkSnoozed(r, until) => InsertInv'
  BY DEF MarkSnoozed, Stored, InsertInv, TypeOK
<1>5. \A r \in Rows : Delete(r) => InsertInv'
  BY DEF Delete, Stored, InsertInv, TypeOK
<1>6. \A r \in Rows : InsertSelect(r) => InsertInv'
  BY DEF InsertSelect, rowVars, InsertInv, TypeOK
<1>7. \A r \in Rows : InsertRow(r) => InsertInv'
  BY DEF InsertRow, InsertInv, TypeOK
<1>8. \A r \in Rows : InsertFails(r) => InsertInv'
  BY DEF InsertFails, rowVars, InsertInv, TypeOK
<1>9. Crash => InsertInv'
  BY DEF Crash, rowVars, InsertInv, TypeOK
<1>10. UNCHANGED <<status, enqueue>> => InsertInv'
  BY DEF InsertInv
<1>11. /\ DueNow => UNCHANGED <<status, enqueue>>
       /\ Dispatch => UNCHANGED <<status, enqueue>>
       /\ DispatchFails => UNCHANGED <<status, enqueue>>
       /\ DispatchTimesOut => UNCHANGED <<status, enqueue>>
       /\ EmitFired => UNCHANGED <<status, enqueue>>
       /\ ExpireSelect => UNCHANGED <<status, enqueue>>
       /\ EmitExpired => UNCHANGED <<status, enqueue>>
       /\ DueNowFails => UNCHANGED <<status, enqueue>>
       /\ MarkSentFails => UNCHANGED <<status, enqueue>>
       /\ ExpireOverdueFails => UNCHANGED <<status, enqueue>>
       /\ EmitFails => UNCHANGED <<status, enqueue>>
       /\ Tick => UNCHANGED <<status, enqueue>>
       /\ UNCHANGED vars => UNCHANGED <<status, enqueue>>
  BY DEF DueNow, Dispatch, DispatchFails, DispatchTimesOut, EmitFired, ExpireSelect,
         EmitExpired, DueNowFails, MarkSentFails, ExpireOverdueFails, EmitFails, Tick, vars,
         rowVars
<1> QED
  BY <1>1, <1>2, <1>3, <1>4, <1>5, <1>6, <1>7, <1>8, <1>9, <1>10, <1>11, NextCases, Zenon

(* The types, the snapshot and the table hold in every reachable state. *)
CoreInv == TypeOK /\ QueueInv /\ InsertInv

(* The part of the invariant that every theorem below starts from. *)
LEMMA Core == Spec => []CoreInv
<1>1. Init => CoreInv
  <2> SUFFICES ASSUME Init PROVE QueueInv /\ InsertInv
    BY TypeInit DEF CoreInv
  <2> QED
    BY DEF Init, QueueInv, InsertInv
<1>2. CoreInv /\ [Next]_vars => CoreInv'
  BY TypeStep, QueueStep, InsertStep DEF CoreInv
<1> QED
  BY <1>1, <1>2, PTL DEF Spec

(* Type correctness of the commitments store and its ticker, with the part   *)
(* that matters: between Dispatch and the fired event, and between the two   *)
(* statements of ExpireOverdue, the ticker has a row in hand.                *)
THEOREM TypeCorrect == Spec => []TypeOK
<1>1. CoreInv => TypeOK
  BY DEF CoreInv
<1> QED
  BY <1>1, Core, PTL

-----------------------------------------------------------------------------
(* Sent and fired. *)

(* The row in hand keeps its place while the ticker works on it. *)
LEMMA SentStep == CoreInv /\ SentInv /\ [Next]_vars => SentInv'
<1> SUFFICES ASSUME TypeOK, SentInv, [Next]_vars PROVE SentInv'
  BY DEF CoreInv
<1>t. queue # <<>> => Head(queue) \in Rows
  BY TailFacts DEF TypeOK
<1>d. \A r \in Rows : delivered[r] \in Nat /\ fired[r] \in Nat
  BY DEF TypeOK
<1>1. Dispatch => SentInv'
  <2> SUFFICES ASSUME Dispatch PROVE SentInv'
    OBVIOUS
  <2> DEFINE h == Head(queue)
  <2>1. /\ h \in Rows /\ queue' = queue /\ status' = status /\ fired' = fired
        /\ delivered' = Bump(delivered, h)
    BY <1>t DEF Dispatch, Deliver, rowVars, eventVars
  <2>2. delivered'[h] = delivered[h] + 1 /\ \A q \in Rows : q # h => delivered'[q] = delivered[q]
    BY <2>1, BumpFacts DEF TypeOK
  <2> HIDE DEF h
  <2>3. \A r \in Rows : delivered[r] <= delivered'[r] /\ delivered'[r] \in Nat
    BY <2>1, <2>2, <1>d
  <2>4. SentWasDelivered'
    BY <2>1, <2>3, <1>d DEF SentInv, SentWasDelivered
  <2>5. fired'[h] < delivered'[h]
    BY <2>1, <2>2, <1>d DEF SentInv, SentWasDelivered
  <2> QED
    BY <2>1, <2>4, <2>5 DEF SentInv, h
<1>2. DispatchTimesOut => SentInv'
  <2> SUFFICES ASSUME DispatchTimesOut PROVE SentInv'
    OBVIOUS
  <2> DEFINE h == Head(queue)
  <2>1. /\ h \in Rows /\ ticker' = "fire" /\ status' = status /\ fired' = fired
        /\ delivered' = Bump(delivered, h)
    BY <1>t DEF DispatchTimesOut, Deliver, rowVars, eventVars
  <2>2. delivered'[h] = delivered[h] + 1 /\ \A q \in Rows : q # h => delivered'[q] = delivered[q]
    BY <2>1, BumpFacts DEF TypeOK
  <2> HIDE DEF h
  <2>3. \A r \in Rows : delivered[r] <= delivered'[r] /\ delivered'[r] \in Nat
    BY <2>1, <2>2, <1>d
  <2> QED
    BY <2>1, <2>3, <1>d DEF SentInv, SentWasDelivered
<1>3. MarkSent => SentInv'
  <2> SUFFICES ASSUME MarkSent PROVE SentInv'
    OBVIOUS
  <2>1. Head(queue) \in Rows /\ delivered' = delivered /\ fired' = fired
    BY <1>t DEF MarkSent, TypeOK, eventVars
  <2>2. CASE status[Head(queue)] = "pending"
    <3>1. status' = [status EXCEPT ![Head(queue)] = "sent"] /\ queue' = queue /\ ticker = "mark"
      BY <2>2 DEF MarkSent
    <3>2. delivered[Head(queue)] >= 1
      BY <3>1, <2>1, <1>d DEF SentInv
    <3> QED
      BY <2>1, <3>1, <3>2 DEF SentInv, SentWasDelivered, TypeOK
  <2>3. CASE status[Head(queue)] # "pending"
    BY <2>1, <2>3 DEF MarkSent, SentInv, SentWasDelivered
  <2> QED
    BY <2>2, <2>3
<1>4. EmitFired => SentInv'
  <2> SUFFICES ASSUME EmitFired PROVE SentInv'
    OBVIOUS
  <2> DEFINE h == Head(queue)
  <2>1. /\ h \in Rows /\ ticker' = "fire" /\ status' = status /\ delivered' = delivered
        /\ fired' = Bump(fired, h)
        /\ fired[h] < delivered[h]
    BY <1>t DEF EmitFired, rowVars, TypeOK, SentInv
  <2>2. fired'[h] = fired[h] + 1 /\ \A q \in Rows : q # h => fired'[q] = fired[q]
    BY <2>1, BumpFacts DEF TypeOK
  <2> HIDE DEF h
  <2>3. \A r \in Rows : fired'[r] <= delivered[r]
    BY <2>1, <2>2, <1>d DEF SentInv, SentWasDelivered
  <2> QED
    BY <2>1, <2>3 DEF SentInv, SentWasDelivered
<1>5. ExpireUpdate => SentInv'
  <2> SUFFICES ASSUME ExpireUpdate PROVE SentInv'
    OBVIOUS
  <2>1. \A r \in Rows : status'[r] = "sent" => status[r] = "sent"
    BY DEF ExpireUpdate
  <2>2. ticker' = "emit_expired" /\ delivered' = delivered /\ fired' = fired
    BY DEF ExpireUpdate, eventVars
  <2> QED
    BY <2>1, <2>2 DEF SentInv, SentWasDelivered
<1>6. \A r \in Rows : MarkDismissed(r) => SentInv'
  BY DEF MarkDismissed, tickVars, eventVars, SentInv, SentWasDelivered, TypeOK
<1>7. \A r \in Rows : \A until \in 0..MaxTime : MarkSnoozed(r, until) => SentInv'
  BY DEF MarkSnoozed, tickVars, eventVars, SentInv, SentWasDelivered, TypeOK
<1>8. \A r \in Rows : Delete(r) => SentInv'
  BY DEF Delete, tickVars, eventVars, SentInv, SentWasDelivered, TypeOK
<1>9. \A r \in Rows : InsertRow(r) => SentInv'
  BY DEF InsertRow, tickVars, eventVars, SentInv, SentWasDelivered, TypeOK
<1>10. /\ DueNow => SentInv'
       /\ DispatchFails => SentInv'
       /\ ExpireSelect => SentInv'
       /\ EmitExpired => SentInv'
       /\ DueNowFails => SentInv'
       /\ MarkSentFails => SentInv'
       /\ ExpireOverdueFails => SentInv'
       /\ EmitFails => SentInv'
       /\ Crash => SentInv'
  BY DEF DueNow, DispatchFails, ExpireSelect, EmitExpired, DueNowFails, MarkSentFails,
         ExpireOverdueFails, EmitFails, Crash, rowVars, eventVars, SentInv, SentWasDelivered
<1>11. /\ \A r \in Rows : InsertSelect(r) => SentInv'
       /\ \A r \in Rows : InsertFails(r) => SentInv'
       /\ Tick => SentInv'
       /\ UNCHANGED vars => SentInv'
  BY DEF InsertSelect, InsertFails, Tick, vars, rowVars, tickVars, eventVars, SentInv,
         SentWasDelivered
<1> QED
  BY <1>1, <1>2, <1>3, <1>4, <1>5, <1>6, <1>7, <1>8, <1>9, <1>10, <1>11, NextCases, Zenon

(* A row says "sent" and the timeline says "fired" only for a message the    *)
(* user got: MarkSent and the fired event follow a successful Dispatch of    *)
(* the row in hand, whatever users, timeouts and crashes do in between.      *)
THEOREM SentTruthful == Spec => []SentWasDelivered
<1>1. Init => SentInv
  BY DEF Init, Zero, SentInv, SentWasDelivered
<1>2. SentInv => SentWasDelivered
  BY DEF SentInv
<1> QED
  BY <1>1, <1>2, SentStep, Core, PTL DEF Spec

-----------------------------------------------------------------------------
(* Repeats. *)

(* A message uses up the allowance of the row at the head only: the other     *)
(* rows of the snapshot are other rows.  The allowance comes back with every  *)
(* renewal, and a row of which the message is out is pending again only after *)
(* one.                                                                       *)
LEMMA RepeatsStep == CoreInv /\ RepeatsInv /\ [Next]_vars => RepeatsInv'
<1> SUFFICES ASSUME TypeOK, QueueInv, InsertInv, RepeatsInv, [Next]_vars PROVE RepeatsInv'
  BY DEF CoreInv
<1>t. queue # <<>> =>
        /\ Head(queue) \in Rows /\ Head(queue) = queue[1] /\ Len(queue) \in Nat \ {0}
        /\ \A i \in 1..Len(Tail(queue)) :
              /\ i + 1 \in 1..Len(queue) /\ i + 1 # 1
              /\ Tail(queue)[i] = queue[i + 1]
              /\ queue[i + 1] # Head(queue)
  BY TailFacts DEF TypeOK, QueueInv
<1>d. \A r \in Rows : delivered[r] \in Nat /\ renewals[r] \in Nat
  BY DEF TypeOK
<1>q. \A i \in 1..Len(queue) : queue[i] \in Rows
  BY DEF TypeOK
<1>1. DueNow => RepeatsInv'
  <2> SUFFICES ASSUME DueNow PROVE RepeatsInv'
    OBVIOUS
  <2>1. /\ ticker = "idle" /\ ticker' = "fire" /\ status' = status
        /\ delivered' = delivered /\ renewals' = renewals
    BY DEF DueNow, rowVars, historyVars
  <2>2. \A i \in 1..Len(queue') : queue'[i] \in Rows /\ status[queue'[i]] = "pending"
    BY DueNowFacts
  <2> QED
    BY <2>1, <2>2 DEF RepeatsInv, RepeatsExplained
<1>2. Dispatch => RepeatsInv'
  <2> SUFFICES ASSUME Dispatch PROVE RepeatsInv'
    OBVIOUS
  <2> DEFINE h == Head(queue)
  <2>1. /\ queue # <<>> /\ ticker = "fire" /\ ticker' = "mark" /\ queue' = queue
        /\ status' = status /\ renewals' = renewals /\ delivered' = Bump(delivered, h)
    BY DEF Dispatch, Deliver, rowVars
  <2>2. h \in Rows /\ h = queue[1] /\ 1 \in 1..Len(queue)
    BY <1>t, <2>1
  <2>3. delivered[h] <= renewals[h]
    BY <2>1, <2>2 DEF RepeatsInv, Waiting
  <2>4. delivered'[h] = delivered[h] + 1 /\ \A r \in Rows : r # h => delivered'[r] = delivered[r]
    BY <2>1, <2>2, BumpFacts DEF TypeOK
  <2>5. \A i \in 1..Len(queue) : i # 1 => queue[i] # h
    BY <2>2 DEF QueueInv
  <2>6. Head(queue') = h
    BY <2>1
  <2> HIDE DEF h
  <2>7. RepeatsExplained'
    BY <2>1, <2>2, <2>3, <2>4, <1>d DEF RepeatsInv, RepeatsExplained
  <2> QED
    BY <2>1, <2>2, <2>4, <2>5, <2>6, <2>7, <1>q DEF RepeatsInv, Waiting
<1>3. DispatchTimesOut => RepeatsInv'
  <2> SUFFICES ASSUME DispatchTimesOut PROVE RepeatsInv'
    OBVIOUS
  <2> DEFINE h == Head(queue)
  <2>1. /\ queue # <<>> /\ ticker = "fire" /\ ticker' = "fire" /\ queue' = Tail(queue)
        /\ status' = status /\ renewals' = Bump(renewals, h) /\ delivered' = Bump(delivered, h)
    BY DEF DispatchTimesOut, Deliver, rowVars
  <2>2. h \in Rows /\ h = queue[1] /\ 1 \in 1..Len(queue)
    BY <1>t, <2>1
  <2>3. delivered[h] <= renewals[h]
    BY <2>1, <2>2 DEF RepeatsInv, Waiting
  <2>4. delivered'[h] = delivered[h] + 1 /\ \A r \in Rows : r # h => delivered'[r] = delivered[r]
    BY <2>1, <2>2, BumpFacts DEF TypeOK
  <2>5. renewals'[h] = renewals[h] + 1 /\ \A r \in Rows : r # h => renewals'[r] = renewals[r]
    BY <2>1, <2>2, BumpFacts DEF TypeOK
  <2>6. \A i \in 1..Len(queue') : /\ i + 1 \in 1..Len(queue)
                                  /\ queue'[i] = queue[i + 1]
                                  /\ queue[i + 1] # h
    BY <1>t, <2>1
  <2> HIDE DEF h
  <2>7. RepeatsExplained' /\ delivered'[h] <= renewals'[h]
    BY <2>1, <2>2, <2>3, <2>4, <2>5, <1>d DEF RepeatsInv, RepeatsExplained
  <2> QED
    BY <2>1, <2>2, <2>4, <2>5, <2>6, <2>7, <1>q DEF RepeatsInv, Waiting
<1>4. DispatchFails => RepeatsInv'
  <2> SUFFICES ASSUME DispatchFails PROVE RepeatsInv'
    OBVIOUS
  <2>1. /\ queue # <<>> /\ ticker = "fire" /\ ticker' = "fire" /\ queue' = Tail(queue)
        /\ status' = status /\ renewals' = renewals /\ delivered' = delivered
    BY DEF DispatchFails, rowVars, historyVars
  <2> QED
    BY <1>t, <2>1 DEF RepeatsInv, RepeatsExplained, Waiting
<1>5. MarkSent => RepeatsInv'
  <2> SUFFICES ASSUME MarkSent PROVE RepeatsInv'
    OBVIOUS
  <2>1. /\ queue # <<>> /\ ticker = "mark" /\ renewals' = renewals /\ delivered' = delivered
    BY DEF MarkSent, historyVars, TypeOK
  <2>2. CASE status[Head(queue)] = "pending"
    <3>1. /\ status' = [status EXCEPT ![Head(queue)] = "sent"]
          /\ queue' = queue /\ ticker' = "emit_fired"
      BY <2>2 DEF MarkSent
    <3>2. \A r \in Rows : status'[r] \in {"absent", "pending"} =>
             status[r] \in {"absent", "pending"} /\ r # Head(queue)
      BY <1>t, <2>1, <3>1 DEF TypeOK
    <3> QED
      BY <2>1, <3>1, <3>2 DEF RepeatsInv, RepeatsExplained, Waiting
  <2>3. CASE status[Head(queue)] # "pending"
    <3>1. status' = status /\ queue' = Tail(queue) /\ ticker' = "fire"
      BY <2>3 DEF MarkSent
    <3>2. status[Head(queue)] \notin {"absent", "pending"}
      BY <1>t, <2>1, <2>3 DEF QueueInv
    <3> QED
      BY <1>t, <2>1, <3>1, <3>2 DEF RepeatsInv, RepeatsExplained, Waiting
  <2> QED
    BY <2>2, <2>3
<1>6. MarkSentFails => RepeatsInv'
  <2> SUFFICES ASSUME MarkSentFails PROVE RepeatsInv'
    OBVIOUS
  <2> DEFINE h == Head(queue)
  <2>1. /\ queue # <<>> /\ ticker = "mark" /\ ticker' = "fire" /\ queue' = Tail(queue)
        /\ status' = status /\ renewals' = Bump(renewals, h) /\ delivered' = delivered
    BY DEF MarkSentFails, rowVars, TypeOK
  <2>2. h \in Rows
    BY <1>t, <2>1
  <2>3. renewals'[h] = renewals[h] + 1 /\ \A r \in Rows : r # h => renewals'[r] = renewals[r]
    BY <2>1, <2>2, BumpFacts DEF TypeOK
  <2>4. \A i \in 1..Len(queue') : /\ i + 1 \in 1..Len(queue) /\ i + 1 # 1
                                  /\ queue'[i] = queue[i + 1]
                                  /\ queue[i + 1] # h
    BY <1>t, <2>1
  <2>5. \A r \in Rows : r # h => (status[r] \in {"absent", "pending"}
                                     => delivered[r] <= renewals[r])
    BY DEF RepeatsInv
  <2> HIDE DEF h
  <2>6. RepeatsExplained' /\ delivered'[h] <= renewals'[h]
    BY <2>1, <2>2, <2>3, <1>d DEF RepeatsInv, RepeatsExplained
  <2> QED
    BY <2>1, <2>2, <2>3, <2>4, <2>5, <2>6, <1>q DEF RepeatsInv, Waiting
<1>7. Crash => RepeatsInv'
  <2> SUFFICES ASSUME Crash PROVE RepeatsInv'
    OBVIOUS
  <2>1. /\ ticker' = "idle" /\ queue' = <<>> /\ status' = status /\ delivered' = delivered
    BY DEF Crash, rowVars
  <2>2. CASE ticker # "mark"
    BY <2>1, <2>2 DEF Crash, RepeatsInv, RepeatsExplained, Waiting
  <2>3. CASE ticker = "mark"
    <3> DEFINE h == Head(queue)
    <3>1. h \in Rows /\ renewals' = Bump(renewals, h)
      BY <1>t, <2>3 DEF Crash, TypeOK
    <3>2. renewals'[h] = renewals[h] + 1 /\ \A r \in Rows : r # h => renewals'[r] = renewals[r]
      BY <3>1, BumpFacts DEF TypeOK
    <3>3. \A r \in Rows : r # h => (status[r] \in {"absent", "pending"}
                                       => delivered[r] <= renewals[r])
      BY DEF RepeatsInv
    <3> HIDE DEF h
    <3>4. RepeatsExplained' /\ delivered'[h] <= renewals'[h]
      BY <2>1, <3>1, <3>2, <1>d DEF RepeatsInv, RepeatsExplained
    <3> QED
      BY <2>1, <3>1, <3>2, <3>3, <3>4 DEF RepeatsInv, Waiting
  <2> QED
    BY <2>2, <2>3
<1>8. \A r \in Rows : \A until \in 0..MaxTime : MarkSnoozed(r, until) => RepeatsInv'
  <2> SUFFICES ASSUME NEW r \in Rows, NEW until \in 0..MaxTime, MarkSnoozed(r, until)
               PROVE  RepeatsInv'
    OBVIOUS
  <2>1. /\ status' = [status EXCEPT ![r] = "pending"] /\ renewals' = Bump(renewals, r)
        /\ ticker' = ticker /\ queue' = queue /\ delivered' = delivered
    BY DEF MarkSnoozed, tickVars
  <2>2. renewals'[r] = renewals[r] + 1 /\ \A q \in Rows : q # r => renewals'[q] = renewals[q]
    BY <2>1, BumpFacts DEF TypeOK
  <2>3. \A q \in Rows : q # r => status'[q] = status[q]
    BY <2>1 DEF TypeOK
  <2>4. RepeatsExplained' /\ delivered'[r] <= renewals'[r]
    BY <2>1, <2>2, <1>d DEF RepeatsInv, RepeatsExplained
  <2>5. \A q \in Rows : renewals[q] <= renewals'[q] /\ renewals'[q] \in Nat
    BY <2>2, <1>d
  <2> QED
    BY <2>1, <2>2, <2>3, <2>4, <2>5, <1>d, <1>q DEF RepeatsInv, Waiting
<1>9. \A r \in Rows : InsertRow(r) => RepeatsInv'
  <2> SUFFICES ASSUME NEW r \in Rows, InsertRow(r) PROVE RepeatsInv'
    OBVIOUS
  <2>1. /\ status' = [status EXCEPT ![r] = "pending"] /\ renewals' = renewals
        /\ ticker' = ticker /\ queue' = queue /\ delivered' = delivered
    BY DEF InsertRow, tickVars, historyVars
  <2>2. status[r] = "absent"
    BY DEF InsertRow, InsertInv
  <2>3. \A q \in Rows : status'[q] \in {"absent", "pending"} => status[q] \in {"absent", "pending"}
    BY <2>1, <2>2 DEF TypeOK
  <2> QED
    BY <2>1, <2>3 DEF RepeatsInv, RepeatsExplained, Waiting
<1>10. \A r \in Rows : MarkDismissed(r) \/ Delete(r) => RepeatsInv'
  <2> SUFFICES ASSUME NEW r \in Rows, MarkDismissed(r) \/ Delete(r) PROVE RepeatsInv'
    OBVIOUS
  <2>1. /\ \A q \in Rows : status'[q] \in {"absent", "pending"} => status[q] = status'[q]
        /\ renewals' = renewals /\ ticker' = ticker /\ queue' = queue /\ delivered' = delivered
    BY DEF MarkDismissed, Delete, tickVars, historyVars, TypeOK
  <2> QED
    BY <2>1 DEF RepeatsInv, RepeatsExplained, Waiting
<1>11. ExpireUpdate => RepeatsInv'
  <2> SUFFICES ASSUME ExpireUpdate PROVE RepeatsInv'
    OBVIOUS
  <2>1. /\ \A q \in Rows : status'[q] \in {"absent", "pending"} => status[q] = status'[q]
        /\ renewals' = renewals /\ ticker = "expire" /\ ticker' = "emit_expired"
        /\ delivered' = delivered
    BY DEF ExpireUpdate
  <2> QED
    BY <2>1 DEF RepeatsInv, RepeatsExplained, Waiting
<1>12. /\ EmitFired => RepeatsInv'
       /\ EmitFails => RepeatsInv'
  <2> SUFFICES ASSUME EmitFired \/ EmitFails PROVE RepeatsInv'
    OBVIOUS
  <2>1. /\ status' = status /\ renewals' = renewals /\ delivered' = delivered
        /\ queue # <<>> /\ queue' = Tail(queue)
        /\ ticker # "mark" /\ ticker' # "mark"
        /\ \/ ticker = "emit_fired" /\ ticker' = "fire"
           \/ ticker' = "emit_expired"
    BY DEF EmitFired, EmitFails, rowVars, historyVars, TypeOK
  <2> QED
    BY <1>t, <2>1 DEF RepeatsInv, RepeatsExplained, Waiting
<1>13. /\ ExpireSelect => RepeatsInv'
       /\ EmitExpired => RepeatsInv'
       /\ ExpireOverdueFails => RepeatsInv'
  <2> SUFFICES ASSUME ExpireSelect \/ EmitExpired \/ ExpireOverdueFails PROVE RepeatsInv'
    OBVIOUS
  <2>1. /\ status' = status /\ renewals' = renewals /\ delivered' = delivered
        /\ ticker # "mark" /\ ticker' \in {"idle", "expire", "emit_expired"}
    BY DEF ExpireSelect, EmitExpired, ExpireOverdueFails, rowVars, historyVars
  <2> QED
    BY <2>1 DEF RepeatsInv, RepeatsExplained, Waiting
<1>14. DueNowFails => RepeatsInv'
  <2> SUFFICES ASSUME DueNowFails PROVE RepeatsInv'
    OBVIOUS
  <2>1. /\ status' = status /\ renewals' = renewals /\ delivered' = delivered
        /\ ticker = "idle" /\ ticker' = "fire" /\ queue' = <<>>
    BY DEF DueNowFails, rowVars, historyVars, QueueInv
  <2> QED
    BY <2>1 DEF RepeatsInv, RepeatsExplained
<1>15. UNCHANGED <<status, ticker, queue, delivered, renewals>> => RepeatsInv'
  BY DEF RepeatsInv, RepeatsExplained, Waiting
<1>16. /\ \A r \in Rows : InsertSelect(r) \/ InsertFails(r) =>
             UNCHANGED <<status, ticker, queue, delivered, renewals>>
       /\ Tick => UNCHANGED <<status, ticker, queue, delivered, renewals>>
       /\ UNCHANGED vars => UNCHANGED <<status, ticker, queue, delivered, renewals>>
  BY DEF InsertSelect, InsertFails, Tick, vars, rowVars, tickVars, historyVars
<1> QED
  BY <1>1, <1>2, <1>3, <1>4, <1>5, <1>6, <1>7, <1>8, <1>9, <1>10, <1>11, <1>12, <1>13, <1>14,
     <1>15, <1>16, NextCases, Zenon

(* At most once, unless there is a reason: every message after the first is   *)
(* accounted for by a snooze, by a dispatch that timed out after delivering,  *)
(* by a MarkSent that failed or by a crash before it.                         *)
THEOREM RepeatsHaveReasons == Spec => []RepeatsExplained
<1>1. Init => RepeatsInv
  BY DEF Init, Zero, RepeatsInv, RepeatsExplained, Waiting
<1>2. RepeatsInv => RepeatsExplained
  BY DEF RepeatsInv
<1> QED
  BY <1>1, <1>2, RepeatsStep, Core, PTL DEF Spec

-----------------------------------------------------------------------------
(* Dismissals. *)

(* The late message is the one of the row at the head; a row that waits, or *)
(* that the next snapshot may take, has had none since it was last live.    *)
LEMMA DismissStep == CoreInv /\ DismissInv /\ [Next]_vars => DismissInv'
<1> SUFFICES ASSUME TypeOK, QueueInv, InsertInv, DismissInv, [Next]_vars PROVE DismissInv'
  BY DEF CoreInv
<1>t. queue # <<>> =>
        /\ Head(queue) \in Rows /\ Head(queue) = queue[1] /\ Len(queue) \in Nat \ {0}
        /\ \A i \in 1..Len(Tail(queue)) :
              /\ i + 1 \in 1..Len(queue) /\ i + 1 # 1
              /\ Tail(queue)[i] = queue[i + 1]
              /\ queue[i + 1] # Head(queue)
  BY TailFacts DEF TypeOK, QueueInv
<1>d. \A r \in Rows : late[r] \in Nat
  BY DEF TypeOK
<1>q. \A i \in 1..Len(queue) : queue[i] \in Rows
  BY DEF TypeOK
<1>b. ASSUME NEW h \in Rows, late[h] = 0,
             late' = IF status[h] = "dismissed" THEN Bump(late, h) ELSE late
      PROVE  /\ \A r \in Rows : r # h => late'[r] = late[r]
             /\ late'[h] <= 1
             /\ status[h] \in {"absent", "pending"} => late'[h] = 0
  <2>1. late \in [Rows -> Nat]
    BY DEF TypeOK
  <2>2. Bump(late, h)[h] = late[h] + 1 /\ \A r \in Rows : r # h => Bump(late, h)[r] = late[r]
    BY <2>1, BumpFacts
  <2> QED
    BY <1>b, <2>2
<1>1. DueNow => DismissInv'
  <2> SUFFICES ASSUME DueNow PROVE DismissInv'
    OBVIOUS
  <2>1. ticker' = "fire" /\ status' = status /\ late' = late
    BY DEF DueNow, rowVars, historyVars
  <2>2. \A i \in 1..Len(queue') : queue'[i] \in Rows /\ status[queue'[i]] = "pending"
    BY DueNowFacts
  <2> QED
    BY <2>1, <2>2 DEF DismissInv, DismissTakesEffect
<1>2. Dispatch => DismissInv'
  <2> SUFFICES ASSUME Dispatch PROVE DismissInv'
    OBVIOUS
  <2> DEFINE h == Head(queue)
  <2>1. /\ queue # <<>> /\ ticker = "fire" /\ ticker' = "mark" /\ queue' = queue
        /\ status' = status
        /\ late' = IF status[h] = "dismissed" THEN Bump(late, h) ELSE late
    BY DEF Dispatch, Deliver, rowVars
  <2>2. h \in Rows /\ h = queue[1] /\ 1 \in 1..Len(queue)
    BY <1>t, <2>1
  <2>3. late[h] = 0
    BY <2>1, <2>2 DEF DismissInv, Waiting
  <2>4. \A i \in 1..Len(queue) : i # 1 => queue[i] # h
    BY <2>2 DEF QueueInv
  <2> HIDE DEF h
  <2>5. /\ \A r \in Rows : r # h => late'[r] = late[r]
        /\ late'[h] <= 1
        /\ status[h] \in {"absent", "pending"} => late'[h] = 0
    BY <2>1, <2>2, <2>3, <1>b
  <2> QED
    BY <2>1, <2>2, <2>4, <2>5, <1>q DEF DismissInv, DismissTakesEffect, Waiting
<1>3. DispatchTimesOut => DismissInv'
  <2> SUFFICES ASSUME DispatchTimesOut PROVE DismissInv'
    OBVIOUS
  <2> DEFINE h == Head(queue)
  <2>1. /\ queue # <<>> /\ ticker = "fire" /\ ticker' = "fire" /\ queue' = Tail(queue)
        /\ status' = status
        /\ late' = IF status[h] = "dismissed" THEN Bump(late, h) ELSE late
    BY DEF DispatchTimesOut, Deliver, rowVars
  <2>2. h \in Rows /\ h = queue[1] /\ 1 \in 1..Len(queue)
    BY <1>t, <2>1
  <2>3. late[h] = 0
    BY <2>1, <2>2 DEF DismissInv, Waiting
  <2>4. \A i \in 1..Len(queue') : /\ i + 1 \in 1..Len(queue)
                                  /\ queue'[i] = queue[i + 1]
                                  /\ queue[i + 1] # h
    BY <1>t, <2>1
  <2> HIDE DEF h
  <2>5. /\ \A r \in Rows : r # h => late'[r] = late[r]
        /\ late'[h] <= 1
        /\ status[h] \in {"absent", "pending"} => late'[h] = 0
    BY <2>1, <2>2, <2>3, <1>b
  <2> QED
    BY <2>1, <2>2, <2>4, <2>5, <1>q DEF DismissInv, DismissTakesEffect, Waiting
<1>4. /\ DispatchFails => DismissInv'
      /\ MarkSentFails => DismissInv'
      /\ EmitFired => DismissInv'
  <2> SUFFICES ASSUME DispatchFails \/ MarkSentFails \/ EmitFired PROVE DismissInv'
    OBVIOUS
  <2>1. /\ queue # <<>> /\ queue' = Tail(queue) /\ status' = status /\ late' = late
        /\ ticker \in {"fire", "mark", "emit_fired"}
    BY DEF DispatchFails, MarkSentFails, EmitFired, rowVars, historyVars, TypeOK
  <2> QED
    BY <1>t, <2>1 DEF DismissInv, DismissTakesEffect, Waiting
<1>5. MarkSent => DismissInv'
  <2> SUFFICES ASSUME MarkSent PROVE DismissInv'
    OBVIOUS
  <2>1. queue # <<>> /\ ticker = "mark" /\ late' = late
    BY DEF MarkSent, historyVars, TypeOK
  <2>2. CASE status[Head(queue)] = "pending"
    <3>1. /\ status' = [status EXCEPT ![Head(queue)] = "sent"]
          /\ queue' = queue /\ ticker' = "emit_fired"
      BY <2>2 DEF MarkSent
    <3>2. \A r \in Rows : status'[r] \in {"absent", "pending"} =>
                             status[r] \in {"absent", "pending"}
      BY <1>t, <2>1, <3>1 DEF TypeOK
    <3> QED
      BY <2>1, <3>1, <3>2 DEF DismissInv, DismissTakesEffect, Waiting
  <2>3. CASE status[Head(queue)] # "pending"
    <3>1. status' = status /\ queue' = Tail(queue) /\ ticker' = "fire"
      BY <2>3 DEF MarkSent
    <3> QED
      BY <1>t, <2>1, <3>1 DEF DismissInv, DismissTakesEffect, Waiting
  <2> QED
    BY <2>2, <2>3
<1>6. EmitFails => DismissInv'
  <2> SUFFICES ASSUME EmitFails PROVE DismissInv'
    OBVIOUS
  <2>1. /\ queue # <<>> /\ queue' = Tail(queue) /\ status' = status /\ late' = late
        /\ \/ ticker = "emit_fired" /\ ticker' = "fire"
           \/ ticker' = "emit_expired"
    BY DEF EmitFails, rowVars, historyVars
  <2> QED
    BY <1>t, <2>1 DEF DismissInv, DismissTakesEffect, Waiting
<1>7. \A r \in Rows : \A until \in 0..MaxTime : MarkSnoozed(r, until) => DismissInv'
  <2> SUFFICES ASSUME NEW r \in Rows, NEW until \in 0..MaxTime, MarkSnoozed(r, until)
               PROVE  DismissInv'
    OBVIOUS
  <2>1. /\ status' = [status EXCEPT ![r] = "pending"] /\ late' = [late EXCEPT ![r] = 0]
        /\ ticker' = ticker /\ queue' = queue
    BY DEF MarkSnoozed, tickVars
  <2>2. late'[r] = 0 /\ \A q \in Rows : q # r => late'[q] = late[q] /\ status'[q] = status[q]
    BY <2>1 DEF TypeOK
  <2> QED
    BY <2>1, <2>2, <1>q DEF DismissInv, DismissTakesEffect, Waiting
<1>8. \A r \in Rows : MarkDismissed(r) \/ Delete(r) \/ InsertRow(r) => DismissInv'
  <2> SUFFICES ASSUME NEW r \in Rows, MarkDismissed(r) \/ Delete(r) \/ InsertRow(r)
               PROVE  DismissInv'
    OBVIOUS
  <2>1. /\ late' = late /\ ticker' = ticker /\ queue' = queue
        /\ \A q \in Rows : status'[q] \in {"absent", "pending"} =>
                              status[q] \in {"absent", "pending"}
    BY DEF MarkDismissed, Delete, InsertRow, InsertInv, tickVars, historyVars, TypeOK
  <2> QED
    BY <2>1 DEF DismissInv, DismissTakesEffect, Waiting
<1>9. ExpireUpdate => DismissInv'
  <2> SUFFICES ASSUME ExpireUpdate PROVE DismissInv'
    OBVIOUS
  <2>1. /\ \A q \in Rows : status'[q] \in {"absent", "pending"} => status[q] = status'[q]
        /\ late' = late /\ ticker' = "emit_expired"
    BY DEF ExpireUpdate
  <2> QED
    BY <2>1 DEF DismissInv, DismissTakesEffect, Waiting
<1>10. /\ ExpireSelect => DismissInv'
       /\ EmitExpired => DismissInv'
       /\ ExpireOverdueFails => DismissInv'
       /\ Crash => DismissInv'
  <2> SUFFICES ASSUME ExpireSelect \/ EmitExpired \/ ExpireOverdueFails \/ Crash
               PROVE  DismissInv'
    OBVIOUS
  <2>1. status' = status /\ late' = late /\ ticker' \in {"idle", "expire", "emit_expired"}
    BY DEF ExpireSelect, EmitExpired, ExpireOverdueFails, Crash, rowVars, historyVars
  <2> QED
    BY <2>1 DEF DismissInv, DismissTakesEffect, Waiting
<1>11. DueNowFails => DismissInv'
  <2> SUFFICES ASSUME DueNowFails PROVE DismissInv'
    OBVIOUS
  <2>1. status' = status /\ late' = late /\ queue' = <<>>
    BY DEF DueNowFails, rowVars, historyVars, QueueInv
  <2> QED
    BY <2>1 DEF DismissInv, DismissTakesEffect
<1>12. UNCHANGED <<status, ticker, queue, late>> => DismissInv'
  BY DEF DismissInv, DismissTakesEffect, Waiting
<1>13. /\ \A r \in Rows : InsertSelect(r) \/ InsertFails(r) =>
             UNCHANGED <<status, ticker, queue, late>>
       /\ Tick => UNCHANGED <<status, ticker, queue, late>>
       /\ UNCHANGED vars => UNCHANGED <<status, ticker, queue, late>>
  BY DEF InsertSelect, InsertFails, Tick, vars, rowVars, tickVars, historyVars
<1> QED
  BY <1>1, <1>2, <1>3, <1>4, <1>5, <1>6, <1>7, <1>8, <1>9, <1>10, <1>11, <1>12, <1>13,
     NextCases, Zenon

(* After a dismissal the user gets at most the one message of the snapshot   *)
(* the ticker had already taken, however often the rows change under it.     *)
THEOREM DismissHolds == Spec => []DismissTakesEffect
<1>1. Init => DismissInv
  BY DEF Init, Zero, DismissInv, DismissTakesEffect, Waiting
<1>2. DismissInv => DismissTakesEffect
  BY DEF DismissInv
<1> QED
  BY <1>1, <1>2, DismissStep, Core, PTL DEF Spec

-----------------------------------------------------------------------------
(* Expirations. *)

(* ExpireOverdue's UPDATE pays for as many events as entries it leaves in the *)
(* snapshot, and every event after that takes one entry off.                  *)
LEMMA ExpiredStep == CoreInv /\ ExpiredCountHonest /\ [Next]_vars => ExpiredCountHonest'
<1> SUFFICES ASSUME TypeOK, QueueInv, ExpiredCountHonest, [Next]_vars
             PROVE  ExpiredCountHonest'
  BY DEF CoreInv
<1>d. expiredEvents \in Nat /\ expirations \in Nat /\ Len(queue) \in Nat
  BY LenProperties DEF TypeOK
<1>0. expiredEvents <= expirations
  BY <1>d DEF ExpiredCountHonest
<1>1. ExpireUpdate => ExpiredCountHonest'
  <2> SUFFICES ASSUME ExpireUpdate PROVE ExpiredCountHonest'
    OBVIOUS
  <2> DEFINE c == Cardinality(StillPending)
  <2>1. c \in 0..Len(queue) /\ Cardinality({queue[i] : i \in StillPending}) = c
    BY StillPendingFacts
  <2>2. /\ expirations' = expirations + c /\ expiredEvents' = expiredEvents
        /\ ticker' = "emit_expired" /\ queue' = SubSeq(queue, 1, c)
    BY <2>1 DEF ExpireUpdate, eventVars
  <2> HIDE DEF c
  <2>3. Len(queue') = c
    <3>1. \A i \in 1..c : queue[i] \in Rows
      BY <2>1 DEF TypeOK
    <3> QED
      BY <2>1, <2>2, <3>1, <1>d, SubSeqProperties
  <2> QED
    BY <2>1, <2>2, <2>3, <1>0, <1>d DEF ExpiredCountHonest
<1>2. EmitExpired => ExpiredCountHonest'
  <2> SUFFICES ASSUME EmitExpired PROVE ExpiredCountHonest'
    OBVIOUS
  <2>1. ticker = "emit_expired" /\ expirations' = expirations
    BY DEF EmitExpired, historyVars
  <2>2. CASE queue = <<>>
    <3>1. expiredEvents' = expiredEvents /\ ticker' = "idle"
      BY <2>2, Zenon DEF EmitExpired
    <3> QED
      BY <2>1, <3>1, <1>0, <1>d DEF ExpiredCountHonest
  <2>3. CASE queue # <<>>
    <3>1. expiredEvents' = expiredEvents + 1 /\ queue' = Tail(queue) /\ ticker' = ticker
      BY <2>3, Zenon DEF EmitExpired
    <3>2. Len(queue') = Len(queue) - 1
      BY <2>3, <3>1, TailFacts DEF TypeOK
    <3>3. expiredEvents' = expiredEvents + 1 /\ ticker' = "emit_expired"
      BY <2>1, <3>1
    <3>4. expiredEvents + Len(queue) <= expirations
      BY <2>1 DEF ExpiredCountHonest
    <3>5. expiredEvents' + Len(queue') <= expirations'
      BY <2>1, <3>2, <3>3, <3>4, <1>d
    <3> QED
      BY <3>3, <3>5 DEF ExpiredCountHonest
  <2> QED
    BY <2>2, <2>3
<1>3. EmitFails => ExpiredCountHonest'
  <2> SUFFICES ASSUME EmitFails PROVE ExpiredCountHonest'
    OBVIOUS
  <2>1. /\ expirations' = expirations /\ expiredEvents' = expiredEvents
        /\ queue # <<>> /\ queue' = Tail(queue) /\ (ticker' = "emit_expired" => ticker = ticker')
    BY DEF EmitFails, eventVars, historyVars
  <2>2. Len(queue') = Len(queue) - 1
    BY <2>1, TailFacts DEF TypeOK
  <2> QED
    BY <2>1, <2>2, <1>0, <1>d DEF ExpiredCountHonest
<1>4. (/\ UNCHANGED <<expiredEvents, expirations>>
       /\ ticker' # "emit_expired" \/ UNCHANGED <<ticker, queue>>) => ExpiredCountHonest'
  BY <1>0, <1>d DEF ExpiredCountHonest
<1>5. /\ DueNow => ExpiredCountHonest'
      /\ Dispatch => ExpiredCountHonest'
      /\ DispatchFails => ExpiredCountHonest'
      /\ DispatchTimesOut => ExpiredCountHonest'
      /\ MarkSent => ExpiredCountHonest'
      /\ EmitFired => ExpiredCountHonest'
      /\ ExpireSelect => ExpiredCountHonest'
      /\ DueNowFails => ExpiredCountHonest'
      /\ MarkSentFails => ExpiredCountHonest'
      /\ ExpireOverdueFails => ExpiredCountHonest'
      /\ Crash => ExpiredCountHonest'
  BY <1>4 DEF DueNow, Dispatch, DispatchFails, DispatchTimesOut, MarkSent, EmitFired,
              ExpireSelect, DueNowFails, MarkSentFails, ExpireOverdueFails, Crash, eventVars,
              historyVars
<1>6. /\ \A r \in Rows : MarkDismissed(r) => ExpiredCountHonest'
      /\ \A r \in Rows : \A until \in 0..MaxTime : MarkSnoozed(r, until) => ExpiredCountHonest'
      /\ \A r \in Rows : Delete(r) => ExpiredCountHonest'
      /\ \A r \in Rows : InsertSelect(r) => ExpiredCountHonest'
      /\ \A r \in Rows : InsertRow(r) => ExpiredCountHonest'
      /\ \A r \in Rows : InsertFails(r) => ExpiredCountHonest'
      /\ Tick => ExpiredCountHonest'
      /\ UNCHANGED vars => ExpiredCountHonest'
  BY <1>4 DEF MarkDismissed, MarkSnoozed, Delete, InsertSelect, InsertRow, InsertFails, Tick,
              vars, tickVars, eventVars, historyVars
<1> QED
  BY <1>1, <1>2, <1>3, <1>5, <1>6, NextCases, Zenon

(* store.go's promise for ExpireOverdue: the number of commitment.expired    *)
(* events, out or about to go out, never exceeds the number of rows that     *)
(* expired, although the list it returns is cut by a count taken later.      *)
THEOREM ExpiredCountsHonest == Spec => []ExpiredCountHonest
<1>1. Init => ExpiredCountHonest
  BY DEF Init, ExpiredCountHonest
<1> QED
  BY <1>1, ExpiredStep, Core, PTL DEF Spec
=============================================================================
