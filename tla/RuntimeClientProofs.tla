------------------------- MODULE RuntimeClientProofs -------------------------
(***************************************************************************)
(* Machine-checked proofs about RuntimeClient, for any number of requests, *)
(* any channel capacity and any restart budget.                            *)
(***************************************************************************)
EXTENDS RuntimeClient, SequenceTheorems, TLAPS

-----------------------------------------------------------------------------
(* Lemmas on the queues: what Append and Tail do to Contains and Distinct. *)

(* No request occurs twice in a queue (Shutdown may). *)
Distinct(seq) ==
    \A i, j \in DOMAIN seq : seq[i] = seq[j] /\ seq[i] \in Requests => i = j

(* Appending adds exactly the new element. *)
LEMMA ContainsAppend ==
    ASSUME NEW S, NEW s \in Seq(S), NEW e \in S, NEW x
    PROVE  Contains(Append(s, e), x) <=> Contains(s, x) \/ x = e
<1>1. /\ Append(s, e) \in Seq(S)
      /\ Len(Append(s, e)) = Len(s) + 1
      /\ \A i \in 1..Len(s) : Append(s, e)[i] = s[i]
      /\ Append(s, e)[Len(s) + 1] = e
  BY AppendProperties
<1>2. DOMAIN s = 1..Len(s) /\ DOMAIN Append(s, e) = 1..(Len(s) + 1) /\ Len(s) \in Nat
  BY <1>1, LenProperties
<1>3. QED
  BY <1>1, <1>2 DEF Contains

(* Tail removes the first occurrence of the head and nothing else. *)
LEMMA ContainsTail ==
    ASSUME NEW S, NEW s \in Seq(S), s # <<>>, NEW x
    PROVE  Contains(s, x) <=> x = Head(s) \/ Contains(Tail(s), x)
<1>1. /\ Tail(s) \in Seq(S)
      /\ Len(Tail(s)) = Len(s) - 1
      /\ \A i \in 1..Len(Tail(s)) : Tail(s)[i] = s[i + 1]
  BY HeadTailProperties
<1>2. Len(s) \in Nat \ {0} /\ DOMAIN s = 1..Len(s) /\ DOMAIN Tail(s) = 1..(Len(s) - 1)
  BY <1>1, LenProperties, EmptySeq
<1>3. Head(s) = s[1]
  BY <1>2
<1>4. ASSUME Contains(s, x) PROVE x = Head(s) \/ Contains(Tail(s), x)
  <2>1. PICK i \in 1..Len(s) : s[i] = x
    BY <1>2, <1>4 DEF Contains
  <2>2. CASE i = 1
    BY <2>1, <2>2, <1>3
  <2>3. CASE i # 1
    <3>1. i - 1 \in 1..(Len(s) - 1) /\ Tail(s)[i - 1] = s[(i - 1) + 1] /\ (i - 1) + 1 = i
      BY <2>1, <2>3, <1>1, <1>2
    <3>2. QED
      BY <3>1, <2>1, <1>2 DEF Contains
  <2>4. QED
    BY <2>2, <2>3
<1>5. ASSUME x = Head(s) \/ Contains(Tail(s), x) PROVE Contains(s, x)
  <2>1. CASE x = Head(s)
    BY <2>1, <1>2, <1>3 DEF Contains
  <2>2. CASE Contains(Tail(s), x)
    <3>1. PICK i \in 1..(Len(s) - 1) : Tail(s)[i] = x
      BY <2>2, <1>2 DEF Contains
    <3>2. s[i + 1] = x /\ i + 1 \in 1..Len(s)
      BY <3>1, <1>1, <1>2
    <3>3. QED
      BY <3>2, <1>2 DEF Contains
  <2>3. QED
    BY <1>5, <2>1, <2>2
<1>6. QED
  BY <1>4, <1>5

(* A queue of distinct requests stays one when a new request is appended. *)
LEMMA DistinctAppend ==
    ASSUME NEW S, NEW s \in Seq(S), NEW e \in S, Distinct(s),
           e \notin Requests \/ ~Contains(s, e)
    PROVE  Distinct(Append(s, e))
<1>1. /\ Append(s, e) \in Seq(S)
      /\ Len(Append(s, e)) = Len(s) + 1
      /\ \A i \in 1..Len(s) : Append(s, e)[i] = s[i]
      /\ Append(s, e)[Len(s) + 1] = e
  BY AppendProperties
<1>2. DOMAIN s = 1..Len(s) /\ DOMAIN Append(s, e) = 1..(Len(s) + 1) /\ Len(s) \in Nat
  BY <1>1, LenProperties
<1>3. QED
  BY <1>1, <1>2 DEF Contains, Distinct

(* Removing the head keeps the rest distinct and free of the head. *)
LEMMA DistinctTail ==
    ASSUME NEW S, NEW s \in Seq(S), s # <<>>, Distinct(s)
    PROVE  /\ Distinct(Tail(s))
           /\ Head(s) \in Requests => ~Contains(Tail(s), Head(s))
<1>1. /\ Tail(s) \in Seq(S)
      /\ Len(Tail(s)) = Len(s) - 1
      /\ \A i \in 1..Len(Tail(s)) : Tail(s)[i] = s[i + 1]
  BY HeadTailProperties
<1>2. Len(s) \in Nat \ {0} /\ DOMAIN s = 1..Len(s) /\ DOMAIN Tail(s) = 1..(Len(s) - 1)
  BY <1>1, LenProperties, EmptySeq
<1>3. Head(s) = s[1]
  BY <1>2
<1>4. \A i \in DOMAIN Tail(s) : i + 1 \in DOMAIN s /\ i + 1 # 1 /\ Tail(s)[i] = s[i + 1]
  BY <1>1, <1>2
<1>5. Distinct(Tail(s))
  <2>1. SUFFICES ASSUME NEW i \in DOMAIN Tail(s), NEW j \in DOMAIN Tail(s),
                        Tail(s)[i] = Tail(s)[j], Tail(s)[i] \in Requests
                 PROVE  i = j
    BY DEF Distinct
  <2>2. i + 1 = j + 1
    BY <2>1, <1>4 DEF Distinct
  <2>3. QED
    BY <2>2, <1>2
<1>6. ASSUME Head(s) \in Requests PROVE ~Contains(Tail(s), Head(s))
  BY <1>2, <1>3, <1>4, <1>6 DEF Contains, Distinct
<1>7. QED
  BY <1>5, <1>6

(* The empty queue. *)
LEMMA EmptyQueue ==
    /\ \A x : ~Contains(<<>>, x)
    /\ Distinct(<<>>)
<1>1. DOMAIN <<>> = {}
  OBVIOUS
<1>2. QED
  BY <1>1 DEF Contains, Distinct

-----------------------------------------------------------------------------
(* Types, and how far the supervisor has come. *)

(* Where the supervisor is determines what is left of the child, how many     *)
(* attempts are used and whether the reader may still be sending an event.    *)
Structure ==
    /\ sup \in {"wait", "drain", "count", "killed", "closing"} =>
         respawns = attempts /\ attempts < MaxRestartAttempts
    /\ sup = "backoff" => respawns = attempts - 1 /\ attempts < MaxRestartAttempts
    /\ sup # "wait" => child = "exited"
    /\ sup \in {"count", "backoff"} => writer = "exited" /\ reader = "exited"
    /\ state = "dead" => /\ sup = "done"
                         /\ attempts = MaxRestartAttempts
                         /\ respawns = attempts - 1
                         /\ writer = "exited"
                         /\ reader = "exited"
    /\ reader = "exited" => hold = {}

TypeInv == TypeOK /\ Structure

(* Next is the disjunction of the actions of all actors. *)
LEMMA NextCases ==
    ASSUME [Next]_vars
    PROVE  \/ \E r \in Requests :
                 \/ Admit(r) \/ register(r) \/ send(r) \/ SendFails(r) \/ Return(r)
                 \/ GiveUp(r) \/ AbandonInbound(r) \/ ChildRejects(r)
                 \/ ChildAnswersPing(r) \/ ChildSpawnsTask(r) \/ TaskStreams(r)
                 \/ TaskResponds(r)
           \/ runWriter \/ WriterStops \/ deliverTerminal \/ deliverNilUUID \/ deliverEvent
           \/ DeliverEventSend \/ ReaderTooLong \/ ReaderEOF \/ ChildShutsDown
           \/ ChildExits \/ superviseExit \/ superviseKill \/ superviseFailClosed
           \/ superviseClosed \/ superviseFailCrashed \/ superviseCount
           \/ superviseBackoffStop \/ superviseRespawn \/ superviseRespawnFails
           \/ CloseSends \/ CloseStops
           \/ UNCHANGED vars
  BY DEF Next, Caller, Writer, Reader, ChildLoop, ChildTask, supervise, Close

(* The initial state. *)
LEMMA TypeInit == Init => TypeInv
<1> SUFFICES ASSUME Init PROVE TypeInv
  OBVIOUS
<1>1. Structure /\ attempts \in 0..MaxRestartAttempts /\ respawns \in 0..(MaxRestartAttempts - 1)
  BY ConstantsAssumption DEF Init, Structure
<1>2. outbound \in Seq(Messages) /\ inbox \in Seq(Messages) /\ stdout \in Seq(Lines)
  BY EmptySeq DEF Init
<1>3. runs \in [Requests -> Nat]
  BY DEF Init
<1>4. QED
  BY <1>1, <1>2, <1>3 DEF Init, TypeInv, TypeOK

(* Every step keeps the types and the structure. *)
LEMMA TypeStep == TypeInv /\ [Next]_vars => TypeInv'
<1> SUFFICES ASSUME TypeInv, [Next]_vars PROVE TypeInv'
  OBVIOUS
<1> USE ConstantsAssumption DEF TypeInv, TypeOK, Structure
<1>1. ASSUME NEW r \in Requests, Admit(r) PROVE TypeInv'
  BY <1>1 DEF Admit, clientVars, queueVars, childVars
<1>2. ASSUME NEW r \in Requests, register(r) PROVE TypeInv'
  BY <1>2 DEF register, clientVars, queueVars, childVars
<1>3. ASSUME NEW r \in Requests, send(r) PROVE TypeInv'
  BY <1>3 DEF send, Messages, clientVars, queueVars, childVars
<1>4. ASSUME NEW r \in Requests, SendFails(r) PROVE TypeInv'
  BY <1>4 DEF SendFails, clientVars, queueVars, childVars
<1>5. ASSUME NEW r \in Requests, Return(r) PROVE TypeInv'
  BY <1>5 DEF Return, clientVars, queueVars, childVars
<1>6. ASSUME NEW r \in Requests, GiveUp(r) PROVE TypeInv'
  BY <1>6 DEF GiveUp, clientVars, queueVars, childVars
<1>7. ASSUME NEW r \in Requests, AbandonInbound(r) PROVE TypeInv'
  BY <1>7 DEF AbandonInbound, clientVars, queueVars, childVars
<1>8. ASSUME NEW r \in Requests, ChildRejects(r) PROVE TypeInv'
  BY <1>8 DEF ChildRejects, ChildAtLine, Line, Lines, clientVars, queueVars, childVars
<1>9. ASSUME NEW r \in Requests, ChildAnswersPing(r) PROVE TypeInv'
  BY <1>9 DEF ChildAnswersPing, ChildAtLine, Line, Lines, clientVars, queueVars, childVars
<1>10. ASSUME NEW r \in Requests, ChildSpawnsTask(r) PROVE TypeInv'
  BY <1>10 DEF ChildSpawnsTask, ChildAtLine, Line, Lines, clientVars, queueVars, childVars
<1>11. ASSUME NEW r \in Requests, TaskStreams(r) PROVE TypeInv'
  BY <1>11 DEF TaskStreams, Line, Lines, clientVars, queueVars, childVars
<1>12. ASSUME NEW r \in Requests, TaskResponds(r) PROVE TypeInv'
  BY <1>12 DEF TaskResponds, Line, Lines, clientVars, queueVars, childVars
<1>13. CASE runWriter
  <2>1. Head(outbound) \in Messages /\ Tail(outbound) \in Seq(Messages)
    BY <1>13, HeadTailProperties DEF runWriter
  <2>2. Append(inbox, Head(outbound)) \in Seq(Messages)
    BY <2>1, AppendProperties
  <2>3. QED
    BY <1>13, <2>1, <2>2 DEF runWriter, clientVars, queueVars, childVars
<1>14. CASE WriterStops
  BY <1>14 DEF WriterStops, clientVars, queueVars, childVars
<1>15. CASE deliverTerminal
  BY <1>15 DEF deliverTerminal, ReaderAtLine, Lines, clientVars, queueVars, childVars
<1>16. CASE deliverNilUUID
  BY <1>16 DEF deliverNilUUID, ReaderAtLine, Lines, failAllPending, clientVars, queueVars, childVars
<1>17. CASE deliverEvent
  <2>1. Head(stdout) \in Lines /\ Tail(stdout) \in Seq(Lines)
    BY <1>17, HeadTailProperties DEF deliverEvent, ReaderAtLine
  <2>2. Head(stdout).id \in ExecuteCalls
    BY <1>17, <2>1 DEF deliverEvent, Lines
  <2>3. QED
    BY <1>17, <2>1, <2>2 DEF deliverEvent, ReaderAtLine, clientVars, queueVars, childVars
<1>18. CASE DeliverEventSend
  BY <1>18 DEF DeliverEventSend, clientVars, queueVars, childVars
<1>19. CASE ReaderTooLong
  BY <1>19 DEF ReaderTooLong, ReaderAtLine, Lines, clientVars, queueVars, childVars
<1>20. CASE ReaderEOF
  BY <1>20 DEF ReaderEOF, clientVars, queueVars, childVars
<1>21. CASE ChildShutsDown
  BY <1>21 DEF ChildShutsDown, ChildAtLine, clientVars, queueVars, childVars
<1>22. CASE ChildExits
  BY <1>22 DEF ChildExits, ProcessEnds, clientVars, queueVars, childVars
<1>23. CASE superviseExit
  BY <1>23 DEF superviseExit, clientVars, queueVars, childVars
<1>24. CASE superviseKill
  BY <1>24 DEF superviseKill, ProcessEnds, clientVars, queueVars, childVars
<1>25. CASE superviseFailClosed
  BY <1>25 DEF superviseFailClosed, failAllPending, clientVars, queueVars, childVars
<1>26. CASE superviseClosed
  BY <1>26 DEF superviseClosed, clientVars, queueVars, childVars
<1>27. CASE superviseFailCrashed
  BY <1>27 DEF superviseFailCrashed, failAllPending, clientVars, queueVars, childVars
<1>28. CASE superviseCount
  BY <1>28 DEF superviseCount, clientVars, queueVars, childVars
<1>29. CASE superviseBackoffStop
  BY <1>29 DEF superviseBackoffStop, clientVars, queueVars, childVars
<1>30. CASE superviseRespawn
  BY <1>30 DEF superviseRespawn, clientVars, queueVars, childVars
<1>31. CASE superviseRespawnFails
  BY <1>31 DEF superviseRespawnFails, clientVars, queueVars, childVars
<1>32. CASE CloseSends
  <2>1. Append(outbound, Shutdown) \in Seq(Messages)
    BY AppendProperties DEF Messages
  <2>2. outbound' \in Seq(Messages)
    BY <1>32, <2>1 DEF CloseSends
  <2>3. QED
    BY <1>32, <2>2 DEF CloseSends, clientVars, queueVars, childVars
<1>33. CASE CloseStops
  BY <1>33 DEF CloseStops, clientVars, queueVars, childVars
<1>34. CASE UNCHANGED vars
  BY <1>34 DEF vars, clientVars, queueVars, childVars
<1>35. QED
  BY <1>1, <1>2, <1>3, <1>4, <1>5, <1>6, <1>7, <1>8, <1>9, <1>10, <1>11, <1>12, <1>13, <1>14, <1>15, <1>16, <1>17, <1>18, <1>19, <1>20, <1>21, <1>22, <1>23, <1>24, <1>25, <1>26, <1>27, <1>28, <1>29, <1>30, <1>31, <1>32, <1>33, <1>34, NextCases

-----------------------------------------------------------------------------
(* Who may still settle or run a request. *)

(* Only unsettled requests of callers past register are in the pending map. *)
Settlement ==
    \A r \in Requests :
        /\ r \in pending => /\ result[r] = "none"
                            /\ call[r] \in {"registered", "waiting", "abandoned"}
        /\ call[r] \in {"idle", "admitted", "refused"} => result[r] = "none"

(* A request's message exists at most once: unsent, in the outbound channel,  *)
(* in the child's stdin, or used up by the one child that started on it.      *)
Tokens ==
    /\ Distinct(outbound)
    /\ Distinct(inbox)
    /\ \A r \in Requests :
        /\ call[r] \in {"idle", "admitted", "refused", "registered"} =>
             ~Contains(outbound, r) /\ ~Contains(inbox, r) /\ runs[r] = 0
        /\ Contains(outbound, r) => ~Contains(inbox, r) /\ runs[r] = 0
        /\ Contains(inbox, r) => runs[r] = 0
        /\ runs[r] \in {0, 1}
        /\ task[r] # "none" => runs[r] = 1
        /\ Contains(stdout, Line("terminal", r)) => runs[r] = 1
        /\ result[r] = "response" => runs[r] = 1

RequestInv == TypeInv /\ Settlement /\ Tokens

(* The initial state. *)
LEMMA RequestInit == Init => RequestInv
  BY TypeInit, EmptyQueue DEF Init, RequestInv, Settlement, Tokens

(* Every step keeps the pending map honest. *)
LEMMA SettlementStep == RequestInv /\ [Next]_vars => Settlement'
<1> SUFFICES ASSUME RequestInv, [Next]_vars PROVE Settlement'
  OBVIOUS
<1> USE DEF RequestInv, TypeInv, TypeOK, Settlement
<1>1. ASSUME NEW r \in Requests, Admit(r) PROVE Settlement'
  BY <1>1 DEF Admit, clientVars, queueVars, childVars
<1>2. ASSUME NEW r \in Requests, register(r) PROVE Settlement'
  BY <1>2 DEF register, clientVars, queueVars, childVars
<1>3. ASSUME NEW r \in Requests, send(r) PROVE Settlement'
  BY <1>3 DEF send, clientVars, queueVars, childVars
<1>4. ASSUME NEW r \in Requests, SendFails(r) PROVE Settlement'
  BY <1>4 DEF SendFails, clientVars, queueVars, childVars
<1>5. ASSUME NEW r \in Requests, Return(r) PROVE Settlement'
  BY <1>5 DEF Return, clientVars, queueVars, childVars
<1>6. ASSUME NEW r \in Requests, GiveUp(r) PROVE Settlement'
  BY <1>6 DEF GiveUp, clientVars, queueVars, childVars
<1>7. ASSUME NEW r \in Requests, AbandonInbound(r) PROVE Settlement'
  BY <1>7 DEF AbandonInbound, clientVars, queueVars, childVars
<1>8. ASSUME NEW r \in Requests, ChildRejects(r) PROVE Settlement'
  BY <1>8 DEF ChildRejects, ChildAtLine, clientVars, queueVars, childVars
<1>9. ASSUME NEW r \in Requests, ChildAnswersPing(r) PROVE Settlement'
  BY <1>9 DEF ChildAnswersPing, ChildAtLine, clientVars, queueVars, childVars
<1>10. ASSUME NEW r \in Requests, ChildSpawnsTask(r) PROVE Settlement'
  BY <1>10 DEF ChildSpawnsTask, ChildAtLine, clientVars, queueVars, childVars
<1>11. ASSUME NEW r \in Requests, TaskStreams(r) PROVE Settlement'
  BY <1>11 DEF TaskStreams, clientVars, queueVars, childVars
<1>12. ASSUME NEW r \in Requests, TaskResponds(r) PROVE Settlement'
  BY <1>12 DEF TaskResponds, clientVars, queueVars, childVars
<1>13. CASE runWriter
  BY <1>13 DEF runWriter, clientVars, queueVars, childVars
<1>14. CASE WriterStops
  BY <1>14 DEF WriterStops, clientVars, queueVars, childVars
<1>15. CASE deliverTerminal
  BY <1>15 DEF deliverTerminal, ReaderAtLine, clientVars, queueVars, childVars
<1>16. CASE deliverNilUUID
  BY <1>16 DEF deliverNilUUID, ReaderAtLine, failAllPending, clientVars, queueVars, childVars
<1>17. CASE deliverEvent
  BY <1>17 DEF deliverEvent, ReaderAtLine, clientVars, queueVars, childVars
<1>18. CASE DeliverEventSend
  BY <1>18 DEF DeliverEventSend, clientVars, queueVars, childVars
<1>19. CASE ReaderTooLong
  BY <1>19 DEF ReaderTooLong, ReaderAtLine, clientVars, queueVars, childVars
<1>20. CASE ReaderEOF
  BY <1>20 DEF ReaderEOF, clientVars, queueVars, childVars
<1>21. CASE ChildShutsDown
  BY <1>21 DEF ChildShutsDown, ChildAtLine, clientVars, queueVars, childVars
<1>22. CASE ChildExits
  BY <1>22 DEF ChildExits, ProcessEnds, clientVars, queueVars, childVars
<1>23. CASE superviseExit
  BY <1>23 DEF superviseExit, clientVars, queueVars, childVars
<1>24. CASE superviseKill
  BY <1>24 DEF superviseKill, ProcessEnds, clientVars, queueVars, childVars
<1>25. CASE superviseFailClosed
  BY <1>25 DEF superviseFailClosed, failAllPending, clientVars, queueVars, childVars
<1>26. CASE superviseClosed
  BY <1>26 DEF superviseClosed, clientVars, queueVars, childVars
<1>27. CASE superviseFailCrashed
  BY <1>27 DEF superviseFailCrashed, failAllPending, clientVars, queueVars, childVars
<1>28. CASE superviseCount
  BY <1>28 DEF superviseCount, clientVars, queueVars, childVars
<1>29. CASE superviseBackoffStop
  BY <1>29 DEF superviseBackoffStop, clientVars, queueVars, childVars
<1>30. CASE superviseRespawn
  BY <1>30 DEF superviseRespawn, clientVars, queueVars, childVars
<1>31. CASE superviseRespawnFails
  BY <1>31 DEF superviseRespawnFails, clientVars, queueVars, childVars
<1>32. CASE CloseSends
  BY <1>32 DEF CloseSends, clientVars, queueVars, childVars
<1>33. CASE CloseStops
  BY <1>33 DEF CloseStops, clientVars, queueVars, childVars
<1>34. CASE UNCHANGED vars
  BY <1>34 DEF vars, clientVars, queueVars, childVars
<1>35. QED
  BY <1>1, <1>2, <1>3, <1>4, <1>5, <1>6, <1>7, <1>8, <1>9, <1>10, <1>11, <1>12, <1>13, <1>14, <1>15, <1>16, <1>17, <1>18, <1>19, <1>20, <1>21, <1>22, <1>23, <1>24, <1>25, <1>26, <1>27, <1>28, <1>29, <1>30, <1>31, <1>32, <1>33, <1>34, NextCases

-----------------------------------------------------------------------------
(* What a step does to the queues. *)

(* send and CloseSends put one message into the outbound channel. *)
LEMMA Enqueues ==
    ASSUME TypeOK, NEW m \in Messages, outbound' = Append(outbound, m)
    PROVE  /\ \A x : Contains(outbound', x) <=> Contains(outbound, x) \/ x = m
           /\ Distinct(outbound) /\ (m \notin Requests \/ ~Contains(outbound, m))
                => Distinct(outbound')
  BY ContainsAppend, DistinctAppend DEF TypeOK

(* The writer moves the first message to the child, or loses it. *)
LEMMA WriterTakes ==
    ASSUME TypeOK, runWriter
    PROVE  /\ Head(outbound) \in Messages
           /\ \A x : Contains(outbound, x) <=> x = Head(outbound) \/ Contains(outbound', x)
           /\ Distinct(outbound) =>
                /\ Distinct(outbound')
                /\ Head(outbound) \in Requests => ~Contains(outbound', Head(outbound))
           /\ child # "exited" =>
                \A x : Contains(inbox', x) <=> Contains(inbox, x) \/ x = Head(outbound)
           /\ (/\ child # "exited"
               /\ Distinct(inbox)
               /\ Head(outbound) \notin Requests \/ ~Contains(inbox, Head(outbound)))
                => Distinct(inbox')
<1> DEFINE m == Head(outbound)
<1>1. /\ outbound \in Seq(Messages) /\ outbound # <<>> /\ outbound' = Tail(outbound)
      /\ inbox \in Seq(Messages)
      /\ child # "exited" => inbox' = Append(inbox, m)
  BY DEF runWriter, TypeOK
<1>2. m \in Messages
  BY <1>1, HeadTailProperties
<1>3. \A x : Contains(outbound, x) <=> x = m \/ Contains(outbound', x)
  BY <1>1, ContainsTail
<1>4. Distinct(outbound) =>
        Distinct(outbound') /\ (m \in Requests => ~Contains(outbound', m))
  BY <1>1, DistinctTail
<1> HIDE DEF m
<1>5. ASSUME child # "exited"
      PROVE  \A x : Contains(inbox', x) <=> Contains(inbox, x) \/ x = m
  <2>1. inbox' = Append(inbox, m)
    BY <1>1, <1>5
  <2>2. QED
    BY <2>1, <1>1, <1>2, ContainsAppend
<1>6. child # "exited" /\ Distinct(inbox) /\ (m \notin Requests \/ ~Contains(inbox, m))
        => Distinct(inbox')
  BY <1>1, <1>2, DistinctAppend
<1>7. QED
  BY <1>2, <1>3, <1>4, <1>5, <1>6 DEF m

(* The child's main loop consumes one line of its stdin. *)
LEMMA ChildTakes ==
    ASSUME TypeOK, NEW m, ChildAtLine(m)
    PROVE  /\ \A x : Contains(inbox, x) <=> x = m \/ Contains(inbox', x)
           /\ Distinct(inbox) => /\ Distinct(inbox')
                                 /\ m \in Requests => ~Contains(inbox', m)
  BY ContainsTail, DistinctTail DEF TypeOK, ChildAtLine

(* The child writes one line to its stdout. *)
LEMMA ChildWrites ==
    ASSUME TypeOK, NEW line \in Lines, stdout' = Append(stdout, line)
    PROVE  \A x : Contains(stdout', x) <=> Contains(stdout, x) \/ x = line
  BY ContainsAppend DEF TypeOK

(* The reader consumes one line of the child's stdout. *)
LEMMA ReaderTakes ==
    ASSUME TypeOK, ReaderAtLine, stdout' = Tail(stdout)
    PROVE  /\ Head(stdout) \in Lines
           /\ Head(stdout).id \in Requests
           /\ Head(stdout) = Line(Head(stdout).kind, Head(stdout).id)
           /\ \A x : Contains(stdout, x) <=> x = Head(stdout) \/ Contains(stdout', x)
<1>1. Head(stdout) \in Lines
  BY HeadTailProperties DEF TypeOK, ReaderAtLine
<1>2. \A x : Contains(stdout, x) <=> x = Head(stdout) \/ Contains(stdout', x)
  BY ContainsTail DEF TypeOK, ReaderAtLine
<1>3. Head(stdout).id \in Requests /\ Head(stdout) = Line(Head(stdout).kind, Head(stdout).id)
  BY <1>1 DEF Lines, Line, Requests
<1>4. QED
  BY <1>1, <1>2, <1>3

-----------------------------------------------------------------------------

(* Every step keeps the message of a request unique. *)
LEMMA TokensStep == RequestInv /\ [Next]_vars => Tokens'
<1> SUFFICES ASSUME RequestInv, [Next]_vars PROVE Tokens'
  OBVIOUS
<1> USE ConstantsAssumption DEF RequestInv, TypeInv, TypeOK, Settlement, Tokens
<1>1. ASSUME NEW r \in Requests, Admit(r) PROVE Tokens'
  BY <1>1 DEF Admit, clientVars, queueVars, childVars
<1>2. ASSUME NEW r \in Requests, register(r) PROVE Tokens'
  BY <1>2 DEF register, clientVars, queueVars, childVars
<1>3. ASSUME NEW r \in Requests, send(r) PROVE Tokens'
  <2>1. r \in Messages /\ outbound' = Append(outbound, r)
    BY <1>3 DEF send, Messages
  <2>2. QED
    BY <1>3, <2>1, Enqueues DEF send, clientVars, queueVars, childVars
<1>4. ASSUME NEW r \in Requests, SendFails(r) PROVE Tokens'
  BY <1>4 DEF SendFails, clientVars, queueVars, childVars
<1>5. ASSUME NEW r \in Requests, Return(r) PROVE Tokens'
  BY <1>5 DEF Return, clientVars, queueVars, childVars
<1>6. ASSUME NEW r \in Requests, GiveUp(r) PROVE Tokens'
  BY <1>6 DEF GiveUp, clientVars, queueVars, childVars
<1>7. ASSUME NEW r \in Requests, AbandonInbound(r) PROVE Tokens'
  BY <1>7 DEF AbandonInbound, clientVars, queueVars, childVars
<1>8. ASSUME NEW r \in Requests, ChildRejects(r) PROVE Tokens'
  <2>1. ChildAtLine(r)
    BY <1>8 DEF ChildRejects
  <2>2. \A x : Contains(stdout', x) <=> Contains(stdout, x) \/ x = Line("nil_uuid", r)
    BY <1>8, ChildWrites DEF ChildRejects, Line, Lines
  <2>3. QED
    BY <1>8, <2>1, <2>2, ChildTakes DEF ChildRejects, ChildAtLine, Line, clientVars, queueVars, childVars
<1>9. ASSUME NEW r \in Requests, ChildAnswersPing(r) PROVE Tokens'
  <2>1. ChildAtLine(r)
    BY <1>9 DEF ChildAnswersPing
  <2>2. \A x : Contains(stdout', x) <=> Contains(stdout, x) \/ x = Line("terminal", r)
    BY <1>9, ChildWrites DEF ChildAnswersPing, Line, Lines
  <2>3. QED
    BY <1>9, <2>1, <2>2, ChildTakes DEF ChildAnswersPing, ChildAtLine, Line, clientVars, queueVars, childVars
<1>10. ASSUME NEW r \in Requests, ChildSpawnsTask(r) PROVE Tokens'
  <2>1. ChildAtLine(r)
    BY <1>10 DEF ChildSpawnsTask
  <2>2. QED
    BY <1>10, <2>1, ChildTakes DEF ChildSpawnsTask, ChildAtLine, clientVars, queueVars, childVars
<1>11. ASSUME NEW r \in Requests, TaskStreams(r) PROVE Tokens'
  <2>1. \A x : Contains(stdout', x) <=> Contains(stdout, x) \/ x = Line("event", r)
    BY <1>11, ChildWrites DEF TaskStreams, Line, Lines
  <2>2. QED
    BY <1>11, <2>1 DEF TaskStreams, Line, clientVars, queueVars, childVars
<1>12. ASSUME NEW r \in Requests, TaskResponds(r) PROVE Tokens'
  <2>1. \A x : Contains(stdout', x) <=> Contains(stdout, x) \/ x = Line("terminal", r)
    BY <1>12, ChildWrites DEF TaskResponds, Line, Lines
  <2>2. QED
    BY <1>12, <2>1 DEF TaskResponds, Line, clientVars, queueVars, childVars
<1>13. CASE runWriter
  BY <1>13, WriterTakes DEF runWriter, clientVars, queueVars, childVars
<1>14. CASE WriterStops
  BY <1>14 DEF WriterStops, clientVars, queueVars, childVars
<1>15. CASE deliverTerminal
  <2>1. ReaderAtLine /\ stdout' = Tail(stdout)
    BY <1>15 DEF deliverTerminal
  <2>2. QED
    BY <1>15, <2>1, ReaderTakes DEF deliverTerminal, ReaderAtLine, Line, clientVars, queueVars, childVars
<1>16. CASE deliverNilUUID
  <2>1. ReaderAtLine /\ stdout' = Tail(stdout)
    BY <1>16 DEF deliverNilUUID
  <2>2. QED
    BY <1>16, <2>1, ReaderTakes DEF deliverNilUUID, failAllPending, ReaderAtLine, Line, clientVars, queueVars, childVars
<1>17. CASE deliverEvent
  <2>1. ReaderAtLine /\ stdout' = Tail(stdout)
    BY <1>17 DEF deliverEvent
  <2>2. QED
    BY <1>17, <2>1, ReaderTakes DEF deliverEvent, ReaderAtLine, Line, clientVars, queueVars, childVars
<1>18. CASE DeliverEventSend
  BY <1>18 DEF DeliverEventSend, clientVars, queueVars, childVars
<1>19. CASE ReaderTooLong
  BY <1>19 DEF ReaderTooLong, ReaderAtLine, clientVars, queueVars, childVars
<1>20. CASE ReaderEOF
  BY <1>20, EmptyQueue DEF ReaderEOF, clientVars, queueVars, childVars
<1>21. CASE ChildShutsDown
  <2>1. ChildAtLine(Shutdown)
    BY <1>21 DEF ChildShutsDown
  <2>2. QED
    BY <1>21, <2>1, ChildTakes DEF ChildShutsDown, ChildAtLine, clientVars, queueVars, childVars
<1>22. CASE ChildExits
  BY <1>22, EmptyQueue DEF ChildExits, ProcessEnds, clientVars, queueVars, childVars
<1>23. CASE superviseExit
  BY <1>23 DEF superviseExit, clientVars, queueVars, childVars
<1>24. CASE superviseKill
  BY <1>24, EmptyQueue DEF superviseKill, ProcessEnds, clientVars, queueVars, childVars
<1>25. CASE superviseFailClosed
  BY <1>25 DEF superviseFailClosed, failAllPending, clientVars, queueVars, childVars
<1>26. CASE superviseClosed
  BY <1>26 DEF superviseClosed, clientVars, queueVars, childVars
<1>27. CASE superviseFailCrashed
  BY <1>27 DEF superviseFailCrashed, failAllPending, clientVars, queueVars, childVars
<1>28. CASE superviseCount
  BY <1>28 DEF superviseCount, clientVars, queueVars, childVars
<1>29. CASE superviseBackoffStop
  BY <1>29 DEF superviseBackoffStop, clientVars, queueVars, childVars
<1>30. CASE superviseRespawn
  BY <1>30, EmptyQueue DEF superviseRespawn, clientVars, queueVars, childVars
<1>31. CASE superviseRespawnFails
  BY <1>31 DEF superviseRespawnFails, clientVars, queueVars, childVars
<1>32. CASE CloseSends
  <2>1. Shutdown \in Messages
    BY DEF Messages
  <2>2. CASE UNCHANGED outbound
    BY <1>32, <2>2 DEF CloseSends, clientVars, queueVars, childVars
  <2>3. CASE outbound' = Append(outbound, Shutdown)
    BY <1>32, <2>1, <2>3, Enqueues DEF CloseSends, clientVars, queueVars, childVars
  <2>4. QED
    BY <1>32, <2>2, <2>3 DEF CloseSends
<1>33. CASE CloseStops
  BY <1>33 DEF CloseStops, clientVars, queueVars, childVars
<1>34. CASE UNCHANGED vars
  BY <1>34 DEF vars, clientVars, queueVars, childVars
<1>35. QED
  BY <1>1, <1>2, <1>3, <1>4, <1>5, <1>6, <1>7, <1>8, <1>9, <1>10, <1>11, <1>12, <1>13,
     <1>14, <1>15, <1>16, <1>17, <1>18, <1>19, <1>20, <1>21, <1>22, <1>23, <1>24, <1>25,
     <1>26, <1>27, <1>28, <1>29, <1>30, <1>31, <1>32, <1>33, <1>34, NextCases

(* Where a registered request is while the client lives.  After a crash, until*)
(* the next child is up, it has not left the gateway.                         *)
Custody ==
    /\ NoRequestForgotten
    /\ sup \in {"count", "backoff"} =>
         \A r \in pending : call[r] = "registered" \/ Contains(outbound, r)

(* The reader holds no settled request, unless Close raced it. *)
HoldFresh ==
    /\ sup \in {"killed", "closing"} => stopped
    /\ stopped \/ \A r \in hold : result[r] = "none"

(* Every step keeps every registered request accounted for. *)
LEMMA CustodyStep == RequestInv /\ Custody /\ [Next]_vars => Custody'
<1> SUFFICES ASSUME RequestInv, Custody, [Next]_vars PROVE Custody'
  OBVIOUS
<1> USE ConstantsAssumption DEF RequestInv, TypeInv, TypeOK, Structure, Settlement, Custody,
        NoRequestForgotten, Accounted, Answering
<1>1. ASSUME NEW r \in Requests, Admit(r) PROVE Custody'
  BY <1>1 DEF Admit, clientVars, queueVars, childVars
<1>2. ASSUME NEW r \in Requests, register(r) PROVE Custody'
  BY <1>2 DEF register, clientVars, queueVars, childVars
<1>3. ASSUME NEW r \in Requests, send(r) PROVE Custody'
  <2>1. r \in Messages /\ outbound' = Append(outbound, r)
    BY <1>3 DEF send, Messages
  <2>2. QED
    BY <1>3, <2>1, Enqueues DEF send, clientVars, queueVars, childVars
<1>4. ASSUME NEW r \in Requests, SendFails(r) PROVE Custody'
  BY <1>4 DEF SendFails, clientVars, queueVars, childVars
<1>5. ASSUME NEW r \in Requests, Return(r) PROVE Custody'
  BY <1>5 DEF Return, clientVars, queueVars, childVars
<1>6. ASSUME NEW r \in Requests, GiveUp(r) PROVE Custody'
  BY <1>6 DEF GiveUp, clientVars, queueVars, childVars
<1>7. ASSUME NEW r \in Requests, AbandonInbound(r) PROVE Custody'
  BY <1>7 DEF AbandonInbound, clientVars, queueVars, childVars
<1>8. ASSUME NEW r \in Requests, ChildRejects(r) PROVE Custody'
  <2>1. ChildAtLine(r)
    BY <1>8 DEF ChildRejects
  <2>2. \A x : Contains(stdout', x) <=> Contains(stdout, x) \/ x = Line("nil_uuid", r)
    BY <1>8, ChildWrites DEF ChildRejects, Line, Lines
  <2>3. QED
    BY <1>8, <2>1, <2>2, ChildTakes DEF ChildRejects, ChildAtLine, Line, clientVars, queueVars, childVars
<1>9. ASSUME NEW r \in Requests, ChildAnswersPing(r) PROVE Custody'
  <2>1. ChildAtLine(r)
    BY <1>9 DEF ChildAnswersPing
  <2>2. \A x : Contains(stdout', x) <=> Contains(stdout, x) \/ x = Line("terminal", r)
    BY <1>9, ChildWrites DEF ChildAnswersPing, Line, Lines
  <2>3. QED
    BY <1>9, <2>1, <2>2, ChildTakes DEF ChildAnswersPing, ChildAtLine, Line, clientVars, queueVars, childVars
<1>10. ASSUME NEW r \in Requests, ChildSpawnsTask(r) PROVE Custody'
  <2>1. ChildAtLine(r)
    BY <1>10 DEF ChildSpawnsTask
  <2>2. QED
    BY <1>10, <2>1, ChildTakes DEF ChildSpawnsTask, ChildAtLine, clientVars, queueVars, childVars
<1>11. ASSUME NEW r \in Requests, TaskStreams(r) PROVE Custody'
  <2>1. \A x : Contains(stdout', x) <=> Contains(stdout, x) \/ x = Line("event", r)
    BY <1>11, ChildWrites DEF TaskStreams, Line, Lines
  <2>2. QED
    BY <1>11, <2>1 DEF TaskStreams, Line, clientVars, queueVars, childVars
<1>12. ASSUME NEW r \in Requests, TaskResponds(r) PROVE Custody'
  <2>1. \A x : Contains(stdout', x) <=> Contains(stdout, x) \/ x = Line("terminal", r)
    BY <1>12, ChildWrites DEF TaskResponds, Line, Lines
  <2>2. QED
    BY <1>12, <2>1 DEF TaskResponds, Line, clientVars, queueVars, childVars
<1>13. CASE runWriter
  BY <1>13, WriterTakes DEF runWriter, clientVars, queueVars, childVars
<1>14. CASE WriterStops
  BY <1>14 DEF WriterStops, clientVars, queueVars, childVars
<1>15. CASE deliverTerminal
  <2>1. ReaderAtLine /\ stdout' = Tail(stdout)
    BY <1>15 DEF deliverTerminal
  <2>2. /\ Head(stdout).id \in Requests
        /\ Head(stdout) = Line("terminal", Head(stdout).id)
        /\ \A x : Contains(stdout, x) <=> x = Head(stdout) \/ Contains(stdout', x)
    BY <1>15, <2>1, ReaderTakes DEF deliverTerminal
  <2>3. pending' = pending \ {Head(stdout).id}
    BY <1>15 DEF deliverTerminal
  <2>4. \A r \in pending' : Answering(r) => Answering(r)'
    BY <2>2, <2>3 DEF Line
  <2>5. QED
    BY <1>15, <2>3, <2>4 DEF deliverTerminal, clientVars, queueVars, childVars
<1>16. CASE deliverNilUUID
  <2>1. ReaderAtLine /\ stdout' = Tail(stdout)
    BY <1>16 DEF deliverNilUUID
  <2>2. QED
    BY <1>16, <2>1, ReaderTakes DEF deliverNilUUID, failAllPending, ReaderAtLine, Line, clientVars, queueVars, childVars
<1>17. CASE deliverEvent
  <2>1. ReaderAtLine /\ stdout' = Tail(stdout)
    BY <1>17 DEF deliverEvent
  <2>2. QED
    BY <1>17, <2>1, ReaderTakes DEF deliverEvent, ReaderAtLine, Line, clientVars, queueVars, childVars
<1>18. CASE DeliverEventSend
  BY <1>18 DEF DeliverEventSend, clientVars, queueVars, childVars
<1>19. CASE ReaderTooLong
  BY <1>19 DEF ReaderTooLong, ReaderAtLine, clientVars, queueVars, childVars
<1>20. CASE ReaderEOF
  BY <1>20, EmptyQueue DEF ReaderEOF, clientVars, queueVars, childVars
<1>21. CASE ChildShutsDown
  <2>1. ChildAtLine(Shutdown)
    BY <1>21 DEF ChildShutsDown
  <2>2. QED
    BY <1>21, <2>1, ChildTakes DEF ChildShutsDown, ChildAtLine, clientVars, queueVars, childVars
<1>22. CASE ChildExits
  BY <1>22, EmptyQueue DEF ChildExits, ProcessEnds, clientVars, queueVars, childVars
<1>23. CASE superviseExit
  BY <1>23 DEF superviseExit, clientVars, queueVars, childVars
<1>24. CASE superviseKill
  BY <1>24, EmptyQueue DEF superviseKill, ProcessEnds, clientVars, queueVars, childVars
<1>25. CASE superviseFailClosed
  BY <1>25 DEF superviseFailClosed, failAllPending, clientVars, queueVars, childVars
<1>26. CASE superviseClosed
  BY <1>26 DEF superviseClosed, clientVars, queueVars, childVars
<1>27. CASE superviseFailCrashed
  BY <1>27 DEF superviseFailCrashed, failAllPending, clientVars, queueVars, childVars
<1>28. CASE superviseCount
  BY <1>28 DEF superviseCount, clientVars, queueVars, childVars
<1>29. CASE superviseBackoffStop
  BY <1>29 DEF superviseBackoffStop, clientVars, queueVars, childVars
<1>30. CASE superviseRespawn
  BY <1>30, EmptyQueue DEF superviseRespawn, clientVars, queueVars, childVars
<1>31. CASE superviseRespawnFails
  BY <1>31 DEF superviseRespawnFails, clientVars, queueVars, childVars
<1>32. CASE CloseSends
  <2>1. Shutdown \in Messages
    BY DEF Messages
  <2>2. CASE UNCHANGED outbound
    BY <1>32, <2>2 DEF CloseSends, clientVars, queueVars, childVars
  <2>3. CASE outbound' = Append(outbound, Shutdown)
    BY <1>32, <2>1, <2>3, Enqueues DEF CloseSends, clientVars, queueVars, childVars
  <2>4. QED
    BY <1>32, <2>2, <2>3 DEF CloseSends
<1>33. CASE CloseStops
  BY <1>33 DEF CloseStops, clientVars, queueVars, childVars
<1>34. CASE UNCHANGED vars
  BY <1>34 DEF vars, clientVars, queueVars, childVars
<1>35. QED
  BY <1>1, <1>2, <1>3, <1>4, <1>5, <1>6, <1>7, <1>8, <1>9, <1>10, <1>11, <1>12, <1>13,
     <1>14, <1>15, <1>16, <1>17, <1>18, <1>19, <1>20, <1>21, <1>22, <1>23, <1>24, <1>25,
     <1>26, <1>27, <1>28, <1>29, <1>30, <1>31, <1>32, <1>33, <1>34, NextCases

(* Every step keeps the reader's request fresh. *)
LEMMA HoldStep == RequestInv /\ HoldFresh /\ [Next]_vars => HoldFresh'
<1> SUFFICES ASSUME RequestInv, HoldFresh, [Next]_vars PROVE HoldFresh'
  OBVIOUS
<1> USE DEF RequestInv, TypeInv, TypeOK, Structure, Settlement, HoldFresh, stopped
<1>1. ASSUME NEW r \in Requests, Admit(r) PROVE HoldFresh'
  BY <1>1 DEF Admit, clientVars, queueVars, childVars
<1>2. ASSUME NEW r \in Requests, register(r) PROVE HoldFresh'
  BY <1>2 DEF register, clientVars, queueVars, childVars
<1>3. ASSUME NEW r \in Requests, send(r) PROVE HoldFresh'
  BY <1>3 DEF send, clientVars, queueVars, childVars
<1>4. ASSUME NEW r \in Requests, SendFails(r) PROVE HoldFresh'
  BY <1>4 DEF SendFails, clientVars, queueVars, childVars
<1>5. ASSUME NEW r \in Requests, Return(r) PROVE HoldFresh'
  BY <1>5 DEF Return, clientVars, queueVars, childVars
<1>6. ASSUME NEW r \in Requests, GiveUp(r) PROVE HoldFresh'
  BY <1>6 DEF GiveUp, clientVars, queueVars, childVars
<1>7. ASSUME NEW r \in Requests, AbandonInbound(r) PROVE HoldFresh'
  BY <1>7 DEF AbandonInbound, clientVars, queueVars, childVars
<1>8. ASSUME NEW r \in Requests, ChildRejects(r) PROVE HoldFresh'
  BY <1>8 DEF ChildRejects, ChildAtLine, clientVars, queueVars, childVars
<1>9. ASSUME NEW r \in Requests, ChildAnswersPing(r) PROVE HoldFresh'
  BY <1>9 DEF ChildAnswersPing, ChildAtLine, clientVars, queueVars, childVars
<1>10. ASSUME NEW r \in Requests, ChildSpawnsTask(r) PROVE HoldFresh'
  BY <1>10 DEF ChildSpawnsTask, ChildAtLine, clientVars, queueVars, childVars
<1>11. ASSUME NEW r \in Requests, TaskStreams(r) PROVE HoldFresh'
  BY <1>11 DEF TaskStreams, clientVars, queueVars, childVars
<1>12. ASSUME NEW r \in Requests, TaskResponds(r) PROVE HoldFresh'
  BY <1>12 DEF TaskResponds, clientVars, queueVars, childVars
<1>13. CASE runWriter
  BY <1>13 DEF runWriter, clientVars, queueVars, childVars
<1>14. CASE WriterStops
  BY <1>14 DEF WriterStops, clientVars, queueVars, childVars
<1>15. CASE deliverTerminal
  BY <1>15 DEF deliverTerminal, ReaderAtLine, clientVars, queueVars, childVars
<1>16. CASE deliverNilUUID
  BY <1>16 DEF deliverNilUUID, ReaderAtLine, failAllPending, clientVars, queueVars, childVars
<1>17. CASE deliverEvent
  BY <1>17 DEF deliverEvent, ReaderAtLine, clientVars, queueVars, childVars
<1>18. CASE DeliverEventSend
  BY <1>18 DEF DeliverEventSend, clientVars, queueVars, childVars
<1>19. CASE ReaderTooLong
  BY <1>19 DEF ReaderTooLong, ReaderAtLine, clientVars, queueVars, childVars
<1>20. CASE ReaderEOF
  BY <1>20 DEF ReaderEOF, clientVars, queueVars, childVars
<1>21. CASE ChildShutsDown
  BY <1>21 DEF ChildShutsDown, ChildAtLine, clientVars, queueVars, childVars
<1>22. CASE ChildExits
  BY <1>22 DEF ChildExits, ProcessEnds, clientVars, queueVars, childVars
<1>23. CASE superviseExit
  BY <1>23 DEF superviseExit, clientVars, queueVars, childVars
<1>24. CASE superviseKill
  BY <1>24 DEF superviseKill, ProcessEnds, clientVars, queueVars, childVars
<1>25. CASE superviseFailClosed
  BY <1>25 DEF superviseFailClosed, failAllPending, clientVars, queueVars, childVars
<1>26. CASE superviseClosed
  BY <1>26 DEF superviseClosed, clientVars, queueVars, childVars
<1>27. CASE superviseFailCrashed
  BY <1>27 DEF superviseFailCrashed, failAllPending, clientVars, queueVars, childVars
<1>28. CASE superviseCount
  BY <1>28 DEF superviseCount, clientVars, queueVars, childVars
<1>29. CASE superviseBackoffStop
  BY <1>29 DEF superviseBackoffStop, clientVars, queueVars, childVars
<1>30. CASE superviseRespawn
  BY <1>30 DEF superviseRespawn, clientVars, queueVars, childVars
<1>31. CASE superviseRespawnFails
  BY <1>31 DEF superviseRespawnFails, clientVars, queueVars, childVars
<1>32. CASE CloseSends
  BY <1>32 DEF CloseSends, clientVars, queueVars, childVars
<1>33. CASE CloseStops
  BY <1>33 DEF CloseStops, clientVars, queueVars, childVars
<1>34. CASE UNCHANGED vars
  BY <1>34 DEF vars, clientVars, queueVars, childVars
<1>35. QED
  BY <1>1, <1>2, <1>3, <1>4, <1>5, <1>6, <1>7, <1>8, <1>9, <1>10, <1>11, <1>12, <1>13,
     <1>14, <1>15, <1>16, <1>17, <1>18, <1>19, <1>20, <1>21, <1>22, <1>23, <1>24, <1>25,
     <1>26, <1>27, <1>28, <1>29, <1>30, <1>31, <1>32, <1>33, <1>34, NextCases

-----------------------------------------------------------------------------
(* The theorems. *)

(* The client's variables keep their types: in particular the restart loop    *)
(* never exceeds its budget and events are delivered to Execute calls only.   *)
THEOREM TypeCorrect == Spec => []TypeOK
<1>1. Init => TypeInv
  BY TypeInit
<1>2. TypeInv /\ [Next]_vars => TypeInv'
  BY TypeStep
<1>3. TypeInv => TypeOK
  BY DEF TypeInv
<1>4. QED
  BY <1>1, <1>2, <1>3, PTL DEF Spec

(* The inductive invariant: types, supervisor structure, an honest pending    *)
(* map, unique messages, custody of every request, and a fresh reader.        *)
Inv == RequestInv /\ Custody /\ HoldFresh

(* The inductive invariant holds of every behaviour of the client. *)
LEMMA Invariance == Spec => []Inv
<1>1. Init => Inv
  BY RequestInit DEF Init, Inv, Custody, NoRequestForgotten, HoldFresh
<1>2. Inv /\ [Next]_vars => Inv'
  BY TypeStep, SettlementStep, TokensStep, CustodyStep, HoldStep DEF Inv, RequestInv
<1>3. QED
  BY <1>1, <1>2, PTL DEF Spec

(* At most one child ever starts on a request, and a response is only given   *)
(* for work that was started.                                                 *)
THEOREM AtMostOnceHolds == Spec => []AtMostOnce
<1>1. Inv => AtMostOnce
  BY DEF Inv, RequestInv, Tokens, AtMostOnce
<1>2. QED
  BY <1>1, Invariance, PTL

(* While the client is up every request in the pending map is queued, with    *)
(* the child, on its way back, or about to be failed.                         *)
THEOREM NothingForgotten == Spec => []NoRequestForgotten
<1>1. Inv => NoRequestForgotten
  BY DEF Inv, Custody
<1>2. QED
  BY <1>1, Invariance, PTL

(* A client that is dead used its whole budget and left nothing running. *)
THEOREM DeadLeavesNothing == Spec => []DeadIsFinal
<1>1. Inv => DeadIsFinal
  BY ConstantsAssumption
     DEF Inv, RequestInv, TypeInv, Structure, DeadIsFinal, ConstantsAssumption
<1>2. QED
  BY <1>1, Invariance, PTL

(* No request is ever settled twice. *)
THEOREM SettledOnceHolds == Spec => SettledOnce
<1>1. Inv /\ [Next]_vars =>
        [\A r \in Requests : result[r] # "none" => result'[r] = result[r]]_vars
  <2> SUFFICES ASSUME Inv, [Next]_vars, NEW q \in Requests, result[q] # "none"
               PROVE  result'[q] = result[q]
    OBVIOUS
  <2>1. q \notin pending /\ result \in [Requests -> {"none", "response", "error"}]
    BY DEF Inv, RequestInv, TypeInv, TypeOK, Settlement
  <2>2. CASE deliverTerminal
    BY <2>1, <2>2 DEF deliverTerminal
  <2>3. CASE deliverNilUUID \/ superviseFailClosed \/ superviseFailCrashed
    BY <2>1, <2>3 DEF deliverNilUUID, superviseFailClosed, superviseFailCrashed,
                      failAllPending
  <2>4. CASE UNCHANGED result
    BY <2>4
  <2>5. \/ deliverTerminal
        \/ deliverNilUUID \/ superviseFailClosed \/ superviseFailCrashed
        \/ UNCHANGED result
    BY NextCases DEF vars, queueVars, Admit, register, send, SendFails, Return, GiveUp,
       AbandonInbound, ChildAtLine, ChildRejects, ChildAnswersPing, ChildSpawnsTask,
       TaskStreams, TaskResponds, runWriter, WriterStops, deliverEvent, DeliverEventSend,
       ReaderTooLong, ReaderEOF, ChildShutsDown, ChildExits, superviseExit, superviseKill,
       superviseClosed, superviseCount, superviseBackoffStop, superviseRespawn,
       superviseRespawnFails, CloseSends, CloseStops
  <2>6. QED
    BY <2>2, <2>3, <2>4, <2>5
<1>2. QED
  BY <1>1, Invariance, PTL DEF Spec, SettledOnce

(* Nobody calls Close and the gateway is up. *)
Undisturbed == closer = "open" /\ ~panicked

(* However often the child crashes and is restarted, the reader never sends   *)
(* on a closed event channel: only a Close or a failed respawn can panic.     *)
THEOREM CrashNeverPanics ==
    ASSUME MayClose = FALSE, MayFailSpawn = FALSE
    PROVE  Spec => []NoPanic
<1>1. Init => Undisturbed
  BY DEF Init, Undisturbed
<1>2. Inv /\ Undisturbed /\ [Next]_vars => Undisturbed'
  <2> SUFFICES ASSUME Inv, Undisturbed, [Next]_vars PROVE Undisturbed'
    OBVIOUS
  <2>1. CASE DeliverEventSend
    <3>1. \A r \in hold : result[r] = "none"
      BY DEF Inv, HoldFresh, Undisturbed, stopped
    <3>2. QED
      BY <2>1, <3>1 DEF DeliverEventSend, Undisturbed
  <2>2. CASE superviseRespawnFails
    BY <2>2 DEF superviseRespawnFails
  <2>3. CASE Close
    BY <2>3 DEF Close, CloseSends, CloseStops, Undisturbed
  <2>4. CASE UNCHANGED <<closer, panicked>>
    BY <2>4 DEF Undisturbed
  <2>5. DeliverEventSend \/ superviseRespawnFails \/ Close \/ UNCHANGED <<closer, panicked>>
    BY NextCases DEF vars, Close, Admit, register, send, SendFails, Return, GiveUp,
       AbandonInbound, ChildAtLine, ChildRejects, ChildAnswersPing, ChildSpawnsTask,
       TaskStreams, TaskResponds, runWriter, WriterStops, deliverTerminal, deliverNilUUID,
       deliverEvent, ReaderTooLong, ReaderEOF, ChildShutsDown, ChildExits, superviseExit,
       superviseKill, superviseFailClosed, superviseClosed, superviseFailCrashed,
       superviseCount, superviseBackoffStop, superviseRespawn
  <2>6. QED
    BY <2>1, <2>2, <2>3, <2>4, <2>5
<1>3. Undisturbed => NoPanic
  BY DEF Undisturbed, NoPanic
<1>4. QED
  BY <1>1, <1>2, <1>3, Invariance, PTL DEF Spec

-----------------------------------------------------------------------------
(* Refinement: the client keeps RequestContract. *)

(* A request in the pending map is open to its caller. *)
LEMMA PendingIsOpen ==
    ASSUME RequestInv, NEW r \in pending
    PROVE  r \in Requests /\ Observed(r) = "open"
  BY DEF RequestInv, TypeInv, TypeOK, Settlement, Observed

(* The steps that are none of the caller's business. *)
Invisible == UNCHANGED <<call, result, pending, runs>>

(* A step the callers cannot see is a stutter of the contract. *)
LEMMA InvisibleStutters ==
    ASSUME Invisible
    PROVE  UNCHANGED Contract!vars
  BY DEF Invisible, Contract!vars, Observed

(* Settling every request in flight is one Fail of the contract. *)
LEMMA FailRefines ==
    ASSUME RequestInv, failAllPending, UNCHANGED <<call, runs>>
    PROVE  Contract!Fail(pending)
<1>1. \A r \in pending : r \in Requests /\ Observed(r) = "open"
  BY PendingIsOpen
<1>2. \A r \in Requests : Observed(r)' = IF r \in pending THEN "failed" ELSE Observed(r)
  BY DEF RequestInv, TypeInv, TypeOK, failAllPending, Observed
<1>3. QED
  BY <1>1, <1>2 DEF Contract!Fail

(* A step that changes what one caller observes, from one phase to another. *)
Moves(r, from, to) ==
    /\ Observed(r) = from
    /\ \A q \in Requests : Observed(q)' = IF q = r THEN to ELSE Observed(q)
    /\ UNCHANGED runs

(* The contract's function of phases then changes at that request alone. *)
LEMMA MovesExcept ==
    ASSUME NEW r \in Requests, NEW from, NEW to, Moves(r, from, to)
    PROVE  /\ [q \in Requests |-> Observed(q)][r] = from
           /\ [q \in Requests |-> Observed(q)]'
                = [[q \in Requests |-> Observed(q)] EXCEPT ![r] = to]
  BY DEF Moves

(* Starting on a request is one Start of the contract. *)
LEMMA StartRefines ==
    ASSUME RequestInv, NEW r \in Requests, ChildAtLine(r),
           runs' = [runs EXCEPT ![r] = @ + 1]
    PROVE  Contract!Start(r)
<1>1. Contains(inbox, r)
  BY ChildTakes DEF RequestInv, TypeInv
<1>2. runs[r] = 0 /\ call[r] \notin {"idle", "admitted", "refused", "registered"}
  BY <1>1 DEF RequestInv, Tokens
<1>3. Observed(r) \notin {"new", "refused"}
  BY <1>2 DEF RequestInv, TypeInv, TypeOK, Observed
<1>4. UNCHANGED <<call, result, pending>>
  BY DEF ChildAtLine, queueVars
<1>5. [q \in Requests |-> Observed(q)]' = [q \in Requests |-> Observed(q)]
  BY <1>4 DEF Observed
<1>6. runs' = [runs EXCEPT ![r] = 1]
  BY <1>2 DEF RequestInv, TypeInv, TypeOK
<1>7. QED
  BY <1>2, <1>3, <1>5, <1>6 DEF Contract!Start

(* Every step of the client is a step of the contract or a stutter of it. *)
LEMMA ContractStep == RequestInv /\ [Next]_vars => [Contract!Next]_(Contract!vars)
<1> SUFFICES ASSUME RequestInv, [Next]_vars PROVE Contract!Next \/ UNCHANGED Contract!vars
  OBVIOUS
<1> USE DEF RequestInv, TypeInv, TypeOK
<1>1. ASSUME NEW r \in Requests, Admit(r) PROVE Contract!Next
  <2>1. Moves(r, "new", "open") \/ Moves(r, "new", "refused")
    BY <1>1 DEF Admit, Moves, Observed, Settlement, childVars
  <2>2. Contract!Open(r) \/ Contract!Refuse(r)
    BY <2>1, MovesExcept DEF Contract!Open, Contract!Refuse, Moves
  <2>3. QED
    BY <2>2 DEF Contract!Next
<1>2. ASSUME NEW r \in Requests, SendFails(r) \/ GiveUp(r) \/ AbandonInbound(r)
      PROVE  Contract!Next \/ UNCHANGED Contract!vars
  <2>1. /\ call[r] \in {"registered", "waiting"}
        /\ call' = [call EXCEPT ![r] = "abandoned"]
        /\ pending' \in {pending, pending \ {r}}
        /\ UNCHANGED <<result, runs>>
    BY <1>2 DEF SendFails, GiveUp, AbandonInbound, childVars
  <2>2. CASE result[r] = "none" /\ r \notin pending'
    <3>1. Moves(r, "open", "dropped")
      BY <2>1, <2>2 DEF Moves, Observed
    <3>2. Contract!Drop(r)
      BY <3>1, MovesExcept DEF Contract!Drop, Moves
    <3>3. QED
      BY <3>2 DEF Contract!Next
  <2>3. CASE result[r] # "none" \/ r \in pending'
    <3>1. \A q \in Requests : Observed(q)' = Observed(q)
      BY <2>1, <2>3 DEF Observed
    <3>2. QED
      BY <2>1, <3>1 DEF Contract!vars
  <2>4. QED
    BY <2>2, <2>3
<1>3. ASSUME NEW r \in Requests, register(r) \/ send(r) \/ Return(r)
      PROVE  UNCHANGED Contract!vars
  <2>1. \A q \in Requests : Observed(q)' = Observed(q)
    BY <1>3 DEF register, send, Return, Observed
  <2>2. UNCHANGED runs
    BY <1>3 DEF register, send, Return, childVars
  <2>3. QED
    BY <2>1, <2>2 DEF Contract!vars
<1>4. ASSUME NEW r \in Requests, ChildAnswersPing(r) \/ ChildSpawnsTask(r)
      PROVE  Contract!Next
  <2>1. Contract!Start(r)
    BY <1>4, StartRefines DEF ChildAnswersPing, ChildSpawnsTask
  <2>2. QED
    BY <2>1 DEF Contract!Next
<1>5. CASE deliverTerminal /\ Head(stdout).id \in pending
  <2> DEFINE r == Head(stdout).id
  <2>1. r \in Requests /\ Contains(stdout, Line("terminal", r))
    <3>1. ReaderAtLine /\ stdout' = Tail(stdout) /\ Head(stdout).kind = "terminal"
      BY <1>5 DEF deliverTerminal
    <3>2. QED
      BY <3>1, ReaderTakes
  <2>2. runs[r] = 1
    BY <2>1 DEF Tokens
  <2>3. r \in pending /\ pending' = pending \ {r} /\ result' = [result EXCEPT ![r] = "response"]
        /\ UNCHANGED <<call, runs>>
    BY <1>5 DEF deliverTerminal
  <2> HIDE DEF r
  <2>4. Observed(r) = "open"
    BY <2>3, PendingIsOpen
  <2>5. Moves(r, "open", "answered")
    BY <2>1, <2>3, <2>4 DEF Moves, Observed
  <2>6. Contract!Answer(r)
    BY <2>1, <2>2, <2>5, MovesExcept DEF Contract!Answer, Moves
  <2>7. QED
    BY <2>1, <2>6 DEF Contract!Next
<1>6. CASE deliverNilUUID \/ superviseFailClosed \/ superviseFailCrashed
  <2>1. failAllPending /\ UNCHANGED <<call, runs>>
    BY <1>6 DEF deliverNilUUID, superviseFailClosed, superviseFailCrashed, childVars
  <2>2. Contract!Fail(pending) /\ pending \in SUBSET Requests
    BY <2>1, FailRefines
  <2>3. QED
    BY <2>2 DEF Contract!Next
<1>7. CASE Invisible
  BY <1>7, InvisibleStutters
<1>8. \/ \E r \in Requests : \/ Admit(r)
                             \/ SendFails(r) \/ GiveUp(r) \/ AbandonInbound(r)
                             \/ register(r) \/ send(r) \/ Return(r)
                             \/ ChildAnswersPing(r) \/ ChildSpawnsTask(r)
      \/ deliverTerminal /\ Head(stdout).id \in pending
      \/ deliverNilUUID \/ superviseFailClosed \/ superviseFailCrashed
      \/ Invisible
  BY NextCases DEF Invisible, vars, queueVars, childVars, ChildAtLine, ChildRejects,
     TaskStreams, TaskResponds, runWriter, WriterStops, deliverTerminal, deliverEvent,
     DeliverEventSend, ReaderTooLong, ReaderEOF, ChildShutsDown, ChildExits, ProcessEnds,
     superviseExit, superviseKill, superviseClosed, superviseCount, superviseBackoffStop,
     superviseRespawn, superviseRespawnFails, CloseSends, CloseStops
<1>9. QED
  BY <1>1, <1>2, <1>3, <1>4, <1>5, <1>6, <1>7, <1>8

(* The client implements RequestContract, whatever the children do. *)
THEOREM ContractKept == Spec => KeepsContract
<1>1. Init => Contract!Init
  BY DEF Init, Contract!Init, Observed
<1>2. Inv /\ [Next]_vars => [Contract!Next]_(Contract!vars)
  BY ContractStep DEF Inv
<1>3. QED
  BY <1>1, <1>2, Invariance, PTL DEF Spec, KeepsContract, Contract!Spec
=============================================================================
