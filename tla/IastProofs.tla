----------------------------- MODULE IastProofs -----------------------------
(***************************************************************************)
(* TLAPS proofs about IastPipeline, for every set of events, requests and  *)
(* threads and every batch size.                                           *)
(***************************************************************************)
EXTENDS IastPipeline, TLAPS

USE DEF record, inputs, reporter, history

-----------------------------------------------------------------------------
(* Batches *)

\* What Append adds to the events of a batch.
LEMMA ToSetAppend ==
  ASSUME NEW S, NEW q \in Seq(S), NEW e \in S
  PROVE  /\ Append(q, e) \in Seq(S)
         /\ ToSet(Append(q, e)) = ToSet(q) \cup {e}
  <1>1. Append(q, e) \in Seq(S) /\ Len(Append(q, e)) = Len(q) + 1
    OBVIOUS
  <1>2. /\ \A i \in 1..Len(q) : Append(q, e)[i] = q[i]
        /\ Append(q, e)[Len(q) + 1] = e
    OBVIOUS
  <1>3. 1..(Len(q) + 1) = 1..Len(q) \cup {Len(q) + 1}
    OBVIOUS
  <1>4. QED
    BY <1>1, <1>2, <1>3 DEF ToSet

\* The events of a batch, and of none.
LEMMA ToSetType ==
  /\ \A q \in Seq(Events) : ToSet(q) \subseteq Events
  /\ ToSet(<<>>) = {} /\ <<>> \in Seq(Events) /\ Len(<<>>) = 0
  BY DEF ToSet

-----------------------------------------------------------------------------
(* The session by itself *)

\* A request arrives; only ingests carry events.
Arrives(h, k, vs) == Arrive(h, k, vs) /\ (k # "ingest" => vs = {})

SessionStep ==
  \/ Create \/ Expire
  \/ \E h \in Requests :
       Handle(h) \/ Die(h) \/ \E k \in Kinds, vs \in SUBSET Events : Arrives(h, k, vs)

\* Whatever the pipeline does, the session sees one of its own steps.
LEMMA SessionSteps ==
  ASSUME TypeOK, [Next]_vars
  PROVE  SessionStep \/ UNCHANGED sessionVars
  <1>1. ASSUME NEW t \in Threads, NEW h \in Requests, AgentPosts(t, h) PROVE SessionStep
    <2>1. ToSet(out[t]) \in SUBSET Events
      BY ToSetType DEF TypeOK, AgentTypeOK
    <2>2. QED
      BY <1>1, <2>1 DEF AgentPosts, SessionStep, Arrives, Kinds
  <1>2. ASSUME NEW h \in Requests, UserAsks(h) PROVE SessionStep
    BY <1>2 DEF UserAsks, SessionStep, Arrives, Kinds
  <1>3. CASE Server
    BY <1>3 DEF Server, SessionStep
  <1>4. ASSUME NEW t \in Threads, \/ AgentAnswered(t) \/ AgentGivesUp(t) \/ AgentWorks(t)
                                  \/ Application(t)
        PROVE  UNCHANGED sessionVars
    BY <1>4 DEF AgentAnswered, AgentGivesUp, AgentWorks, Application
  <1>5. CASE UNCHANGED vars
    BY <1>5 DEF vars
  <1>6. QED
    BY <1>1, <1>2, <1>3, <1>4, <1>5 DEF Next, Agent, Proceeds

\* Every step keeps the session's types.
LEMMA SessionTypeNext ==
  TypeOK /\ [Next]_vars => SessionTypeOK'
  <1> SUFFICES ASSUME TypeOK, [Next]_vars PROVE SessionTypeOK'
    OBVIOUS
  <1> USE EventsAssumption DEF TypeOK, SessionTypeOK, SessionStatus, Labels, Answered, Kinds, Goto, Answer
  <1>1. ASSUME Create PROVE SessionTypeOK'
    BY <1>1 DEF Create
  <1>2. ASSUME Expire PROVE SessionTypeOK'
    BY <1>2 DEF Expire
  <1>3. ASSUME NEW h \in Requests, Authenticate(h) PROVE SessionTypeOK'
    BY <1>3 DEF Authenticate
  <1>4. ASSUME NEW h \in Requests, ReadExisting(h) PROVE SessionTypeOK'
    BY <1>4 DEF ReadExisting
  <1>5. ASSUME NEW h \in Requests, Insert(h) PROVE SessionTypeOK'
    BY <1>5 DEF Insert, NewRows
  <1>6. ASSUME NEW h \in Requests, GetSession(h) PROVE SessionTypeOK'
    BY <1>6 DEF GetSession
  <1>7. ASSUME NEW h \in Requests, MarkExpired(h) PROVE SessionTypeOK'
    BY <1>7 DEF MarkExpired
  <1>8. ASSUME NEW h \in Requests, LoadRecord(h) PROVE SessionTypeOK'
    BY <1>8 DEF LoadRecord
  <1>9. ASSUME NEW h \in Requests, Finalize(h) PROVE SessionTypeOK'
    BY <1>9 DEF Finalize
  <1>10. ASSUME NEW h \in Requests, Die(h) PROVE SessionTypeOK'
    BY <1>10 DEF Die
  <1>11. ASSUME NEW h \in Requests, NEW k \in Kinds, NEW vs \in SUBSET Events, Arrives(h, k, vs) PROVE SessionTypeOK'
    BY <1>11 DEF Arrives, Arrive, FirstStatement
  <1>12. CASE UNCHANGED sessionVars
    BY <1>12 DEF vars, sessionVars, agentVars
  <1> QED
    BY SessionSteps, <1>1, <1>2, <1>3, <1>4, <1>5, <1>6, <1>7, <1>8, <1>9,
       <1>10, <1>11, <1>12 DEF SessionStep, Handle

\* A request goes from statement to statement of its kind.
LEMMA RequestsNext ==
  TypeOK /\ RequestsOK /\ [Next]_vars => RequestsOK'
  <1> SUFFICES ASSUME TypeOK, RequestsOK, [Next]_vars PROVE RequestsOK'
    OBVIOUS
  <1> USE DEF TypeOK, SessionTypeOK, RequestsOK, Statements, Answered, Kinds, Labels, Goto, Answer
  <1>1. ASSUME Create PROVE RequestsOK'
    BY <1>1 DEF Create
  <1>2. ASSUME Expire PROVE RequestsOK'
    BY <1>2 DEF Expire
  <1>3. ASSUME NEW h \in Requests, Authenticate(h) PROVE RequestsOK'
    BY <1>3 DEF Authenticate
  <1>4. ASSUME NEW h \in Requests, ReadExisting(h) PROVE RequestsOK'
    BY <1>4 DEF ReadExisting
  <1>5. ASSUME NEW h \in Requests, Insert(h) PROVE RequestsOK'
    BY <1>5 DEF Insert
  <1>6. ASSUME NEW h \in Requests, GetSession(h) PROVE RequestsOK'
    BY <1>6 DEF GetSession
  <1>7. ASSUME NEW h \in Requests, MarkExpired(h) PROVE RequestsOK'
    BY <1>7 DEF MarkExpired
  <1>8. ASSUME NEW h \in Requests, LoadRecord(h) PROVE RequestsOK'
    BY <1>8 DEF LoadRecord
  <1>9. ASSUME NEW h \in Requests, Finalize(h) PROVE RequestsOK'
    BY <1>9 DEF Finalize
  <1>10. ASSUME NEW h \in Requests, Die(h) PROVE RequestsOK'
    BY <1>10 DEF Die
  <1>11. ASSUME NEW h \in Requests, NEW k \in Kinds, NEW vs \in SUBSET Events, Arrives(h, k, vs) PROVE RequestsOK'
    BY <1>11 DEF Arrives, Arrive, FirstStatement
  <1>12. CASE UNCHANGED sessionVars
    BY <1>12 DEF vars, sessionVars, agentVars
  <1> QED
    BY SessionSteps, <1>1, <1>2, <1>3, <1>4, <1>5, <1>6, <1>7, <1>8, <1>9,
       <1>10, <1>11, <1>12 DEF SessionStep, Handle

\* A record that is over is never written as active again.
LEMMA RecordNext ==
  TypeOK /\ RecordOK /\ [Next]_vars => RecordOK'
  <1> SUFFICES ASSUME TypeOK, RecordOK, [Next]_vars PROVE RecordOK'
    OBVIOUS
  <1> USE DEF TypeOK, SessionTypeOK, SessionStatus, RecordOK, Over, Answered, Kinds, Labels, Goto, Answer
  <1>1. ASSUME Create PROVE RecordOK'
    BY <1>1 DEF Create
  <1>2. ASSUME Expire PROVE RecordOK'
    BY <1>2 DEF Expire
  <1>3. ASSUME NEW h \in Requests, Authenticate(h) PROVE RecordOK'
    BY <1>3 DEF Authenticate
  <1>4. ASSUME NEW h \in Requests, ReadExisting(h) PROVE RecordOK'
    BY <1>4 DEF ReadExisting
  <1>5. ASSUME NEW h \in Requests, Insert(h) PROVE RecordOK'
    BY <1>5 DEF Insert
  <1>6. ASSUME NEW h \in Requests, GetSession(h) PROVE RecordOK'
    BY <1>6 DEF GetSession, Current
  <1>7. ASSUME NEW h \in Requests, MarkExpired(h) PROVE RecordOK'
    BY <1>7 DEF MarkExpired
  <1>8. ASSUME NEW h \in Requests, LoadRecord(h) PROVE RecordOK'
    BY <1>8 DEF LoadRecord
  <1>9. ASSUME NEW h \in Requests, Finalize(h) PROVE RecordOK'
    BY <1>9 DEF Finalize
  <1>10. ASSUME NEW h \in Requests, Die(h) PROVE RecordOK'
    BY <1>10 DEF Die
  <1>11. ASSUME NEW h \in Requests, NEW k \in Kinds, NEW vs \in SUBSET Events, Arrives(h, k, vs) PROVE RecordOK'
    BY <1>11 DEF Arrives, Arrive, FirstStatement
  <1>12. CASE UNCHANGED sessionVars
    BY <1>12 DEF vars, sessionVars, agentVars
  <1> QED
    BY SessionSteps, <1>1, <1>2, <1>3, <1>4, <1>5, <1>6, <1>7, <1>8, <1>9,
       <1>10, <1>11, <1>12 DEF SessionStep, Handle

\* Once the session is over it stays so, and its requests stay out.
LEMMA LateNext ==
  TypeOK /\ RequestsOK /\ RecordOK /\ LateOK /\ [Next]_vars => LateOK'
  <1> SUFFICES ASSUME TypeOK, RequestsOK, RecordOK, LateOK, [Next]_vars PROVE LateOK'
    OBVIOUS
  <1> USE DEF TypeOK, SessionTypeOK, SessionStatus, RequestsOK, RecordOK, LateOK, Current, Over, Answered, Statements, Kinds, Labels, Goto, Answer
  <1>1. ASSUME Create PROVE LateOK'
    BY <1>1 DEF Create
  <1>2. ASSUME Expire PROVE LateOK'
    BY <1>2 DEF Expire
  <1>3. ASSUME NEW h \in Requests, Authenticate(h) PROVE LateOK'
    BY <1>3 DEF Authenticate
  <1>4. ASSUME NEW h \in Requests, ReadExisting(h) PROVE LateOK'
    BY <1>4 DEF ReadExisting
  <1>5. ASSUME NEW h \in Requests, Insert(h) PROVE LateOK'
    BY <1>5 DEF Insert, NewRows
  <1>6. ASSUME NEW h \in Requests, GetSession(h) PROVE LateOK'
    BY <1>6 DEF GetSession
  <1>7. ASSUME NEW h \in Requests, MarkExpired(h) PROVE LateOK'
    BY <1>7 DEF MarkExpired
  <1>8. ASSUME NEW h \in Requests, LoadRecord(h) PROVE LateOK'
    BY <1>8 DEF LoadRecord
  <1>9. ASSUME NEW h \in Requests, Finalize(h) PROVE LateOK'
    BY <1>9 DEF Finalize
  <1>10. ASSUME NEW h \in Requests, Die(h) PROVE LateOK'
    BY <1>10 DEF Die
  <1>11. ASSUME NEW h \in Requests, NEW k \in Kinds, NEW vs \in SUBSET Events, Arrives(h, k, vs) PROVE LateOK'
    BY <1>11 DEF Arrives, Arrive, FirstStatement
  <1>12. CASE UNCHANGED sessionVars
    BY <1>12 DEF vars, sessionVars, agentVars
  <1> QED
    BY SessionSteps, <1>1, <1>2, <1>3, <1>4, <1>5, <1>6, <1>7, <1>8, <1>9,
       <1>10, <1>11, <1>12 DEF SessionStep, Handle

\* An ingest is answered when the events it has not found are stored.
LEMMA StoredNext ==
  TypeOK /\ RequestsOK /\ StoredOK /\ [Next]_vars => StoredOK'
  <1> SUFFICES ASSUME TypeOK, RequestsOK, StoredOK, [Next]_vars PROVE StoredOK'
    OBVIOUS
  <1> USE DEF TypeOK, SessionTypeOK, RequestsOK, StoredOK, Answered, Statements, Kinds, Labels, Goto, Answer
  <1>1. ASSUME Create PROVE StoredOK'
    BY <1>1 DEF Create
  <1>2. ASSUME Expire PROVE StoredOK'
    BY <1>2 DEF Expire
  <1>3. ASSUME NEW h \in Requests, Authenticate(h) PROVE StoredOK'
    BY <1>3 DEF Authenticate
  <1>4. ASSUME NEW h \in Requests, ReadExisting(h) PROVE StoredOK'
    BY <1>4 DEF ReadExisting
  <1>5. ASSUME NEW h \in Requests, Insert(h) PROVE StoredOK'
    <2>1. rows' = rows \cup NewRows(h) /\ UNCHANGED <<kind, body>>
      BY <1>5 DEF Insert
    <2>2. ASSUME NEW x \in Requests PROVE known'[x] \subseteq {r.fp : r \in rows'}
      BY <1>5, <2>1, <2>2 DEF Insert
    <2>3. ASSUME NEW x \in Requests, kind[x] = "ingest", at'[x] = "ok", NEW v \in body[x]
          PROVE  \E r \in rows' : r.fp = FingerprintOf[v]
      <3>1. CASE x # h
        BY <1>5, <2>1, <2>3, <3>1 DEF Insert
      <3>2. CASE x = h /\ FingerprintOf[v] \in known[h]
        BY <2>1, <3>2
      <3>3. CASE x = h /\ FingerprintOf[v] \notin known[h]
        <4>1. [fp |-> FingerprintOf[v], by |-> h] \in NewRows(h)
          BY <2>3, <3>3 DEF NewRows
        <4>2. QED
          BY <2>1, <4>1
      <3>4. QED
        BY <3>1, <3>2, <3>3
    <2>4. QED
      BY <2>1, <2>2, <2>3
  <1>6. ASSUME NEW h \in Requests, GetSession(h) PROVE StoredOK'
    BY <1>6 DEF GetSession
  <1>7. ASSUME NEW h \in Requests, MarkExpired(h) PROVE StoredOK'
    BY <1>7 DEF MarkExpired
  <1>8. ASSUME NEW h \in Requests, LoadRecord(h) PROVE StoredOK'
    BY <1>8 DEF LoadRecord
  <1>9. ASSUME NEW h \in Requests, Finalize(h) PROVE StoredOK'
    BY <1>9 DEF Finalize
  <1>10. ASSUME NEW h \in Requests, Die(h) PROVE StoredOK'
    BY <1>10 DEF Die
  <1>11. ASSUME NEW h \in Requests, NEW k \in Kinds, NEW vs \in SUBSET Events, Arrives(h, k, vs) PROVE StoredOK'
    BY <1>11 DEF Arrives, Arrive, FirstStatement
  <1>12. CASE UNCHANGED sessionVars
    BY <1>12 DEF vars, sessionVars, agentVars
  <1> QED
    BY SessionSteps, <1>1, <1>2, <1>3, <1>4, <1>5, <1>6, <1>7, <1>8, <1>9,
       <1>10, <1>11, <1>12 DEF SessionStep, Handle

-----------------------------------------------------------------------------
(* The agent by itself *)

AgentStep ==
  \E t \in Threads :
    \/ FindReporter(t) \/ Report(t) \/ Import(t) \/ PostFails(t) \/ Flush(t)
    \/ Unset(t) \/ Uninstrument(t) \/ TakeAnswer(t) \/ GiveUp(t)
    \/ \E v \in Events : CallSink(t, v)
    \/ \E h \in Requests : Post(t, h)

\* Whatever the pipeline does, the agent sees one of its own steps.
LEMMA AgentSteps ==
  ASSUME [Next]_vars
  PROVE  AgentStep \/ UNCHANGED agentVars
  BY DEF Next, Server, UserAsks, Agent, Proceeds, AgentPosts, AgentAnswered, AgentGivesUp,
         AgentWorks, Application, AgentStep, vars

\* What a report makes of the buffer.
LEMMA Buffered ==
  ASSUME TypeOK, ThreadsOK, NEW t \in Threads, thread[t] \in {"record", "report"}
  PROVE  /\ event[t] \in Events
         /\ Append(buf, event[t]) \in Seq(Events)
         /\ ToSet(Append(buf, event[t])) = ToSet(buf) \cup {event[t]}
  BY ToSetAppend DEF TypeOK, AgentTypeOK, ThreadsOK

\* t takes the lock and swaps the batch b out of the buffer ...
Swaps(t, b) ==
  /\ lock' = t /\ out' = [out EXCEPT ![t] = b] /\ buf' = <<>>
  /\ thread' = [thread EXCEPT ![t] = "send"] /\ event' = event

\* ... or leaves it with b in it.
Leaves(t, b, place) ==
  /\ lock' = lock /\ out' = out /\ buf' = b
  /\ thread' = [thread EXCEPT ![t] = place] /\ event' = [event EXCEPT ![t] = NoEvent]

\* A report does one or the other.
LEMMA ReportCases ==
  ASSUME TypeOK, ThreadsOK, NEW t \in Threads, Report(t)
  PROVE  /\ thread[t] = "report" /\ lock = NoThread /\ event[t] \in Events
         /\ UNCHANGED <<wrapped, reporting, loaded, awaits, called, dropped, gaveUp>>
         /\ \/ Swaps(t, Append(buf, event[t]))
            \/ Leaves(t, Append(buf, event[t]), "app") /\ Len(buf') < Batch
  <1>1. thread[t] = "report" /\ event[t] \in Events /\ Append(buf, event[t]) \in Seq(Events)
    BY Buffered DEF Report
  <1>2. Len(Append(buf, event[t])) \in Nat /\ Batch \in Nat
    BY <1>1, BatchAssumption
  <1>3. event[t] # NoEvent
    BY <1>1, NobodyAssumption
  <1>4. QED
    BY <1>1, <1>2, <1>3 DEF Report, Swap, Return, Move, Swaps, Leaves

\* The same of a flush.
LEMMA FlushCases ==
  ASSUME TypeOK, ThreadsOK, NEW t \in Threads, Flush(t)
  PROVE  /\ thread[t] = "flush" /\ lock = NoThread /\ event[t] = NoEvent
         /\ UNCHANGED <<wrapped, reporting, loaded, awaits, called, dropped, gaveUp>>
         /\ \/ Swaps(t, buf)
            \/ Leaves(t, buf, "unset")
  BY DEF Flush, Swap, Return, Move, Swaps, Leaves, ThreadsOK

\* Every step keeps the agent's types.
LEMMA AgentTypeNext ==
  TypeOK /\ ThreadsOK /\ WaitOK /\ [Next]_vars => AgentTypeOK(Requests)'
  <1> SUFFICES ASSUME TypeOK, ThreadsOK, WaitOK, [Next]_vars PROVE AgentTypeOK(Requests)'
    OBVIOUS
  <1> USE BatchAssumption, NobodyAssumption, NoRequestAssumption, ToSetType, Buffered
          DEF TypeOK, AgentTypeOK, ThreadsOK, Places, Move, Return, Swap, Release
  <1>1. ASSUME NEW t \in Threads, FindReporter(t) PROVE AgentTypeOK(Requests)'
    BY <1>1 DEF FindReporter
  <1>2. ASSUME NEW t \in Threads, Report(t) PROVE AgentTypeOK(Requests)'
    <2>1. CASE Swaps(t, Append(buf, event[t]))
      BY <1>2, <2>1, ReportCases DEF Swaps
    <2>2. CASE Leaves(t, Append(buf, event[t]), "app")
      BY <1>2, <2>2, ReportCases DEF Leaves
    <2>3. QED
      BY <1>2, <2>1, <2>2, ReportCases
  <1>3. ASSUME NEW t \in Threads, Import(t) PROVE AgentTypeOK(Requests)'
    BY <1>3 DEF Import, Loaded
  <1>4. ASSUME NEW t \in Threads, PostFails(t) PROVE AgentTypeOK(Requests)'
    BY <1>4 DEF PostFails
  <1>5. ASSUME NEW t \in Threads, Flush(t) PROVE AgentTypeOK(Requests)'
    <2>1. CASE Swaps(t, buf)
      BY <1>5, <2>1, FlushCases DEF Swaps
    <2>2. CASE Leaves(t, buf, "unset")
      BY <1>5, <2>2, FlushCases DEF Leaves
    <2>3. QED
      BY <1>5, <2>1, <2>2, FlushCases
  <1>6. ASSUME NEW t \in Threads, Unset(t) PROVE AgentTypeOK(Requests)'
    BY <1>6 DEF Unset
  <1>7. ASSUME NEW t \in Threads, Uninstrument(t) PROVE AgentTypeOK(Requests)'
    BY <1>7 DEF Uninstrument
  <1>8. ASSUME NEW t \in Threads, TakeAnswer(t) PROVE AgentTypeOK(Requests)'
    BY <1>8 DEF TakeAnswer
  <1>9. ASSUME NEW t \in Threads, GiveUp(t) PROVE AgentTypeOK(Requests)'
    BY <1>9 DEF GiveUp, WaitOK
  <1>10. ASSUME NEW t \in Threads, NEW v \in Events, CallSink(t, v) PROVE AgentTypeOK(Requests)'
    BY <1>10 DEF CallSink
  <1>11. ASSUME NEW t \in Threads, NEW h \in Requests, Post(t, h) PROVE AgentTypeOK(Requests)'
    BY <1>11 DEF Post
  <1>12. CASE UNCHANGED agentVars
    BY <1>12 DEF vars, sessionVars, agentVars
  <1> QED
    BY AgentSteps, <1>1, <1>2, <1>3, <1>4, <1>5, <1>6, <1>7, <1>8, <1>9,
       <1>10, <1>11, <1>12 DEF AgentStep

\* Who swaps the buffer takes the lock, and who goes back releases it.
LEMMA ThreadsNext ==
  TypeOK /\ ThreadsOK /\ [Next]_vars => ThreadsOK'
  <1> SUFFICES ASSUME TypeOK, ThreadsOK, [Next]_vars PROVE ThreadsOK'
    OBVIOUS
  <1> USE BatchAssumption, NobodyAssumption, NoRequestAssumption, ToSetType, Buffered
          DEF TypeOK, AgentTypeOK, ThreadsOK, Places, Move, Return, Swap, Release, Flushing
  <1>1. ASSUME NEW t \in Threads, FindReporter(t) PROVE ThreadsOK'
    BY <1>1 DEF FindReporter
  <1>2. ASSUME NEW t \in Threads, Report(t) PROVE ThreadsOK'
    <2>1. CASE Swaps(t, Append(buf, event[t]))
      <3>1. /\ thread[t] = "report" /\ lock = NoThread /\ event[t] \in ToSet(out'[t])
            /\ lock' = t /\ buf' = <<>> /\ event' = event /\ thread'[t] = "send"
        BY <1>2, <2>1, ReportCases DEF Swaps
      <3>2. ASSUME NEW u \in Threads, u # t
            PROVE  thread'[u] = thread[u] /\ out'[u] = out[u] /\ thread[u] \notin Flushing
        BY <2>1, <3>1, <3>2 DEF Swaps
      <3>3. QED
        BY <3>1, <3>2
    <2>2. CASE Leaves(t, Append(buf, event[t]), "app")
      BY <1>2, <2>2, ReportCases DEF Leaves
    <2>3. QED
      BY <1>2, <2>1, <2>2, ReportCases
  <1>3. ASSUME NEW t \in Threads, Import(t) PROVE ThreadsOK'
    BY <1>3 DEF Import
  <1>4. ASSUME NEW t \in Threads, PostFails(t) PROVE ThreadsOK'
    BY <1>4 DEF PostFails
  <1>5. ASSUME NEW t \in Threads, Flush(t) PROVE ThreadsOK'
    <2>1. CASE Swaps(t, buf)
      BY <1>5, <2>1, FlushCases DEF Swaps
    <2>2. CASE Leaves(t, buf, "unset")
      BY <1>5, <2>2, FlushCases DEF Leaves
    <2>3. QED
      BY <1>5, <2>1, <2>2, FlushCases
  <1>6. ASSUME NEW t \in Threads, Unset(t) PROVE ThreadsOK'
    BY <1>6 DEF Unset
  <1>7. ASSUME NEW t \in Threads, Uninstrument(t) PROVE ThreadsOK'
    BY <1>7 DEF Uninstrument
  <1>8. ASSUME NEW t \in Threads, TakeAnswer(t) PROVE ThreadsOK'
    BY <1>8 DEF TakeAnswer
  <1>9. ASSUME NEW t \in Threads, GiveUp(t) PROVE ThreadsOK'
    BY <1>9 DEF GiveUp
  <1>10. ASSUME NEW t \in Threads, NEW v \in Events, CallSink(t, v) PROVE ThreadsOK'
    BY <1>10 DEF CallSink
  <1>11. ASSUME NEW t \in Threads, NEW h \in Requests, Post(t, h) PROVE ThreadsOK'
    BY <1>11 DEF Post
  <1>12. CASE UNCHANGED agentVars
    BY <1>12 DEF vars, sessionVars, agentVars
  <1> QED
    BY AgentSteps, <1>1, <1>2, <1>3, <1>4, <1>5, <1>6, <1>7, <1>8, <1>9,
       <1>10, <1>11, <1>12 DEF AgentStep

\* A report that fills the buffer takes the lock and empties it.
LEMMA BoundedNext ==
  TypeOK /\ ThreadsOK /\ BufferBounded /\ [Next]_vars => BufferBounded'
  <1> SUFFICES ASSUME TypeOK, ThreadsOK, BufferBounded, [Next]_vars PROVE BufferBounded'
    OBVIOUS
  <1> USE BatchAssumption, NobodyAssumption, NoRequestAssumption, ToSetType, Buffered
          DEF TypeOK, AgentTypeOK, ThreadsOK, Places, Move, Return, Swap, Release, Flushing, BufferBounded
  <1>1. ASSUME NEW t \in Threads, FindReporter(t) PROVE BufferBounded'
    BY <1>1 DEF FindReporter
  <1>2. ASSUME NEW t \in Threads, Report(t) PROVE BufferBounded'
    BY <1>2 DEF Report
  <1>3. ASSUME NEW t \in Threads, Import(t) PROVE BufferBounded'
    BY <1>3 DEF Import
  <1>4. ASSUME NEW t \in Threads, PostFails(t) PROVE BufferBounded'
    BY <1>4 DEF PostFails
  <1>5. ASSUME NEW t \in Threads, Flush(t) PROVE BufferBounded'
    BY <1>5 DEF Flush
  <1>6. ASSUME NEW t \in Threads, Unset(t) PROVE BufferBounded'
    BY <1>6 DEF Unset
  <1>7. ASSUME NEW t \in Threads, Uninstrument(t) PROVE BufferBounded'
    BY <1>7 DEF Uninstrument
  <1>8. ASSUME NEW t \in Threads, TakeAnswer(t) PROVE BufferBounded'
    BY <1>8 DEF TakeAnswer
  <1>9. ASSUME NEW t \in Threads, GiveUp(t) PROVE BufferBounded'
    BY <1>9 DEF GiveUp
  <1>10. ASSUME NEW t \in Threads, NEW v \in Events, CallSink(t, v) PROVE BufferBounded'
    BY <1>10 DEF CallSink
  <1>11. ASSUME NEW t \in Threads, NEW h \in Requests, Post(t, h) PROVE BufferBounded'
    BY <1>11 DEF Post
  <1>12. CASE UNCHANGED agentVars
    BY <1>12 DEF vars, sessionVars, agentVars
  <1> QED
    BY AgentSteps, <1>1, <1>2, <1>3, <1>4, <1>5, <1>6, <1>7, <1>8, <1>9,
       <1>10, <1>11, <1>12 DEF AgentStep

-----------------------------------------------------------------------------
(* The agent and the session together *)

\* What a step that neither begins nor ends a wait leaves alone.
LEMMA WaitFrame ==
  ASSUME WaitOK, UNCHANGED <<awaits, kind, body, at, gaveUp>>,
         \A u \in Threads : /\ thread'[u] = "wait" <=> thread[u] = "wait"
                            /\ thread[u] = "wait" => out'[u] = out[u]
  PROVE  WaitOK'
  BY DEF WaitOK, ToSet

\* Where an ingest can be, and a request that has not arrived.
LEMMA Arrived ==
  ASSUME TypeOK, RequestsOK, NEW h \in Requests
  PROVE  /\ kind[h] = "ingest" => at[h] \in {"auth", "existing", "insert", "ok", "failed"}
         /\ at[h] = "idle" => kind[h] = "none" /\ body[h] = {}
         /\ at[h] \in {"auth", "existing", "insert"} => kind[h] = "ingest"
  <1>1. at[h] \in Statements[kind[h]] /\ kind[h] \in Kinds \cup {"none"}
    BY DEF TypeOK, SessionTypeOK, RequestsOK
  <1>2. QED
    BY <1>1 DEF RequestsOK, Statements, Answered, Kinds

\* What a user asks for nobody waits for.
LEMMA WaitAsk ==
  ASSUME TypeOK, RequestsOK, WaitOK, NEW h \in Requests, UserAsks(h)
  PROVE  WaitOK'
  <1>1. /\ UNCHANGED <<thread, awaits, out, gaveUp>> /\ at[h] = "idle"
        /\ kind'[h] # "ingest"
        /\ \A g \in Requests \ {h} : at'[g] = at[g] /\ kind'[g] = kind[g] /\ body'[g] = body[g]
    BY DEF UserAsks, Arrive, agentVars, TypeOK, SessionTypeOK, Goto
  <1>2. \A t \in Threads : thread[t] = "wait" => awaits[t] \in Requests \ {h}
    BY <1>1, Arrived DEF WaitOK
  <1>3. \A t \in Threads : ToSet(out[t])' = ToSet(out[t])
    BY <1>1 DEF ToSet
  <1>4. QED
    BY <1>1, <1>2, <1>3 DEF WaitOK

\* A thread waits for its request until that is answered or it gives up, and
\* the request keeps its body.
LEMMA WaitNext ==
  TypeOK /\ RequestsOK /\ ThreadsOK /\ WaitOK /\ [Next]_vars => WaitOK'
  <1> SUFFICES ASSUME TypeOK, RequestsOK, ThreadsOK, WaitOK, [Next]_vars PROVE WaitOK'
    OBVIOUS
  <1> USE BatchAssumption, NobodyAssumption, NoRequestAssumption
          DEF TypeOK, AgentTypeOK, SessionTypeOK, Answered, Kinds, Labels, Places, Goto, Answer, Move, Return, Release,
              RequestsOK, Statements, ThreadsOK, Flushing, WaitOK
  <1>1. ASSUME Create /\ UNCHANGED agentVars PROVE WaitOK'
    BY <1>1 DEF Create, agentVars
  <1>2. ASSUME Expire /\ UNCHANGED agentVars PROVE WaitOK'
    BY <1>2 DEF Expire, agentVars
  <1>3. ASSUME NEW h \in Requests, Authenticate(h) /\ UNCHANGED agentVars PROVE WaitOK'
    BY <1>3 DEF Authenticate, agentVars
  <1>4. ASSUME NEW h \in Requests, ReadExisting(h) /\ UNCHANGED agentVars PROVE WaitOK'
    BY <1>4 DEF ReadExisting, agentVars
  <1>5. ASSUME NEW h \in Requests, Insert(h) /\ UNCHANGED agentVars PROVE WaitOK'
    BY <1>5 DEF Insert, agentVars
  <1>6. ASSUME NEW h \in Requests, GetSession(h) /\ UNCHANGED agentVars PROVE WaitOK'
    BY <1>6 DEF GetSession, agentVars
  <1>7. ASSUME NEW h \in Requests, MarkExpired(h) /\ UNCHANGED agentVars PROVE WaitOK'
    BY <1>7 DEF MarkExpired, agentVars
  <1>8. ASSUME NEW h \in Requests, LoadRecord(h) /\ UNCHANGED agentVars PROVE WaitOK'
    BY <1>8 DEF LoadRecord, agentVars
  <1>9. ASSUME NEW h \in Requests, Finalize(h) /\ UNCHANGED agentVars PROVE WaitOK'
    BY <1>9 DEF Finalize, agentVars
  <1>10. ASSUME NEW h \in Requests, Die(h) /\ UNCHANGED agentVars PROVE WaitOK'
    BY <1>10 DEF Die, agentVars
  <1>11. ASSUME NEW h \in Requests, UserAsks(h) PROVE WaitOK'
    BY <1>11, WaitAsk
  <1>12. ASSUME NEW t \in Threads, NEW h \in Requests, AgentPosts(t, h) PROVE WaitOK'
    <2>1. /\ thread[t] = "send" /\ at[h] = "idle" /\ lock = t
          /\ awaits' = [awaits EXCEPT ![t] = h]
          /\ thread' = [thread EXCEPT ![t] = "wait"]
          /\ at' = [at EXCEPT ![h] = "auth"]
          /\ kind' = [kind EXCEPT ![h] = "ingest"]
          /\ body' = [body EXCEPT ![h] = ToSet(out[t])]
          /\ UNCHANGED <<out, gaveUp>>
      BY <1>12 DEF AgentPosts, Post, Arrive, FirstStatement
    <2>2. \A u \in Threads : thread[u] # "wait"
      BY <2>1
    <2>3. ASSUME NEW u \in Threads
          PROVE  /\ thread'[u] # "wait" => awaits'[u] = NoRequest
                 /\ thread'[u] = "wait" => u = t
      BY <2>1, <2>2
    <2>4. awaits'[t] = h /\ kind'[h] = "ingest" /\ body'[h] = ToSet(out'[t]) /\ thread'[t] = "wait"
      BY <2>1
    <2>5. ASSUME NEW g \in Requests \ gaveUp, kind'[g] = "ingest", at'[g] \notin Answered
          PROVE  g = h
      BY <2>1, <2>2, <2>5
    <2>6. ToSet(out[t])' = ToSet(out'[t])
      BY DEF ToSet
    <2>7. QED
      BY <2>1, <2>3, <2>4, <2>5, <2>6
  <1>13. ASSUME NEW t \in Threads, AgentAnswered(t) PROVE WaitOK'
    BY <1>13 DEF AgentAnswered, TakeAnswer, sessionVars
  <1>14. ASSUME NEW t \in Threads, AgentGivesUp(t) PROVE WaitOK'
    BY <1>14 DEF AgentGivesUp, GiveUp, sessionVars
  <1>15. ASSUME NEW t \in Threads, FindReporter(t) /\ UNCHANGED sessionVars PROVE WaitOK'
    BY <1>15 DEF FindReporter, sessionVars
  <1>16. ASSUME NEW t \in Threads, Report(t) /\ UNCHANGED sessionVars PROVE WaitOK'
    <2>1. \/ thread' = [thread EXCEPT ![t] = "send"]
          \/ thread' = [thread EXCEPT ![t] = "app"]
      BY <1>16, ReportCases DEF Swaps, Leaves
    <2>2. \A u \in Threads : thread[u] # "wait"
      BY <1>16, ReportCases DEF ThreadsOK, Flushing
    <2>3. \A u \in Threads : thread[u] # "wait" /\ thread'[u] # "wait"
      BY <2>1, <2>2
    <2>4. UNCHANGED <<awaits, kind, body, at, gaveUp>>
      BY <1>16, ReportCases DEF sessionVars
    <2>5. QED
      BY <2>3, <2>4, WaitFrame
  <1>17. ASSUME NEW t \in Threads, Import(t) /\ UNCHANGED sessionVars PROVE WaitOK'
    BY <1>17 DEF Import, sessionVars
  <1>18. ASSUME NEW t \in Threads, PostFails(t) /\ UNCHANGED sessionVars PROVE WaitOK'
    BY <1>18 DEF PostFails, sessionVars
  <1>19. ASSUME NEW t \in Threads, Flush(t) /\ UNCHANGED sessionVars PROVE WaitOK'
    <2>1. \A u \in Threads : thread[u] # "wait" /\ thread'[u] # "wait"
      BY <1>19, FlushCases DEF Swaps, Leaves
    <2>2. UNCHANGED <<awaits, kind, body, at, gaveUp>>
      BY <1>19, FlushCases DEF sessionVars
    <2>3. QED
      BY <2>1, <2>2, WaitFrame
  <1>20. ASSUME NEW t \in Threads, Unset(t) /\ UNCHANGED sessionVars PROVE WaitOK'
    BY <1>20 DEF Unset, sessionVars
  <1>21. ASSUME NEW t \in Threads, Uninstrument(t) /\ UNCHANGED sessionVars PROVE WaitOK'
    BY <1>21 DEF Uninstrument, sessionVars
  <1>22. ASSUME NEW t \in Threads, NEW v \in Events, CallSink(t, v) /\ UNCHANGED sessionVars PROVE WaitOK'
    BY <1>22 DEF CallSink, sessionVars
  <1>23. CASE UNCHANGED vars
    BY <1>23 DEF vars, sessionVars, agentVars
  <1> QED
    BY <1>1, <1>2, <1>3, <1>4, <1>5, <1>6, <1>7, <1>8, <1>9, <1>10, <1>11,
       <1>12, <1>13, <1>14, <1>15, <1>16, <1>17, <1>18, <1>19, <1>20, <1>21,
       <1>22, <1>23 DEF Next, Server, Handle, Agent, Proceeds, AgentWorks, Application

\* The events of the next buffer and batches.
LEMMA ToSetPrime ==
  /\ ToSet(buf)' = ToSet(buf')
  /\ \A u \in Threads : ToSet(out[u])' = ToSet(out'[u])
  BY DEF ToSet

\* A step that puts no event anywhere keeps OncePlaced.
LEMMA PlacesShrink ==
  ASSUME OncePlaced, called \subseteq called', body' = body,
         ToSet(buf') \subseteq ToSet(buf),
         \A u \in Threads :
           /\ ToSet(out'[u]) \subseteq ToSet(out[u])
           /\ event'[u] \in {event[u], NoEvent}
           /\ thread'[u] \in {"record", "report"} =>
                thread[u] \in {"record", "report"} /\ event'[u] = event[u] /\ event[u] # NoEvent
           /\ thread'[u] \in {"send", "nested"} => thread[u] \in {"send", "nested"}
  PROVE  OncePlaced'
  <1>1. Posted' = Posted
    BY DEF Posted
  <1>2. Outgoing' \subseteq Outgoing
    BY ToSetPrime DEF Outgoing
  <1>3. ToSet(buf)' \subseteq ToSet(buf)
    BY ToSetPrime
  <1>4. ({event[t] : t \in Threads} \ {NoEvent})' \subseteq {event[t] : t \in Threads} \ {NoEvent}
    OBVIOUS
  <1>5. (ToSet(buf) \cup Outgoing \cup Posted \cup ({event[t] : t \in Threads} \ {NoEvent})
           \subseteq called)'
    BY <1>1, <1>2, <1>3, <1>4 DEF OncePlaced
  <1>6. ASSUME NEW t \in Threads, thread'[t] \in {"record", "report"}
        PROVE  /\ event'[t] \notin ToSet(buf)' \cup Outgoing' \cup Posted'
               /\ \A u \in Threads \ {t} : event'[u] # event'[t]
    BY <1>1, <1>2, <1>3, <1>6 DEF OncePlaced
  <1>7. ASSUME NEW t \in Threads, thread'[t] \in {"send", "nested"}
        PROVE  ToSet(out[t])' \cap Posted' = {}
    BY <1>1, <1>7, ToSetPrime DEF OncePlaced
  <1>8. QED
    BY <1>1, <1>3, <1>5, <1>6, <1>7 DEF OncePlaced

\* Releasing the lock forgets a batch.
LEMMA ReleaseShrinks ==
  ASSUME TypeOK, ThreadsOK, OncePlaced, NEW t \in Threads, thread[t] \in Flushing, Release(t),
         called' = called, body' = body
  PROVE  OncePlaced'
  <1>1. /\ out' = [out EXCEPT ![t] = <<>>] /\ buf' = buf
        /\ event' = [event EXCEPT ![t] = NoEvent]
        /\ \A u \in Threads : thread'[u] = thread[u] \/ thread'[u] \in {"unset", "app"}
    BY DEF Release, Return, Move, TypeOK, AgentTypeOK
  <1>2. \A u \in Threads : ToSet(out'[u]) \subseteq ToSet(out[u])
    BY <1>1, ToSetType DEF TypeOK, AgentTypeOK
  <1>3. \A u \in Threads : event'[u] \in {event[u], NoEvent}
    BY <1>1 DEF TypeOK, AgentTypeOK
  <1>4. ASSUME NEW u \in Threads, thread'[u] \in {"record", "report"}
        PROVE  thread[u] \in {"record", "report"} /\ event'[u] = event[u] /\ event[u] # NoEvent
    <2>1. thread[u] \in {"record", "report"} /\ u # t
      BY <1>1, <1>4 DEF Flushing
    <2>2. QED
      BY <1>1, <2>1 DEF ThreadsOK, TypeOK, AgentTypeOK
  <1>5. \A u \in Threads : thread'[u] \in {"send", "nested"} => thread[u] \in {"send", "nested"}
    BY <1>1
  <1>6. QED
    BY <1>1, <1>2, <1>3, <1>4, <1>5, PlacesShrink

\* A swap moves the buffer's events, with the one just reported if any, to the
\* batch of the thread that takes the lock.
LEMMA SwapPlaces ==
  ASSUME TypeOK, ThreadsOK, OncePlaced, NEW t \in Threads, lock = NoThread, NEW b \in Seq(Events),
         Swaps(t, b), called' = called, body' = body,
         \/ ToSet(b) = ToSet(buf)
         \/ thread[t] = "report" /\ ToSet(b) = ToSet(buf) \cup {event[t]}
  PROVE  OncePlaced'
  <1>1. /\ out' = [out EXCEPT ![t] = b] /\ buf' = <<>> /\ event' = event
        /\ thread' = [thread EXCEPT ![t] = "send"]
    BY DEF Swaps
  <1>2. \A u \in Threads : thread[u] \notin Flushing /\ out[u] = <<>>
    BY NobodyAssumption DEF ThreadsOK
  <1>3. Posted' = Posted
    BY DEF Posted
  <1>4. Outgoing = {} /\ Outgoing' = ToSet(b)
    BY <1>1, <1>2, ToSetPrime, ToSetType DEF Outgoing, TypeOK, AgentTypeOK
  <1>5. ToSet(buf)' = {}
    BY <1>1, ToSetPrime, ToSetType
  <1>6. ToSet(b) \subseteq called /\ ToSet(b) \cap Posted = {}
    <2>1. ToSet(buf) \subseteq called /\ ToSet(buf) \cap Posted = {}
      BY DEF OncePlaced
    <2>2. thread[t] = "report" => event[t] \in called /\ event[t] \notin Posted
      BY DEF OncePlaced, ThreadsOK
    <2>3. QED
      BY <2>1, <2>2
  <1>7. (ToSet(buf) \cup Outgoing \cup Posted \cup ({event[u] : u \in Threads} \ {NoEvent})
           \subseteq called)'
    BY <1>1, <1>3, <1>4, <1>5, <1>6 DEF OncePlaced
  <1>8. ASSUME NEW u \in Threads, thread'[u] \in {"record", "report"}
        PROVE  /\ event'[u] \notin ToSet(buf)' \cup Outgoing' \cup Posted'
               /\ \A w \in Threads \ {u} : event'[w] # event'[u]
    <2>1. u # t /\ thread[u] \in {"record", "report"}
      BY <1>1, <1>8 DEF TypeOK, AgentTypeOK
    <2>2. event[u] \notin ToSet(b)
      BY <2>1 DEF OncePlaced
    <2>3. QED
      BY <1>1, <1>3, <1>4, <1>5, <2>1, <2>2 DEF OncePlaced
  <1>9. ASSUME NEW u \in Threads, thread'[u] \in {"send", "nested"}
        PROVE  ToSet(out[u])' \cap Posted' = {}
    <2>1. u = t
      BY <1>1, <1>2, <1>9 DEF TypeOK, AgentTypeOK, Flushing
    <2>2. ToSet(out[u])' = ToSet(b)
      BY <1>1, <2>1, ToSetPrime DEF TypeOK, AgentTypeOK
    <2>3. QED
      BY <1>3, <1>6, <2>2
  <1>10. QED
    BY <1>3, <1>5, <1>7, <1>8, <1>9 DEF OncePlaced

\* A report that does not fill the buffer leaves its event there.
LEMMA LeavePlaces ==
  ASSUME TypeOK, ThreadsOK, OncePlaced, NEW t \in Threads, thread[t] = "report",
         Leaves(t, Append(buf, event[t]), "app"), called' = called, body' = body
  PROVE  OncePlaced'
  <1>1. /\ out' = out /\ event' = [event EXCEPT ![t] = NoEvent]
        /\ thread' = [thread EXCEPT ![t] = "app"]
    BY DEF Leaves
  <1>2. ToSet(buf)' = ToSet(buf) \cup {event[t]} /\ event[t] # NoEvent
    BY ToSetPrime, Buffered, NobodyAssumption DEF Leaves
  <1>3. Posted' = Posted
    BY DEF Posted
  <1>4. Outgoing' = Outgoing
    BY <1>1, ToSetPrime DEF Outgoing
  <1>5. (ToSet(buf) \cup Outgoing \cup Posted \cup ({event[u] : u \in Threads} \ {NoEvent})
           \subseteq called)'
    BY <1>1, <1>2, <1>3, <1>4 DEF OncePlaced, TypeOK, AgentTypeOK
  <1>6. ASSUME NEW u \in Threads, thread'[u] \in {"record", "report"}
        PROVE  /\ event'[u] \notin ToSet(buf)' \cup Outgoing' \cup Posted'
               /\ \A w \in Threads \ {u} : event'[w] # event'[u]
    <2>1. u # t /\ thread[u] \in {"record", "report"} /\ event'[u] = event[u] /\ event[u] # NoEvent
      BY <1>1, <1>6 DEF TypeOK, AgentTypeOK, ThreadsOK
    <2>2. event[u] # event[t]
      BY <2>1 DEF OncePlaced
    <2>3. QED
      BY <1>1, <1>2, <1>3, <1>4, <2>1, <2>2 DEF OncePlaced, TypeOK, AgentTypeOK
  <1>7. ASSUME NEW u \in Threads, thread'[u] \in {"send", "nested"}
        PROVE  ToSet(out[u])' \cap Posted' = {}
    BY <1>1, <1>3, <1>7, ToSetPrime DEF OncePlaced, TypeOK, AgentTypeOK
  <1>8. ToSet(buf)' \cap Posted' = {}
    BY <1>2, <1>3 DEF OncePlaced
  <1>9. QED
    BY <1>5, <1>6, <1>7, <1>8 DEF OncePlaced

\* A sink call brings an event nobody has had.
LEMMA CallPlaces ==
  ASSUME TypeOK, ThreadsOK, OncePlaced, NEW t \in Threads, NEW v \in Events, CallSink(t, v),
         body' = body
  PROVE  OncePlaced'
  <1>1. /\ v \notin called /\ v # NoEvent /\ called' = called \cup {v}
        /\ thread' = [thread EXCEPT ![t] = "record"] /\ event' = [event EXCEPT ![t] = v]
        /\ out' = out /\ buf' = buf
    BY NobodyAssumption DEF CallSink, Move
  <1>2. ToSet(buf)' = ToSet(buf) /\ Posted' = Posted /\ Outgoing' = Outgoing
    BY <1>1, ToSetPrime DEF Posted, Outgoing
  <1>3. \A u \in Threads : event'[u] = IF u = t THEN v ELSE event[u]
    BY <1>1 DEF TypeOK, AgentTypeOK
  <1>4. (ToSet(buf) \cup Outgoing \cup Posted \cup ({event[u] : u \in Threads} \ {NoEvent})
           \subseteq called)'
    BY <1>1, <1>2, <1>3 DEF OncePlaced
  <1>5. \A u \in Threads : event[u] # v
    BY <1>1 DEF OncePlaced
  <1>6. ASSUME NEW u \in Threads, thread'[u] \in {"record", "report"}
        PROVE  /\ event'[u] \notin ToSet(buf)' \cup Outgoing' \cup Posted'
               /\ \A w \in Threads \ {u} : event'[w] # event'[u]
    <2>1. CASE u = t
      BY <1>1, <1>2, <1>3, <1>5, <2>1 DEF OncePlaced
    <2>2. CASE u # t
      <3>1. thread[u] \in {"record", "report"}
        BY <1>1, <1>6, <2>2 DEF TypeOK, AgentTypeOK
      <3>2. QED
        BY <1>2, <1>3, <1>5, <2>2, <3>1 DEF OncePlaced
    <2>3. QED
      BY <2>1, <2>2
  <1>7. ASSUME NEW u \in Threads, thread'[u] \in {"send", "nested"}
        PROVE  ToSet(out[u])' \cap Posted' = {}
    BY <1>1, <1>2, <1>7, ToSetPrime DEF OncePlaced, TypeOK, AgentTypeOK
  <1>8. QED
    BY <1>1, <1>2, <1>4, <1>6, <1>7 DEF OncePlaced

\* A post copies the batch to a request that carried nothing.
LEMMA PostPlaces ==
  ASSUME TypeOK, RequestsOK, ThreadsOK, OncePlaced, NEW t \in Threads, NEW h \in Requests,
         AgentPosts(t, h)
  PROVE  OncePlaced'
  <1>1. /\ thread[t] = "send" /\ at[h] = "idle"
        /\ thread' = [thread EXCEPT ![t] = "wait"]
        /\ body' = [body EXCEPT ![h] = ToSet(out[t])]
        /\ UNCHANGED <<buf, event, out, called>>
    BY DEF AgentPosts, Post, Arrive, Move
  <1>2. lock = t /\ buf = <<>> /\ body[h] = {}
    BY <1>1, NobodyAssumption, Arrived DEF ThreadsOK, Flushing
  <1>3. \A g \in Requests : body'[g] = IF g = h THEN ToSet(out[t]) ELSE body[g]
    BY <1>1 DEF TypeOK, SessionTypeOK
  <1>4. Posted' = Posted \cup ToSet(out[t])
    BY <1>2, <1>3 DEF Posted
  <1>5. ToSet(buf)' = {} /\ Outgoing' = Outgoing
    BY <1>1, <1>2, ToSetPrime, ToSetType DEF Outgoing
  <1>6. ToSet(out[t]) \subseteq Outgoing /\ ToSet(out[t]) \cap Posted = {}
    BY <1>1 DEF OncePlaced, Outgoing
  <1>7. (ToSet(buf) \cup Outgoing \cup Posted \cup ({event[u] : u \in Threads} \ {NoEvent})
           \subseteq called)'
    BY <1>1, <1>4, <1>5, <1>6 DEF OncePlaced
  <1>8. ASSUME NEW u \in Threads, thread'[u] \in {"record", "report"}
        PROVE  /\ event'[u] \notin ToSet(buf)' \cup Outgoing' \cup Posted'
               /\ \A w \in Threads \ {u} : event'[w] # event'[u]
    <2>1. thread[u] \in {"record", "report"}
      BY <1>1, <1>8 DEF TypeOK, AgentTypeOK
    <2>2. QED
      BY <1>1, <1>4, <1>5, <1>6, <2>1 DEF OncePlaced
  <1>9. \A u \in Threads : thread'[u] \notin {"send", "nested"}
    BY <1>1, <1>2 DEF ThreadsOK, Flushing, TypeOK, AgentTypeOK
  <1>10. \A f, g \in Requests : f # g => body'[f] \cap body'[g] = {}
    BY <1>3, <1>6 DEF OncePlaced, Posted
  <1>11. QED
    BY <1>5, <1>7, <1>8, <1>9, <1>10 DEF OncePlaced

\* Only the agent's posts give a request events.
LEMMA Bodies ==
  ASSUME TypeOK, RequestsOK, [Next]_vars
  PROVE  \/ \E t \in Threads, h \in Requests : AgentPosts(t, h)
         \/ body' = body /\ UNCHANGED agentVars
         \/ body' = body /\ \E t \in Threads : \/ AgentAnswered(t) \/ AgentGivesUp(t)
                                               \/ AgentWorks(t) \/ Application(t)
  <1>1. ASSUME NEW h \in Requests, UserAsks(h) PROVE body' = body /\ UNCHANGED agentVars
    <2>1. at[h] = "idle" /\ body' = [body EXCEPT ![h] = {}] /\ UNCHANGED agentVars
      BY <1>1 DEF UserAsks, Arrive
    <2>2. body[h] = {}
      BY <2>1, Arrived
    <2>3. QED
      BY <2>1, <2>2 DEF TypeOK, SessionTypeOK
  <1>2. ASSUME Server PROVE body' = body /\ UNCHANGED agentVars
    BY <1>2 DEF Server, Create, Expire, Handle, Authenticate, ReadExisting, Insert, GetSession,
                MarkExpired, LoadRecord, Finalize, Die
  <1>3. ASSUME NEW t \in Threads, \/ AgentAnswered(t) \/ AgentGivesUp(t) \/ AgentWorks(t)
                                  \/ Application(t)
        PROVE  body' = body
    BY <1>3 DEF AgentAnswered, AgentGivesUp, AgentWorks, Application, sessionVars
  <1>4. ASSUME UNCHANGED vars PROVE body' = body /\ UNCHANGED agentVars
    BY <1>4 DEF vars, sessionVars
  <1>5. QED
    BY <1>1, <1>2, <1>3, <1>4 DEF Next, Agent, Proceeds

\* A step that moves no thread and no event.
LEMMA StillPlaces ==
  ASSUME ThreadsOK, OncePlaced, body' = body, UNCHANGED <<buf, out, event, thread, called>>
  PROVE  OncePlaced'
  <1>1. \A u \in Threads : thread'[u] \in {"record", "report"} => event[u] # NoEvent
    BY DEF ThreadsOK
  <1>2. QED
    BY <1>1, PlacesShrink

\* A step of a thread that takes no event up and leaves the batches alone.
LEMMA MovePlaces ==
  ASSUME TypeOK, ThreadsOK, OncePlaced, NEW t \in Threads, body' = body,
         UNCHANGED <<buf, out, called>>,
         NEW p, thread' = [thread EXCEPT ![t] = p], p \notin {"record", "send"},
         \/ event' = event
         \/ event' = [event EXCEPT ![t] = NoEvent] /\ p # "report",
         p = "report" => thread[t] = "record",
         p = "nested" => thread[t] = "send"
  PROVE  OncePlaced'
  <1>1. \A u \in Threads : /\ thread'[u] = IF u = t THEN p ELSE thread[u]
                           /\ \/ event'[u] = event[u]
                              \/ u = t /\ event'[u] = NoEvent /\ p # "report"
    <2>1. thread \in [Threads -> Places] /\ event \in [Threads -> Events \cup {NoEvent}]
      BY DEF TypeOK, AgentTypeOK
    <2>2. \A u \in Threads : thread'[u] = IF u = t THEN p ELSE thread[u]
      BY <2>1
    <2>3. ASSUME event' = [event EXCEPT ![t] = NoEvent], NEW u \in Threads, u # t
          PROVE  event'[u] = event[u]
      BY <2>1, <2>3
    <2>4. event' = [event EXCEPT ![t] = NoEvent] => event'[t] = NoEvent
      BY <2>1
    <2>5. QED
      BY <2>2, <2>3, <2>4
  <1>2. ASSUME NEW u \in Threads, thread'[u] \in {"record", "report"}
        PROVE  thread[u] \in {"record", "report"} /\ event'[u] = event[u] /\ event[u] # NoEvent
    BY <1>1, <1>2 DEF ThreadsOK
  <1>3. QED
    BY <1>1, <1>2, PlacesShrink

\* Every step keeps events in one place: a batch is out of the buffer before it
\* is posted.
LEMMA PlacesNext ==
  TypeOK /\ RequestsOK /\ ThreadsOK /\ OncePlaced /\ [Next]_vars => OncePlaced'
  <1> SUFFICES ASSUME TypeOK, RequestsOK, ThreadsOK, OncePlaced, [Next]_vars PROVE OncePlaced'
    OBVIOUS
  <1>1. ASSUME NEW t \in Threads, NEW h \in Requests, AgentPosts(t, h) PROVE OncePlaced'
    BY <1>1, PostPlaces
  <1>2. CASE body' = body /\ UNCHANGED agentVars
    BY <1>2, StillPlaces DEF agentVars
  <1>3. ASSUME body' = body, NEW t \in Threads, AgentAnswered(t) \/ AgentGivesUp(t) \/ PostFails(t)
        PROVE  OncePlaced'
    BY <1>3, ReleaseShrinks
       DEF AgentAnswered, TakeAnswer, AgentGivesUp, GiveUp, PostFails, Release, Flushing
  <1>4. ASSUME body' = body, NEW t \in Threads, FindReporter(t) PROVE OncePlaced'
    <2>1. CASE reporting
      BY <1>4, <2>1, MovePlaces DEF FindReporter, Move
    <2>2. CASE ~reporting
      BY <1>4, <2>2, MovePlaces DEF FindReporter, Move
    <2>3. QED
      BY <2>1, <2>2
  <1>5. ASSUME body' = body, NEW t \in Threads, Report(t) PROVE OncePlaced'
    <2>1. lock = NoThread /\ thread[t] = "report" /\ called' = called
      BY <1>5, ReportCases
    <2>2. /\ Append(buf, event[t]) \in Seq(Events)
          /\ ToSet(Append(buf, event[t])) = ToSet(buf) \cup {event[t]}
      BY <2>1, Buffered
    <2>3. CASE Swaps(t, Append(buf, event[t]))
      BY <1>5, <2>1, <2>2, <2>3, SwapPlaces
    <2>4. CASE Leaves(t, Append(buf, event[t]), "app")
      BY <1>5, <2>1, <2>4, LeavePlaces
    <2>5. QED
      BY <1>5, <2>3, <2>4, ReportCases
  <1>6. ASSUME body' = body, NEW t \in Threads, Import(t) PROVE OncePlaced'
    <2>1. CASE wrapped
      BY <1>6, <2>1, MovePlaces DEF Import, Move
    <2>2. CASE ~wrapped
      BY <1>6, <2>2, StillPlaces DEF Import
    <2>3. QED
      BY <2>1, <2>2
  <1>7. ASSUME body' = body, NEW t \in Threads, Flush(t) PROVE OncePlaced'
    <2>1. /\ lock = NoThread /\ thread[t] = "flush" /\ called' = called /\ buf \in Seq(Events)
      BY <1>7, FlushCases DEF TypeOK, AgentTypeOK
    <2>2. CASE Swaps(t, buf)
      BY <1>7, <2>1, <2>2, SwapPlaces
    <2>3. CASE Leaves(t, buf, "unset")
      BY <1>7, <2>1, <2>3, MovePlaces DEF Leaves
    <2>4. QED
      BY <1>7, <2>2, <2>3, FlushCases
  <1>8. ASSUME body' = body, NEW t \in Threads, Unset(t) PROVE OncePlaced'
    BY <1>8, MovePlaces DEF Unset, Move
  <1>9. ASSUME body' = body, NEW t \in Threads, Uninstrument(t) PROVE OncePlaced'
    BY <1>9, MovePlaces DEF Uninstrument, Move
  <1>10. ASSUME body' = body, NEW t \in Threads, NEW v \in Events, CallSink(t, v) PROVE OncePlaced'
    BY <1>10, CallPlaces
  <1>11. QED
    BY <1>1, <1>2, <1>3, <1>4, <1>5, <1>6, <1>7, <1>8, <1>9, <1>10, Bodies
       DEF AgentWorks, Application

-----------------------------------------------------------------------------
(* One ingest at a time *)

\* Nobody forgets a request it gave up.
LEMMA GaveUpGrows ==
  ASSUME TypeOK, [Next]_vars
  PROVE  gaveUp \subseteq gaveUp'
  BY AgentSteps DEF AgentStep, FindReporter, Report, Import, PostFails, Flush, Unset,
     Uninstrument, TakeAnswer, GiveUp, CallSink, Post, agentVars

\* The agent's lock: of the ingests not yet answered one at most is waited for.
LEMMA OneIngest ==
  ASSUME ThreadsOK, WaitOK, NEW g \in Requests \ gaveUp, NEW h \in Requests \ gaveUp,
         kind[g] = "ingest", kind[h] = "ingest", at[g] \notin Answered, at[h] \notin Answered
  PROVE  g = h
  <1>1. PICK t \in Threads : thread[t] = "wait" /\ awaits[t] = g
    BY DEF WaitOK
  <1>2. PICK u \in Threads : thread[u] = "wait" /\ awaits[u] = h
    BY DEF WaitOK
  <1>3. lock = t /\ lock = u
    BY <1>1, <1>2 DEF ThreadsOK, Flushing
  <1>4. QED
    BY <1>1, <1>2, <1>3

\* What a request about to insert has found recorded: all of it, or what it had
\* found before.
LEMMA Lookup ==
  ASSUME TypeOK, [Next]_vars, NEW h \in Requests, at'[h] = "insert"
  PROVE  \/ rows' = rows /\ known'[h] = {r.fp : r \in rows}
         \/ at[h] = "insert" /\ known'[h] = known[h]
  <1> USE DEF TypeOK, SessionTypeOK, Goto, Answer
  <1> DEFINE Looked == \/ rows' = rows /\ known'[h] = {r.fp : r \in rows}
                       \/ at[h] = "insert" /\ known'[h] = known[h]
  <1>1. ASSUME Create PROVE Looked
    BY <1>1 DEF Create
  <1>2. ASSUME Expire PROVE Looked
    BY <1>2 DEF Expire
  <1>3. ASSUME NEW g \in Requests, Authenticate(g) PROVE Looked
    BY <1>3 DEF Authenticate
  <1>4. ASSUME NEW g \in Requests, ReadExisting(g) PROVE Looked
    BY <1>4 DEF ReadExisting
  <1>5. ASSUME NEW g \in Requests, Insert(g) PROVE Looked
    BY <1>5 DEF Insert
  <1>6. ASSUME NEW g \in Requests, GetSession(g) PROVE Looked
    BY <1>6 DEF GetSession
  <1>7. ASSUME NEW g \in Requests, MarkExpired(g) PROVE Looked
    BY <1>7 DEF MarkExpired
  <1>8. ASSUME NEW g \in Requests, LoadRecord(g) PROVE Looked
    BY <1>8 DEF LoadRecord
  <1>9. ASSUME NEW g \in Requests, Finalize(g) PROVE Looked
    BY <1>9 DEF Finalize
  <1>10. ASSUME NEW g \in Requests, Die(g) PROVE Looked
    BY <1>10 DEF Die
  <1>11. ASSUME NEW g \in Requests, NEW k \in Kinds, NEW vs \in SUBSET Events, Arrives(g, k, vs) PROVE Looked
    BY <1>11 DEF Arrives, Arrive, FirstStatement, Kinds
  <1>12. CASE UNCHANGED sessionVars
    BY <1>12 DEF vars, sessionVars, agentVars
  <1> QED
    BY SessionSteps, <1>1, <1>2, <1>3, <1>4, <1>5, <1>6, <1>7, <1>8, <1>9,
       <1>10, <1>11, <1>12 DEF SessionStep, Handle

\* Rows come from inserts only.
LEMMA RowsGrow ==
  ASSUME TypeOK, [Next]_vars
  PROVE  \/ rows' = rows
         \/ \E h \in Requests : /\ at[h] = "insert" /\ at'[h] = "ok"
                                /\ rows' = rows \cup NewRows(h)
  BY SessionSteps
     DEF SessionStep, Handle, Create, Expire, Authenticate, ReadExisting, Insert, GetSession,
         MarkExpired, LoadRecord, Finalize, Die, Arrives, Arrive, Answer, Goto, sessionVars,
         TypeOK, SessionTypeOK

\* The requests somebody waits for look up and insert one after the other.
LEMMA SerialNext ==
  TypeOK /\ RequestsOK /\ ThreadsOK /\ WaitOK /\ SerialIngest /\ [Next]_vars => SerialIngest'
  <1> SUFFICES ASSUME TypeOK, RequestsOK, ThreadsOK, WaitOK, SerialIngest, [Next]_vars,
                      NEW h \in Requests, h \notin gaveUp', at'[h] = "insert",
                      NEW r \in rows', r.by \notin gaveUp'
               PROVE  r.fp \in known'[h]
    BY DEF SerialIngest
  <1>1. h \notin gaveUp /\ r.by \notin gaveUp
    BY GaveUpGrows
  <1>2. CASE rows' = rows /\ known'[h] = {q.fp : q \in rows}
    BY <1>2
  <1>3. CASE at[h] = "insert" /\ known'[h] = known[h]
    <2>1. CASE r \in rows
      BY <1>1, <1>3, <2>1 DEF SerialIngest
    <2>2. ASSUME NEW g \in Requests, at[g] = "insert", at'[g] = "ok", r \in NewRows(g)
          PROVE  FALSE
      <3>1. g \notin gaveUp
        BY <1>1, <2>2 DEF NewRows
      <3>2. kind[g] = "ingest" /\ kind[h] = "ingest"
        BY <1>3, <2>2, Arrived
      <3>3. g = h
        BY <1>1, <1>3, <2>2, <3>1, <3>2, OneIngest DEF Answered
      <3>4. QED
        BY <2>2, <3>3
    <2>3. QED
      BY <2>1, <2>2, RowsGrow
  <1>4. QED
    BY <1>2, <1>3, Lookup

\* A row added for a request that is waited for has a new fingerprint.
LEMMA DuplicatesNext ==
  TypeOK /\ SerialIngest /\ DuplicatesOnlyIfGaveUp /\ [Next]_vars => DuplicatesOnlyIfGaveUp'
  <1> SUFFICES ASSUME TypeOK, SerialIngest, DuplicatesOnlyIfGaveUp, [Next]_vars,
                      NEW r1 \in rows', NEW r2 \in rows', r1.fp = r2.fp,
                      r1.by \notin gaveUp', r2.by \notin gaveUp'
               PROVE  r1 = r2
    BY DEF DuplicatesOnlyIfGaveUp
  <1>1. r1.by \notin gaveUp /\ r2.by \notin gaveUp
    BY GaveUpGrows
  <1>2. CASE r1 \in rows /\ r2 \in rows
    BY <1>1, <1>2 DEF DuplicatesOnlyIfGaveUp
  <1>3. ASSUME NEW h \in Requests, at[h] = "insert", NEW q1 \in NewRows(h), q1.by \notin gaveUp,
               NEW q2 \in rows \cup NewRows(h), q2.by \notin gaveUp, q1.fp = q2.fp
        PROVE  q1 = q2
    <2>1. q1.by = h /\ q1.fp \notin known[h]
      BY DEF NewRows
    <2>2. q2 \notin rows
      BY <1>3, <2>1 DEF SerialIngest
    <2>3. QED
      BY <1>3, <2>2 DEF NewRows
  <1>4. QED
    BY <1>1, <1>2, <1>3, RowsGrow

-----------------------------------------------------------------------------
(* Where events are *)

Accounted(v) ==
  \/ v \in ToSet(buf) \cup dropped
  \/ \E t \in Threads : event[t] = v \/ v \in ToSet(out[t])
  \/ \E h \in Requests : v \in body[h] /\ at[h] # "ok"
  \/ \E r \in rows : r.fp = FingerprintOf[v]

\* What a request carries is answered as stored or not yet stored.
LEMMA Carried ==
  ASSUME RequestsOK', StoredOK', NEW h \in Requests, NEW v \in body'[h]
  PROVE  Accounted(v)'
  <1>1. kind'[h] = "ingest"
    BY DEF RequestsOK
  <1>2. CASE at'[h] # "ok"
    BY <1>2 DEF Accounted
  <1>3. CASE at'[h] = "ok"
    BY <1>1, <1>3 DEF StoredOK, Accounted
  <1>4. QED
    BY <1>2, <1>3

\* Requests keep their events, and rows are never removed.
LEMMA BodiesGrow ==
  ASSUME TypeOK, RequestsOK, [Next]_vars
  PROVE  /\ rows \subseteq rows'
         /\ \A h \in Requests : body[h] \subseteq body'[h]
  <1>1. ASSUME NEW t \in Threads, NEW g \in Requests, AgentPosts(t, g), NEW h \in Requests
        PROVE  body[h] \subseteq body'[h]
    <2>1. at[g] = "idle" /\ body' = [body EXCEPT ![g] = ToSet(out[t])]
      BY <1>1 DEF AgentPosts, Arrive
    <2>2. body[g] = {}
      BY <2>1, Arrived
    <2>3. QED
      BY <2>1, <2>2 DEF TypeOK, SessionTypeOK
  <1>2. QED
    BY <1>1, Bodies, RowsGrow

\* The events the agent still has, or knows it has dropped.
Has(v) ==
  \/ v \in ToSet(buf) \cup dropped
  \/ \E t \in Threads : event[t] = v \/ v \in ToSet(out[t])

\* A step that takes nothing away from the agent.
LEMMA KeptBy ==
  ASSUME NEW v \in Events, Has(v), UNCHANGED <<buf, out, dropped>>,
         \A u \in Threads : event'[u] = event[u] \/ event[u] = NoEvent
  PROVE  Has(v)'
  <1>1. ToSet(buf)' = ToSet(buf) /\ \A u \in Threads : ToSet(out[u])' = ToSet(out[u])
    BY DEF ToSet
  <1>2. QED
    BY <1>1, NobodyAssumption DEF Has

\* What is swapped out of the buffer is not lost.
LEMMA SwapKeeps ==
  ASSUME TypeOK, NEW v \in Events, Has(v), NEW t \in Threads, NEW b, Swaps(t, b),
         ToSet(buf) \subseteq ToSet(b), out[t] = <<>>, UNCHANGED dropped
  PROVE  Has(v)'
  <1>1. \A u \in Threads : ToSet(out[u])' = IF u = t THEN ToSet(b) ELSE ToSet(out[u])
    BY ToSetPrime DEF Swaps, TypeOK, AgentTypeOK
  <1>2. ToSet(out[t]) = {}
    BY ToSetType
  <1>3. QED
    BY <1>1, <1>2 DEF Has, Swaps

\* Nor is what is left in it.
LEMMA LeaveKeeps ==
  ASSUME TypeOK, NEW v \in Events, Has(v), NEW t \in Threads, NEW b, NEW p, Leaves(t, b, p),
         ToSet(buf) \subseteq ToSet(b), event[t] \in ToSet(b) \cup {NoEvent}, UNCHANGED dropped
  PROVE  Has(v)'
  <1>1. ToSet(buf)' = ToSet(b) /\ \A u \in Threads : ToSet(out[u])' = ToSet(out[u])
    BY ToSetPrime DEF Leaves, ToSet
  <1>2. \A u \in Threads \ {t} : event'[u] = event[u]
    BY DEF Leaves, TypeOK, AgentTypeOK
  <1>3. QED
    BY <1>1, <1>2, NobodyAssumption DEF Has

\* What is forgotten with the lock has been dropped, or is in a request.
LEMMA ReleaseKeeps ==
  ASSUME TypeOK, ThreadsOK, NEW v \in Events, Has(v), NEW t \in Threads, thread[t] \in Flushing,
         Release(t), dropped \subseteq dropped',
         \/ ToSet(out[t]) \subseteq dropped'
         \/ \E h \in Requests : ToSet(out[t]) = body[h]
  PROVE  Has(v)' \/ \E h \in Requests : v \in body[h]
  <1>1. /\ out' = [out EXCEPT ![t] = <<>>] /\ buf' = buf /\ event' = [event EXCEPT ![t] = NoEvent]
    BY DEF Release, Return
  <1>2. /\ ToSet(buf)' = ToSet(buf)
        /\ \A u \in Threads \ {t} : ToSet(out[u])' = ToSet(out[u]) /\ event'[u] = event[u]
    BY <1>1, ToSetPrime DEF TypeOK, AgentTypeOK
  <1>3. event[t] = v => v \in ToSet(out[t])
    BY NobodyAssumption DEF ThreadsOK
  <1>4. CASE v \in ToSet(out[t])
    BY <1>4 DEF Has
  <1>5. CASE v \notin ToSet(out[t])
    BY <1>2, <1>3, <1>5 DEF Has
  <1>6. QED
    BY <1>4, <1>5

\* While it reports, the agent loses no event it has not posted or dropped.
LEMMA AgentKeeps ==
  ASSUME TypeOK, ThreadsOK, WaitOK, [Next]_vars, NEW v \in Events, Has(v), reporting'
  PROVE  Has(v)' \/ \E h \in Requests : v \in body[h]
  <1> DEFINE Kept == Has(v)' \/ \E h \in Requests : v \in body[h]
  <1>1. ASSUME NEW t \in Threads, FindReporter(t) PROVE Kept
    BY <1>1, KeptBy DEF FindReporter
  <1>2. ASSUME NEW t \in Threads, Report(t) PROVE Kept
    <2>1. /\ event[t] \in Events /\ thread[t] = "report" /\ out[t] = <<>> /\ UNCHANGED dropped
          /\ ToSet(Append(buf, event[t])) = ToSet(buf) \cup {event[t]}
      BY <1>2, ReportCases, Buffered DEF ThreadsOK, Flushing
    <2>2. CASE Swaps(t, Append(buf, event[t]))
      BY <2>1, <2>2, SwapKeeps
    <2>3. CASE Leaves(t, Append(buf, event[t]), "app")
      BY <2>1, <2>3, LeaveKeeps
    <2>4. QED
      BY <1>2, <2>2, <2>3, ReportCases
  <1>3. ASSUME NEW t \in Threads, Import(t) PROVE Kept
    BY <1>3, KeptBy DEF Import
  <1>4. ASSUME NEW t \in Threads, PostFails(t) PROVE Kept
    BY <1>4, ReleaseKeeps DEF PostFails, Flushing
  <1>5. ASSUME NEW t \in Threads, Flush(t) PROVE Kept
    <2>1. event[t] = NoEvent /\ thread[t] = "flush" /\ out[t] = <<>> /\ UNCHANGED dropped
      BY <1>5, FlushCases DEF ThreadsOK, Flushing
    <2>2. CASE Swaps(t, buf)
      BY <2>1, <2>2, SwapKeeps
    <2>3. CASE Leaves(t, buf, "unset")
      BY <2>1, <2>3, LeaveKeeps
    <2>4. QED
      BY <1>5, <2>2, <2>3, FlushCases
  <1>6. ASSUME NEW t \in Threads, Unset(t) PROVE Kept
    BY <1>6, KeptBy DEF Unset
  <1>7. ASSUME NEW t \in Threads, Uninstrument(t) PROVE Kept
    BY <1>7, KeptBy DEF Uninstrument
  <1>8. ASSUME NEW t \in Threads, TakeAnswer(t) PROVE Kept
    BY <1>8, ReleaseKeeps DEF TakeAnswer, Flushing, WaitOK
  <1>9. ASSUME NEW t \in Threads, GiveUp(t) PROVE Kept
    BY <1>9, ReleaseKeeps DEF GiveUp, Flushing, WaitOK
  <1>10. ASSUME NEW t \in Threads, NEW e \in Events, CallSink(t, e) PROVE Kept
    <2>1. event[t] = NoEvent /\ event' = [event EXCEPT ![t] = e]
          /\ UNCHANGED <<buf, out, dropped>>
      BY <1>10 DEF CallSink, ThreadsOK
    <2>2. QED
      BY <2>1, KeptBy DEF TypeOK, AgentTypeOK
  <1>11. ASSUME NEW t \in Threads, NEW h \in Requests, Post(t, h) PROVE Kept
    BY <1>11, KeptBy DEF Post
  <1>12. CASE UNCHANGED agentVars
    BY <1>12, KeptBy DEF agentVars
  <1> QED
    BY AgentSteps, <1>1, <1>2, <1>3, <1>4, <1>5, <1>6, <1>7, <1>8, <1>9,
       <1>10, <1>11, <1>12 DEF AgentStep

\* Every step leaves every event where it was or where it goes next.
LEMMA AccountedNext ==
  ASSUME TypeOK, RequestsOK, RequestsOK', StoredOK', ThreadsOK, WaitOK, EveryEventAccountedFor,
         [Next]_vars
  PROVE  EveryEventAccountedFor'
  <1> SUFFICES ASSUME NEW v \in called', reporting' PROVE Accounted(v)'
    BY DEF EveryEventAccountedFor, Accounted
  <1>1. reporting /\ (v \in called \/ \E t \in Threads : event'[t] = v)
    BY AgentSteps DEF AgentStep, FindReporter, Report, Import, PostFails, Flush, Unset, Release,
       Uninstrument, TakeAnswer, GiveUp, CallSink, Post, agentVars, TypeOK, AgentTypeOK
  <1>2. CASE \E t \in Threads : event'[t] = v
    BY <1>2 DEF Accounted
  <1>3. CASE v \in called
    <2>1. v \in Events /\ Accounted(v)
      BY <1>1, <1>3 DEF EveryEventAccountedFor, Accounted, TypeOK, AgentTypeOK
    <2>2. CASE Has(v)
      <3>1. Has(v)' => Accounted(v)'
        BY DEF Has, Accounted
      <3>2. QED
        BY <2>1, <2>2, <3>1, AgentKeeps, Carried, BodiesGrow
    <2>3. CASE \E h \in Requests : v \in body[h]
      BY <2>3, Carried, BodiesGrow
    <2>4. CASE \E r \in rows : r.fp = FingerprintOf[v]
      BY <2>4, BodiesGrow DEF Accounted
    <2>5. QED
      BY <2>1, <2>2, <2>3, <2>4 DEF Accounted, Has
  <1>4. QED
    BY <1>1, <1>2, <1>3

-----------------------------------------------------------------------------
(* The end of a session *)

\* An answered finalize has closed the session, and nothing reopens it.
LEMMA FinalizeNext ==
  TypeOK /\ RequestsOK /\ RecordOK /\ FinalizeCloses /\ [Next]_vars => FinalizeCloses'
  <1> SUFFICES ASSUME TypeOK, RequestsOK, RecordOK, FinalizeCloses, [Next]_vars
               PROVE  FinalizeCloses'
    OBVIOUS
  <1> USE DEF TypeOK, SessionTypeOK, SessionStatus, RequestsOK, RecordOK, FinalizeCloses, Over,
              Statements, Answered, Kinds, Labels, Goto, Answer
  <1>1. ASSUME Create PROVE FinalizeCloses'
    BY <1>1 DEF Create
  <1>2. ASSUME Expire PROVE FinalizeCloses'
    BY <1>2 DEF Expire
  <1>3. ASSUME NEW h \in Requests, Authenticate(h) PROVE FinalizeCloses'
    BY <1>3 DEF Authenticate
  <1>4. ASSUME NEW h \in Requests, ReadExisting(h) PROVE FinalizeCloses'
    BY <1>4 DEF ReadExisting
  <1>5. ASSUME NEW h \in Requests, Insert(h) PROVE FinalizeCloses'
    BY <1>5 DEF Insert
  <1>6. ASSUME NEW h \in Requests, GetSession(h) PROVE FinalizeCloses'
    BY <1>6 DEF GetSession, Current
  <1>7. ASSUME NEW h \in Requests, MarkExpired(h) PROVE FinalizeCloses'
    BY <1>7 DEF MarkExpired
  <1>8. ASSUME NEW h \in Requests, LoadRecord(h) PROVE FinalizeCloses'
    BY <1>8 DEF LoadRecord
  <1>9. ASSUME NEW h \in Requests, Finalize(h) PROVE FinalizeCloses'
    BY <1>9 DEF Finalize
  <1>10. ASSUME NEW h \in Requests, Die(h) PROVE FinalizeCloses'
    BY <1>10 DEF Die
  <1>11. ASSUME NEW h \in Requests, NEW k \in Kinds, NEW vs \in SUBSET Events, Arrives(h, k, vs) PROVE FinalizeCloses'
    BY <1>11 DEF Arrives, Arrive, FirstStatement
  <1>12. CASE UNCHANGED sessionVars
    BY <1>12 DEF vars, sessionVars, agentVars
  <1> QED
    BY SessionSteps, <1>1, <1>2, <1>3, <1>4, <1>5, <1>6, <1>7, <1>8, <1>9,
       <1>10, <1>11, <1>12 DEF SessionStep, Handle

\* A request that is late on arrival has no row yet, and none that is late inserts.
LEMMA LateRowsNext ==
  ASSUME TypeOK, LateOK, LateRequestsAddNothing, [Next]_vars
  PROVE  LateRequestsAddNothing'
  <1>1. late' = late \/ \E h \in Requests : at[h] = "idle" /\ late' = late \cup {h} /\ rows' = rows
    BY SessionSteps
       DEF SessionStep, Handle, Create, Expire, Authenticate, ReadExisting, Insert, GetSession,
           MarkExpired, LoadRecord, Finalize, Die, Arrives, Arrive, sessionVars
  <1>2. \A h \in Requests : at[h] = "insert" => h \notin late
    BY DEF LateOK
  <1>3. ASSUME NEW h \in Requests, NEW r \in NewRows(h) PROVE r.by = h
    BY DEF NewRows
  <1>4. CASE late' = late
    BY <1>2, <1>3, <1>4, RowsGrow DEF LateRequestsAddNothing
  <1>5. CASE \E h \in Requests : at[h] = "idle" /\ late' = late \cup {h} /\ rows' = rows
    BY <1>5 DEF LateRequestsAddNothing, LateOK
  <1>6. QED
    BY <1>1, <1>4, <1>5

\* No step takes a session that is over back.
LEMMA NeverReopensNext ==
  ASSUME TypeOK, RecordOK, [Next]_vars
  PROVE  /\ session \in Over => session' # "active"
         /\ scan = "completed" => scan' = "completed"
  BY SessionSteps
     DEF SessionStep, Handle, Create, Expire, Authenticate, ReadExisting, Insert, GetSession,
         MarkExpired, LoadRecord, Finalize, Die, Arrives, Arrive, sessionVars,
         TypeOK, SessionTypeOK, RecordOK, Over

-----------------------------------------------------------------------------
(* The inductive invariant, and what follows from it *)

\* Everything above, as one invariant.
IInv ==
  /\ TypeOK
  /\ RequestsOK /\ RecordOK /\ LateOK /\ StoredOK /\ ThreadsOK /\ BufferBounded
  /\ WaitOK /\ OncePlaced /\ SerialIngest /\ DuplicatesOnlyIfGaveUp
  /\ EveryEventAccountedFor /\ FinalizeCloses /\ LateRequestsAddNothing

\* It holds when the agent has been started.
LEMMA IInvInit == Init => IInv
  <1> SUFFICES ASSUME Init PROVE IInv
    OBVIOUS
  <1> USE DEF Init, SessionInit, AgentInit
  <1>1. TypeOK
    BY BatchAssumption, NobodyAssumption, ToSetType
       DEF TypeOK, SessionTypeOK, AgentTypeOK, SessionStatus, Labels, Kinds, Places, Loaded
  <1>2. RequestsOK /\ RecordOK /\ LateOK /\ StoredOK
    BY DEF RequestsOK, RecordOK, LateOK, StoredOK, Statements
  <1>3. ThreadsOK /\ BufferBounded /\ WaitOK
    BY BatchAssumption, NobodyAssumption, ToSetType DEF ThreadsOK, BufferBounded, WaitOK, Flushing
  <1>4. OncePlaced
    BY ToSetType DEF OncePlaced, Outgoing, Posted
  <1>5. /\ SerialIngest /\ DuplicatesOnlyIfGaveUp /\ EveryEventAccountedFor
        /\ FinalizeCloses /\ LateRequestsAddNothing
    BY DEF SerialIngest, DuplicatesOnlyIfGaveUp, EveryEventAccountedFor, FinalizeCloses,
           LateRequestsAddNothing
  <1>6. QED
    BY <1>1, <1>2, <1>3, <1>4, <1>5 DEF IInv

\* And every step keeps it.
LEMMA IInvNext == IInv /\ [Next]_vars => IInv'
  <1> SUFFICES ASSUME IInv, [Next]_vars PROVE IInv'
    OBVIOUS
  <1> USE DEF IInv
  <1>1. TypeOK'
    BY SessionTypeNext, AgentTypeNext DEF TypeOK
  <1>2. RequestsOK' /\ RecordOK' /\ LateOK' /\ StoredOK'
    BY RequestsNext, RecordNext, LateNext, StoredNext
  <1>3. ThreadsOK' /\ BufferBounded' /\ WaitOK' /\ OncePlaced'
    BY ThreadsNext, BoundedNext, WaitNext, PlacesNext
  <1>4. SerialIngest' /\ DuplicatesOnlyIfGaveUp' /\ FinalizeCloses'
    BY SerialNext, DuplicatesNext, FinalizeNext
  <1>5. EveryEventAccountedFor'
    BY <1>2, AccountedNext
  <1>6. LateRequestsAddNothing'
    BY LateRowsNext
  <1>7. QED
    BY <1>1, <1>2, <1>3, <1>4, <1>5, <1>6

\* In every reachable state the inductive invariant holds.
THEOREM IInvAlways == Spec => []IInv
  BY IInvInit, IInvNext, PTL DEF Spec

\* Every variable keeps its type.
THEOREM TypeCorrect == Spec => []TypeOK
  BY IInvAlways, PTL DEF IInv

\* A request that arrives when the session is over adds no finding.
THEOREM LateAddsNothing == Spec => []LateRequestsAddNothing
  BY IInvAlways, PTL DEF IInv

\* An answered finalize has closed the session and completed its scan.
THEOREM Closes == Spec => []FinalizeCloses
  BY IInvAlways, PTL DEF IInv

\* A session that is over is never active again, nor its scan running.
THEOREM StaysClosed == Spec => NeverReopens
  <1>1. IInv /\ [Next]_vars =>
          [/\ session \in {"finalized", "expired"} => session' # "active"
           /\ scan = "completed" => scan' = "completed"]_sessionVars
    BY NeverReopensNext DEF IInv, Over
  <1>2. QED
    BY <1>1, IInvAlways, PTL DEF Spec, NeverReopens

\* The buffer is short of a batch whenever the lock is free, and whoever holds
\* the lock is flushing.
THEOREM Bounded == Spec => []BufferBounded
  BY IInvAlways, PTL DEF IInv

\* An event is in one request at most, and no longer in the buffer then.
THEOREM SentOnce == Spec => []SentAtMostOnce
  <1>1. IInv => SentAtMostOnce
    BY DEF IInv, OncePlaced, Posted, SentAtMostOnce
  <1>2. QED
    BY <1>1, IInvAlways, PTL

\* Two findings share a fingerprint only when the agent gave a request up.
THEOREM NoDuplicates == Spec => []DuplicatesOnlyIfGaveUp
  BY IInvAlways, PTL DEF IInv

\* While the agent reports, only a failed POST loses an event.
THEOREM NothingLost == Spec => []EveryEventAccountedFor
  BY IInvAlways, PTL DEF IInv
==============================================================================
