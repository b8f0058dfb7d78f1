------------------------------ MODULE IastAgent ------------------------------
(***************************************************************************)
(* The Python IAST agent inside an application: the sink wrappers of       *)
(* omniscan_iast/agent.py and the HttpReporter of reporter.py, whose lock  *)
(* is a plain threading.Lock that a thread cannot take twice.              *)
(*                                                                         *)
(* builtins.exec is a sink, and the import system runs every module with   *)
(* it: an import of the application is a sink call like any other, and so  *)
(* are the first "import httpx" of the reporter itself and the imports     *)
(* inside the first httpx.post (httpcore, certifi, ssl).                   *)
(***************************************************************************)
EXTENDS IastEvents, Naturals, Sequences, SequencesExt

CONSTANTS
  Threads,   \* threads of the application
  NoThread, NoEvent, NoRequest,
  Batch,     \* events per POST
  Preloads   \* what may be loaded of httpx before the agent starts

\* Nothing of httpx, the package itself, or all that a POST imports.
Loaded == {"nothing", "httpx", "transport"}

ASSUME BatchAssumption == Batch \in Nat \ {0} /\ Preloads \subseteq Loaded
ASSUME NobodyAssumption == NoThread \notin Threads /\ NoEvent \notin Events

VARIABLES
  wrapped,    \* the sinks are wrapped
  reporting,  \* _reporter is set
  loaded,     \* what is loaded of httpx
  lock,       \* the thread that holds _lock
  buf,        \* _buf
  thread,     \* thread[t]: where t is
  event,      \* event[t]: the event t is reporting
  out,        \* out[t]: the batch t has swapped out of _buf
  awaits,     \* awaits[t]: the request t waits for
  called,     \* events whose sink was called
  dropped,    \* events of batches whose POST did not reach the server
  gaveUp      \* requests a thread stopped waiting for

reporter  == <<wrapped, reporting, loaded>>
history   == <<called, dropped, gaveUp>>
agentVars == <<reporter, lock, buf, thread, event, out, awaits, history>>

Places == {"app", "record", "report", "flush", "send", "nested", "wait", "unset"}

AgentTypeOK(Requests) ==
  /\ wrapped \in BOOLEAN /\ reporting \in BOOLEAN /\ loaded \in Loaded
  /\ lock \in Threads \cup {NoThread}
  /\ buf \in Seq(Events)
  /\ thread \in [Threads -> Places]
  /\ event \in [Threads -> Events \cup {NoEvent}]
  /\ out \in [Threads -> Seq(Events)]
  /\ awaits \in [Threads -> Requests \cup {NoRequest}]
  /\ called \in SUBSET Events /\ dropped \in SUBSET Events
  /\ gaveUp \in SUBSET Requests

\* instrument() has run.
AgentInit ==
  /\ wrapped = TRUE /\ reporting = TRUE
  /\ loaded \in Preloads
  /\ lock = NoThread /\ buf = <<>>
  /\ thread = [t \in Threads |-> "app"]
  /\ event = [t \in Threads |-> NoEvent]
  /\ out = [t \in Threads |-> <<>>]
  /\ awaits = [t \in Threads |-> NoRequest]
  /\ called = {} /\ dropped = {} /\ gaveUp = {}

-----------------------------------------------------------------------------
Move(t, place) == thread' = [thread EXCEPT ![t] = place]

\* t leaves _flush_locked: back to the application, or to the rest of
\* uninstrument().
Return(t) ==
  /\ Move(t, IF event[t] = NoEvent THEN "unset" ELSE "app")
  /\ event' = [event EXCEPT ![t] = NoEvent]

\* _flush_locked: the buffer is swapped out before the POST.
Swap(t, events) ==
  /\ lock' = t
  /\ out' = [out EXCEPT ![t] = events]
  /\ buf' = <<>>
  /\ Move(t, "send")

\* t calls a sink through its wrapper; _record makes the event.
CallSink(t, v) ==
  /\ thread[t] = "app"
  /\ v \notin called
  /\ wrapped
  /\ event' = [event EXCEPT ![t] = v]
  /\ called' = called \cup {v}
  /\ Move(t, "record")
  /\ UNCHANGED <<reporter, lock, buf, out, awaits, dropped, gaveUp>>

\* _record reads _reporter twice; None the first time skips the report, None
\* the second time raises, and the wrapper swallows it.
FindReporter(t) ==
  /\ thread[t] = "record"
  /\ IF reporting
     THEN Move(t, "report") /\ UNCHANGED event
     ELSE Move(t, "app") /\ event' = [event EXCEPT ![t] = NoEvent]
  /\ UNCHANGED <<reporter, lock, buf, out, awaits, history>>

\* Variant: a full buffer is flushed without the event that fills it.
Report_ForgetsEvent(t) ==
  /\ thread[t] = "report"
  /\ lock = NoThread
  /\ IF Len(buf) + 1 >= Batch /\ buf # <<>>
     THEN Swap(t, buf) /\ UNCHANGED event
     ELSE buf' = Append(buf, event[t]) /\ Return(t) /\ UNCHANGED <<lock, out>>
  /\ UNCHANGED <<reporter, awaits, history>>

\* Variant: ">" for ">=".
Report_OneMore(t) ==
  /\ thread[t] = "report"
  /\ lock = NoThread
  /\ LET events == Append(buf, event[t]) IN
       IF Len(events) > Batch
       THEN Swap(t, events) /\ UNCHANGED event
       ELSE /\ buf' = events
            /\ Return(t)
            /\ UNCHANGED <<lock, out>>
  /\ UNCHANGED <<reporter, awaits, history>>

\* Variant: the batch is not taken out of the buffer.
Report_KeepsBuffer(t) ==
  /\ thread[t] = "report"
  /\ lock = NoThread
  /\ buf' = Append(buf, event[t])
  /\ IF Len(buf') >= Batch
     THEN lock' = t /\ out' = [out EXCEPT ![t] = buf'] /\ Move(t, "send") /\ UNCHANGED event
     ELSE Return(t) /\ UNCHANGED <<lock, out>>
  /\ UNCHANGED <<reporter, awaits, history>>

\* report: the event is buffered; the lock is kept for a full batch.
Report(t) ==
  /\ thread[t] = "report"
  /\ lock = NoThread
  /\ LET events == Append(buf, event[t]) IN
       IF Len(events) >= Batch
       THEN Swap(t, events) /\ UNCHANGED event
       ELSE /\ buf' = events
            /\ Return(t)
            /\ UNCHANGED <<lock, out>>
  /\ UNCHANGED <<reporter, awaits, history>>

\* "import httpx" for the first time, or the imports inside the first
\* httpx.post: their modules are run by exec.  If exec is wrapped, the thread
\* calls report again and waits for the lock it holds itself: no step leads on
\* from there.  Otherwise the import succeeds.
Import(t) ==
  /\ thread[t] = "send"
  /\ loaded # "transport"
  /\ IF wrapped
     THEN Move(t, "nested") /\ UNCHANGED loaded
     ELSE /\ loaded' = IF loaded = "nothing" THEN "httpx" ELSE "transport"
          /\ UNCHANGED thread
  /\ UNCHANGED <<wrapped, reporting, lock, buf, event, out, awaits, history>>

\* httpx.post: the batch goes out as request h.
Post(t, h) ==
  /\ thread[t] = "send"
  /\ loaded = "transport"
  /\ awaits' = [awaits EXCEPT ![t] = h]
  /\ Move(t, "wait")
  /\ UNCHANGED <<reporter, lock, buf, event, out, history>>

\* Variant: the lock is not released.
Release_KeepsLock(t) ==
  /\ out' = [out EXCEPT ![t] = <<>>]
  /\ awaits' = [awaits EXCEPT ![t] = NoRequest]
  /\ Return(t)
  /\ UNCHANGED <<reporter, lock, buf, called>>

\* The lock is released and the batch forgotten, whatever became of it.
Release(t) ==
  /\ lock' = NoThread
  /\ out' = [out EXCEPT ![t] = <<>>]
  /\ awaits' = [awaits EXCEPT ![t] = NoRequest]
  /\ Return(t)
  /\ UNCHANGED <<reporter, buf, called>>

\* The POST fails before the server has it: the exception is dropped.
PostFails(t) ==
  /\ thread[t] = "send"
  /\ loaded = "transport"
  /\ dropped' = dropped \cup ToSet(out[t])
  /\ Release(t)
  /\ UNCHANGED gaveUp

\* The request is answered; no status is looked at.
TakeAnswer(t) ==
  /\ thread[t] = "wait"
  /\ Release(t)
  /\ UNCHANGED <<dropped, gaveUp>>

\* The timeout or a broken connection: the exception is dropped, and the
\* server may still be at work.
GiveUp(t) ==
  /\ thread[t] = "wait"
  /\ gaveUp' = gaveUp \cup {awaits[t]}
  /\ Release(t)
  /\ UNCHANGED dropped

\* uninstrument: the sinks are restored ...
Uninstrument(t) ==
  /\ thread[t] = "app"
  /\ wrapped
  /\ wrapped' = FALSE
  /\ Move(t, "flush")
  /\ UNCHANGED <<reporting, loaded, lock, buf, event, out, awaits, history>>

\* ... the buffer is flushed ...
Flush(t) ==
  /\ thread[t] = "flush"
  /\ lock = NoThread
  /\ IF buf = <<>>
     THEN Return(t) /\ UNCHANGED <<lock, out, buf>>
     ELSE Swap(t, buf) /\ UNCHANGED event
  /\ UNCHANGED <<reporter, awaits, history>>

\* ... and _reporter is reset.
Unset(t) ==
  /\ thread[t] = "unset"
  /\ reporting' = FALSE
  /\ Move(t, "app")
  /\ UNCHANGED <<wrapped, loaded, lock, buf, event, out, awaits, history>>

-----------------------------------------------------------------------------
(* Properties *)

\* The statements of _flush_locked from the swap on.
Flushing == {"send", "nested", "wait"}

\* The lock, the threads in _flush_locked, the buffer and the batches agree:
\* who is past the swap holds the lock, and meanwhile the buffer is empty.
ThreadsOK ==
  /\ lock # NoThread => buf = <<>>
  /\ \A t \in Threads :
       /\ thread[t] \in Flushing <=> lock = t
       /\ thread[t] \notin Flushing => out[t] = <<>>
       /\ thread[t] \in {"app", "flush", "unset"} => event[t] = NoEvent
       /\ thread[t] \in {"record", "report"} => event[t] # NoEvent
       /\ thread[t] \in Flushing /\ event[t] # NoEvent => event[t] \in ToSet(out[t])

\* Between calls the buffer is short of a batch, and a thread that is not in
\* _flush_locked never keeps the lock (reporter.py:30-38).
BufferBounded ==
  /\ lock = NoThread => Len(buf) < Batch
  /\ lock # NoThread => thread[lock] \in {"send", "nested", "wait"}

\* A sink call returns to the application (agent.py:3-5, "it never blocks the
\* app"): whoever holds the lock releases it, provided the server answers.
SinkCallReturns == \A t \in Threads : thread[t] = "report" ~> thread[t] = "app"
==============================================================================
