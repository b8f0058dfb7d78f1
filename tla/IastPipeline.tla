----------------------------- MODULE IastPipeline -----------------------------
(***************************************************************************)
(* An IAST session end to end: the agent in the application posts batches  *)
(* of events, users read and finalize the session.  A POST of the agent is *)
(* a request of IastSession, and the posting thread waits for its answer.  *)
(***************************************************************************)
EXTENDS IastSession, IastAgent

ASSUME NoRequestAssumption == NoRequest \notin Requests

vars == <<sessionVars, agentVars>>

TypeOK ==
  /\ SessionTypeOK
  /\ AgentTypeOK(Requests)

Init ==
  /\ SessionInit
  /\ AgentInit

-----------------------------------------------------------------------------
(* The agent is started with the id and the token create_session returned. *)

AgentPosts(t, h) ==
  /\ Post(t, h)
  /\ Arrive(h, "ingest", ToSet(out[t]))

AgentAnswered(t) ==
  /\ awaits[t] # NoRequest /\ at[awaits[t]] \in Answered
  /\ TakeAnswer(t)
  /\ UNCHANGED sessionVars

AgentGivesUp(t) == GiveUp(t) /\ UNCHANGED sessionVars

AgentWorks(t) ==
  /\ \/ FindReporter(t) \/ Report(t) \/ Import(t)
     \/ PostFails(t) \/ Flush(t) \/ Unset(t)
  /\ UNCHANGED sessionVars

Application(t) ==
  /\ session # "absent"
  /\ Uninstrument(t) \/ \E v \in Events : CallSink(t, v)
  /\ UNCHANGED sessionVars

UserAsks(h) ==
  /\ Arrive(h, "get", {}) \/ Arrive(h, "finalize", {})
  /\ UNCHANGED agentVars

Server ==
  /\ Create \/ Expire \/ \E h \in Requests : Handle(h) \/ Die(h)
  /\ UNCHANGED agentVars

Proceeds(t) ==
  \/ \E h \in Requests : AgentPosts(t, h)
  \/ AgentAnswered(t) \/ AgentWorks(t)

Agent(t) == Proceeds(t) \/ AgentGivesUp(t)

Next ==
  \/ Server
  \/ \E h \in Requests : UserAsks(h)
  \/ \E t \in Threads : Agent(t) \/ Application(t)

Spec == Init /\ [][Next]_vars

\* Threads run, and the server works on a request until it is answered.
\* Giving up is possible and not fair: httpx's timeout is for each operation,
\* not for the whole POST.  Sinks need not be called nor users ask.
FairSpec ==
  /\ Spec
  /\ \A t \in Threads : WF_vars(Proceeds(t))
  /\ \A h \in Requests : WF_vars(Handle(h) /\ UNCHANGED agentVars)

-----------------------------------------------------------------------------
(* The strengthening that makes the properties below inductive. *)

\* A thread waits for the request it posted, which carries its batch; an
\* ingest nobody waits for is answered or was given up.
WaitOK ==
  /\ \A t \in Threads :
       /\ thread[t] # "wait" => awaits[t] = NoRequest
       /\ thread[t] = "wait" => /\ awaits[t] \in Requests
                               /\ kind[awaits[t]] = "ingest"
                               /\ body[awaits[t]] = ToSet(out[t])
  /\ \A h \in Requests \ gaveUp :
       kind[h] = "ingest" /\ at[h] \notin Answered =>
         \E t \in Threads : thread[t] = "wait" /\ awaits[t] = h

\* Where the events of sink calls are, from the swap to the server.
Outgoing == UNION {ToSet(out[t]) : t \in Threads}
Posted == UNION {body[h] : h \in Requests}

\* An event is of one sink call: not yet reported, in the buffer, in a batch
\* about to be posted or in one request.
OncePlaced ==
  /\ ToSet(buf) \cup Outgoing \cup Posted \cup ({event[t] : t \in Threads} \ {NoEvent})
       \subseteq called
  /\ ToSet(buf) \cap Posted = {}
  /\ \A t \in Threads :
       /\ thread[t] \in {"record", "report"} =>
            /\ event[t] \notin ToSet(buf) \cup Outgoing \cup Posted
            /\ \A u \in Threads \ {t} : event[u] # event[t]
       /\ thread[t] \in {"send", "nested"} => ToSet(out[t]) \cap Posted = {}
  /\ \A g, h \in Requests : g # h => body[g] \cap body[h] = {}

\* While somebody waits for a request about to insert, no other request that
\* anybody waits for stores anything it has not found.
SerialIngest ==
  \A h \in Requests \ gaveUp : at[h] = "insert" =>
    \A r \in rows : r.by \notin gaveUp => r.fp \in known[h]

-----------------------------------------------------------------------------
(* Properties *)

\* An event is sent at most once: once posted it is in no other request nor
\* in the buffer, although threads report while others flush
\* (reporter.py:43, the swap before the POST).
SentAtMostOnce ==
  \A h \in Requests : kind[h] = "ingest" =>
    /\ body[h] \cap ToSet(buf) = {}
    /\ \A g \in Requests : kind[g] = "ingest" /\ g # h => body[h] \cap body[g] = {}

\* The session's scan has two findings with one fingerprint only if the agent
\* stopped waiting for the request one of them is from: the lookup of
\* iast.py:201-208 is sound for requests one after the other, and it is the
\* agent's lock that makes them so.
DuplicatesOnlyIfGaveUp ==
  \A r1, r2 \in rows :
    r1.fp = r2.fp /\ r1 # r2 => r1.by \in gaveUp \/ r2.by \in gaveUp

\* While the agent is on, an event is being reported, buffered, on its way,
\* stored, or was in a batch whose POST failed: nothing else loses it.
EveryEventAccountedFor ==
  \A v \in called : reporting =>
    \/ v \in ToSet(buf) \cup dropped
    \/ \E t \in Threads : \/ event[t] = v
                          \/ v \in ToSet(out[t])
    \/ \E h \in Requests : v \in body[h] /\ at[h] # "ok"
    \/ \E r \in rows : r.fp = FingerprintOf[v]
==============================================================================
