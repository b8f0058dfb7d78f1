----------------------------- MODULE ScanRequests -----------------------------
(***************************************************************************)
(* How scans come into being: POST /scans with its dry run and its         *)
(* idempotency key, inbound webhooks, and the registration of targets      *)
(* they are authorized by; then the planning of the scan from what was     *)
(* stored.  A request is one transaction at READ COMMITTED: each SELECT    *)
(* sees what is committed when it runs.  What an executor does after       *)
(* planning is module Scheduler.                                           *)
(***************************************************************************)
EXTENDS ScopeGuard, Naturals

CONSTANTS
  Requests,  \* requests; a scan is named by the one that created it
  None,      \* no request
  Bodies,    \* bodies of POST /scans
  NoKey,     \* the idempotency key of a body that has none
  EmptyKey,  \* the key "", which is stored but false when it is tested
  Targets,   \* rows of the targets table
  Projects,
  MaxAborts  \* requests whose transaction the database aborts

Override == [allow : SUBSET Patterns, deny : SUBSET Patterns]

ASSUME RequestsAssumption == None \notin Requests /\ MaxAborts \in Nat
ASSUME KeysAssumption == EmptyKey # NoKey
ASSUME BodiesAssumption ==
  \A b \in Bodies : /\ b.project \in Projects /\ b.class \in ScanClass
                    /\ b.hosts \subseteq Hosts /\ b.tools \subseteq Tools
                    /\ b.override \in Override
ASSUME TargetsAssumption ==
  \A t \in Targets : /\ t.project \in Projects /\ t.host \in Hosts
                     /\ t.kind \in {"git", "url"} /\ t.owned \in BOOLEAN
                     /\ t.allow \subseteq Patterns /\ t.deny \subseteq Patterns

VARIABLES
  registered,  \* targets committed so far; nothing removes or changes one
  stored,      \* scans committed
  outcome,     \* outcome[s]: what planning scan s came to
  queue,       \* queue[s]: deliveries of s not yet taken
  at,          \* at[q]: the next statement of request q
  kind,        \* kind[q]: which route
  body,        \* body[q]: what it asks for
  seen,        \* seen[q]: the targets it read
  scope,       \* scope[q]: the scope it resolved, stored with its scan
  answer,      \* answer[q]: the scan it returns
  overtaken,   \* keyed requests that looked up before another's commit
  aborts

database == <<registered, stored, outcome>>
input    == <<kind, body>>
locals   == <<seen, scope, answer>>
vars     == <<database, queue, at, input, locals, overtaken, aborts>>

Kinds == {"post", "dry", "inbound"}

\* "refused" is a 4xx, "conflict" the IntegrityError of the unique key, which
\* no handler of api/errors.py maps, "invalid" the response that is no ScanOut,
\* "aborted" any other error.
Answered == {"ok", "refused", "conflict", "invalid", "aborted"}

Labels == {"idle", "lookup", "resolve", "dryrun", "pick", "insert",
           "enqueue", "commit"} \cup Answered

NoScope == [allow |-> {}, deny |-> {}, owned |-> FALSE]

NoOverride == [allow |-> {}, deny |-> {}]

\* The request of an inbound trigger, for the target it picked.
InboundBody(t) ==
  [project |-> t.project, key |-> NoKey, class |-> "SAST", hosts |-> {t.host},
   override |-> NoOverride, tools |-> {}]

AllBodies == Bodies \cup {InboundBody(t) : t \in Targets}

\* No body, and that of a trigger that has not picked a target yet.
NoBody == [project |-> "none", key |-> NoKey]
BodyOf(p) == [project |-> p, key |-> NoKey]

AnyBody == AllBodies \cup {NoBody} \cup {BodyOf(p) : p \in Projects}

\* One type invariant for the module.
TypeOK ==
  /\ registered \subseteq Targets
  /\ stored \subseteq Requests
  /\ outcome \in [Requests -> {"none", "planned", "failed"}]
  /\ queue \in [Requests -> Nat]
  /\ at \in [Requests -> Labels]
  /\ kind \in [Requests -> Kinds \cup {"none"}]
  /\ body \in [Requests -> AnyBody]
  /\ \A q \in Requests : kind[q] \in {"post", "dry"} => body[q] \in Bodies
  /\ seen \in [Requests -> SUBSET Targets]
  /\ scope \in [Requests -> Scope]
  /\ answer \in [Requests -> Requests \cup {None}]
  /\ overtaken \subseteq Requests
  /\ aborts \in Nat

Init ==
  /\ registered = {} /\ stored = {}
  /\ outcome = [q \in Requests |-> "none"]
  /\ queue = [q \in Requests |-> 0]
  /\ at = [q \in Requests |-> "idle"]
  /\ kind = [q \in Requests |-> "none"]
  /\ body = [q \in Requests |-> NoBody]
  /\ seen = [q \in Requests |-> {}]
  /\ scope = [q \in Requests |-> NoScope]
  /\ answer = [q \in Requests |-> None]
  /\ overtaken = {} /\ aborts = 0

-----------------------------------------------------------------------------
(* Helpers *)

Goto(q, label) == at' = [at EXCEPT ![q] = label]

TargetsOf(project) == {t \in registered : t.project = project}

Keyed(q) == kind[q] = "post" /\ body[q].key # NoKey

SameKey(q, r) == Keyed(q) /\ Keyed(r) /\ body[q].key = body[r].key

\* Scans whose row is inserted by a transaction that is still open.
Inserted == {r \in Requests : at[r] \in {"enqueue", "commit"} /\ answer[r] = r}

\* Variant: the key is looked up among the project's own scans.
Existing_OfProject(q) ==
  {s \in stored : /\ SameKey(s, q) /\ body[q].key # EmptyKey
                  /\ body[s].project = body[q].project}

\* The stored scan with the key of q that create_scan selects, in a set; an
\* empty key is not looked up, but stored like any other.
Existing(q) == {s \in stored : SameKey(s, q) /\ body[q].key # EmptyKey}

\* The unique column: a committed row has the key of q.
KeyTaken(q) == \E s \in stored : SameKey(s, q)

-----------------------------------------------------------------------------
(* Registrations and arrivals *)

\* POST /projects/{id}/targets: one insert.
RegisterTarget(t) ==
  /\ t \notin registered
  /\ registered' = registered \cup {t}
  /\ UNCHANGED <<stored, outcome, queue, at, input, locals, overtaken, aborts>>

ArrivePost(q, b) ==
  /\ at[q] = "idle"
  /\ \/ kind' = [kind EXCEPT ![q] = "post"] /\ Goto(q, "lookup")
     \/ kind' = [kind EXCEPT ![q] = "dry"] /\ Goto(q, "dryrun")
  /\ body' = [body EXCEPT ![q] = b]
  /\ UNCHANGED <<database, queue, locals, overtaken, aborts>>

\* The signature is verified before anything else happens.
ArriveInbound(q, p) ==
  /\ at[q] = "idle"
  /\ kind' = [kind EXCEPT ![q] = "inbound"]
  /\ body' = [body EXCEPT ![q] = BodyOf(p)]
  /\ Goto(q, "pick")
  /\ UNCHANGED <<database, queue, locals, overtaken, aborts>>

-----------------------------------------------------------------------------
(* POST /scans *)

\* A stored scan with the same key is returned instead of a new one.
LookUp(q) ==
  /\ at[q] = "lookup"
  /\ IF Existing(q) = {}
     THEN Goto(q, "resolve") /\ UNCHANGED answer
     ELSE /\ \E s \in Existing(q) : answer' = [answer EXCEPT ![q] = s]
          /\ Goto(q, "enqueue")
  /\ UNCHANGED <<database, queue, input, seen, scope, overtaken, aborts>>

\* What q resolves from the targets it reads.
ReadScope(q) ==
  LET T == TargetsOf(body[q].project) IN
  /\ seen' = [seen EXCEPT ![q] = T]
  /\ scope' = [scope EXCEPT ![q] = ResolveScope(T, body[q].override)]

\* The scope is resolved, and enforced before anything is persisted.
Resolve(q) ==
  /\ at[q] = "resolve"
  /\ ReadScope(q)
  /\ Goto(q, IF Check(body[q].class, scope'[q], body[q].hosts)
             THEN "insert" ELSE "refused")
  /\ UNCHANGED <<database, queue, input, answer, overtaken, aborts>>

\* Variant: the dry run previews the scope decision only.
DryRun_ScopeOnly(q) ==
  /\ at[q] = "dryrun"
  /\ ReadScope(q)
  /\ Goto(q, IF Check(body[q].class, scope'[q], body[q].hosts) THEN "invalid" ELSE "refused")
  /\ UNCHANGED <<database, queue, input, answer, overtaken, aborts>>

\* dry_run: an error, or a plan that is no ScanOut, which the route's
\* response_model turns into a 500; nothing is stored nor enqueued.
DryRun(q) ==
  /\ at[q] = "dryrun"
  /\ ReadScope(q)
  /\ Goto(q, IF Plannable(body[q].class, scope'[q], body[q].hosts, body[q].tools)
             THEN "invalid" ELSE "refused")
  /\ UNCHANGED <<database, queue, input, answer, overtaken, aborts>>

\* Variant: the table has no unique key.
Insert_NotUnique(q) ==
  /\ at[q] = "insert"
  /\ answer' = [answer EXCEPT ![q] = q]
  /\ Goto(q, "enqueue")
  /\ UNCHANGED <<database, queue, input, seen, scope, overtaken, aborts>>

\* The flush: it waits for an open transaction that inserted the same key,
\* and fails if a committed row has it.
Insert(q) ==
  /\ at[q] = "insert"
  /\ \A r \in Inserted : ~SameKey(q, r)
  /\ IF KeyTaken(q)
     THEN Goto(q, "conflict") /\ UNCHANGED answer
     ELSE answer' = [answer EXCEPT ![q] = q] /\ Goto(q, "enqueue")
  /\ UNCHANGED <<database, queue, input, seen, scope, overtaken, aborts>>

-----------------------------------------------------------------------------
(* POST /webhooks/{id}/inbound *)

\* trigger_inbound reads one git target of the project, any one if there are
\* several, and stores that target's scope unchecked.
PickTarget(q) ==
  LET G == {t \in TargetsOf(body[q].project) : t.kind = "git"} IN
  /\ at[q] = "pick"
  /\ IF G = {}
     THEN Goto(q, "refused") /\ UNCHANGED <<body, seen, scope>>
     ELSE \E t \in G :
            /\ body' = [body EXCEPT ![q] = InboundBody(t)]
            /\ seen' = [seen EXCEPT ![q] = {t}]
            /\ scope' = [scope EXCEPT ![q] = ResolveScope({t}, NoOverride)]
            /\ Goto(q, "insert")
  /\ UNCHANGED <<database, queue, kind, answer, overtaken, aborts>>

-----------------------------------------------------------------------------
(* Both routes *)

\* The handler enqueues the scan and returns it, new or stored.
Enqueue(q) ==
  /\ at[q] = "enqueue"
  /\ queue' = [queue EXCEPT ![answer[q]] = @ + 1]
  /\ Goto(q, "commit")
  /\ UNCHANGED <<database, input, locals, overtaken, aborts>>

\* Requests with the key of q that are past its lookup, skipped or not.
LookedUp(q) == {r \in Requests \ {q} : at[r] \in {"resolve", "insert"} /\ SameKey(r, q)}

Commit(q) ==
  /\ at[q] = "commit"
  /\ stored' = stored \cup {answer[q]}
  /\ overtaken' = IF answer[q] = q THEN overtaken \cup LookedUp(q) ELSE overtaken
  /\ Goto(q, "ok")
  /\ UNCHANGED <<registered, outcome, queue, input, locals, aborts>>

\* The database fails: the transaction is rolled back.
Abort(q) ==
  /\ at[q] \notin {"idle"} \cup Answered
  /\ aborts < MaxAborts
  /\ aborts' = aborts + 1
  /\ Goto(q, "aborted")
  /\ UNCHANGED <<database, queue, input, locals, overtaken>>

-----------------------------------------------------------------------------
(* execute_scan up to the plan *)

\* Variant: the targets are read again when the scan is planned.
ScopeToPlan_Fresh(s) == ResolveScope(TargetsOf(body[s].project), body[s].override)

\* The scope an executor plans with: the one in the stored request.
ScopeToPlan(s) == scope[s]

\* Variant: the scope was enforced when the scan was created.
PlanScan_Trusting(s) ==
  /\ queue[s] > 0 /\ s \in stored /\ outcome[s] = "none"
  /\ queue' = [queue EXCEPT ![s] = @ - 1]
  /\ outcome' = [outcome EXCEPT ![s] =
       IF ToolsKnown(body[s].class, body[s].tools) THEN "planned" ELSE "failed"]
  /\ UNCHANGED <<registered, stored, at, input, locals, overtaken, aborts>>

\* A queued scan is planned from what is stored, scope check included.
PlanScan(s) ==
  /\ queue[s] > 0 /\ s \in stored /\ outcome[s] = "none"
  /\ queue' = [queue EXCEPT ![s] = @ - 1]
  /\ outcome' = [outcome EXCEPT ![s] =
       IF Plannable(body[s].class, ScopeToPlan(s), body[s].hosts, body[s].tools)
       THEN "planned" ELSE "failed"]
  /\ UNCHANGED <<registered, stored, at, input, locals, overtaken, aborts>>

\* Variant: a delivery is counted down twice.
SkipScan_Twice(s) ==
  /\ queue[s] > 0 /\ (s \notin stored \/ outcome[s] # "none")
  /\ queue' = [queue EXCEPT ![s] = @ - 2]
  /\ UNCHANGED <<database, at, input, locals, overtaken, aborts>>

\* No such row, or not queued any more: the delivery is dropped.
SkipScan(s) ==
  /\ queue[s] > 0 /\ (s \notin stored \/ outcome[s] # "none")
  /\ queue' = [queue EXCEPT ![s] = @ - 1]
  /\ UNCHANGED <<database, at, input, locals, overtaken, aborts>>

-----------------------------------------------------------------------------
Handle(q) ==
  \/ LookUp(q) \/ Resolve(q) \/ DryRun(q) \/ PickTarget(q)
  \/ Insert(q) \/ Enqueue(q) \/ Commit(q)

Next ==
  \/ \E t \in Targets : RegisterTarget(t)
  \/ \E q \in Requests :
       \/ \E b \in Bodies : ArrivePost(q, b)
       \/ \E p \in Projects : ArriveInbound(q, p)
       \/ Handle(q) \/ Abort(q) \/ PlanScan(q) \/ SkipScan(q)

Spec == Init /\ [][Next]_vars

-----------------------------------------------------------------------------
(* Properties *)

\* "Replaying the same key returns the same scan" (services/scans.py:35) of
\* POSTs that succeed: one scan is stored for a key, and each returns it.
KeyNamesOneScan ==
  \A q, r \in Requests :
    SameKey(q, r) /\ at[q] = "ok" /\ at[r] = "ok" =>
      answer[q] = answer[r] /\ answer[q] \in stored

\* A POST fails on the unique key only if another POST with its key committed
\* while it ran, or if the key is empty, which is never looked up: a replay of
\* a finished POST with any other key never fails (services/scans.py:36, :83).
ConflictNeedsOverlap ==
  \A q \in Requests : at[q] = "conflict" => q \in overtaken \/ body[q].key = EmptyKey

\* A scan POST accepted does not fail its scope check when it is planned,
\* whatever has been registered since: if planning fails, its tools are to
\* blame, which create_scan does not look at (scheduler.py:61-69).
AcceptedScopeHolds ==
  \A s \in stored : kind[s] = "post" /\ outcome[s] = "failed" =>
    ~ToolsKnown(body[s].class, body[s].tools)

\* A planned scan, whichever route created it and whatever was registered
\* since, is of a project that owns a target if its class is dangerous; each
\* of its hosts is denied by no target that was read nor by the request, and
\* allowed by such a target unless the request brings an allowlist of its own:
\* a request can widen its scope, and nothing else does (projects.py:78-95).
PlannedInScope ==
  \A s \in stored : outcome[s] = "planned" =>
    /\ body[s].class \in Dangerous => \E t \in TargetsOf(body[s].project) : t.owned
    /\ \A h \in body[s].hosts :
         /\ \A t \in seen[s] : ~MatchesAny(h, t.deny)
         /\ ~MatchesAny(h, body[s].override.deny)
         /\ body[s].override.allow = {} => \E t \in seen[s] : MatchesAny(h, t.allow)

\* A dry run, although its plan reaches nobody, foretells the POST of the same
\* body that reads the same targets: if it had a plan to show, the POST is not
\* refused and its scan is planned; if it is refused, the scan is not planned
\* (routes/scans.py:40-61).
DryRunForetells ==
  \A d, q \in Requests :
    kind[d] = "dry" /\ kind[q] = "post" /\ body[d] = body[q] /\ seen[d] = seen[q] =>
      /\ at[d] = "invalid" => at[q] # "refused" /\ outcome[q] # "failed"
      /\ at[d] = "refused" => outcome[q] # "planned"

-----------------------------------------------------------------------------
(* The strengthening that makes the properties above inductive. *)

\* A request's route fits its next statement, and its body fits its route.
RouteOK ==
  \A q \in Requests :
    /\ at[q] = "idle" <=> kind[q] = "none"
    /\ at[q] \in {"lookup", "resolve"} => kind[q] = "post"
    /\ at[q] = "insert" => kind[q] # "dry"
    /\ at[q] = "pick" => kind[q] = "inbound"
    /\ at[q] = "dryrun" => kind[q] = "dry"
    /\ kind[q] = "dry" => at[q] \in {"dryrun", "invalid", "refused", "aborted"}
    /\ at[q] = "invalid" => kind[q] = "dry"
    /\ at[q] \in {"idle", "lookup", "resolve", "dryrun", "pick", "insert"} => answer[q] = None

\* A request that answers does so with a scan of its own or with a stored one
\* of its key; a stored scan is the answer of the request that created it.
AnswerOK ==
  /\ \A s \in stored : at[s] = "ok" /\ answer[s] = s
  /\ \A q \in Requests : at[q] \in {"enqueue", "commit", "ok"} =>
       /\ answer[q] # q => answer[q] \in stored /\ SameKey(answer[q], q)
       /\ at[q] = "ok" => answer[q] \in stored

\* No two rows with one key, open transactions included.
UniqueOK == \A r, s \in stored \cup Inserted : SameKey(r, s) => r = s

\* Who looked up a key before it was taken has been overtaken.
LookedUpOK ==
  \A q \in Requests : at[q] \in {"resolve", "insert"} /\ KeyTaken(q) =>
    q \in overtaken \/ body[q].key = EmptyKey

\* q creates a scan: its scope is resolved and, for a POST, checked.
Creates(q) ==
  at[q] = "insert" \/ (at[q] \in {"enqueue", "commit", "ok"} /\ answer[q] = q)

\* The scope of a scan is the one of the targets its request read, all of its
\* project, and a POST's has passed the check.
ScopeOf(q) ==
  /\ body[q] \in AllBodies
  /\ seen[q] \subseteq TargetsOf(body[q].project)
  /\ scope[q] = ResolveScope(seen[q], body[q].override)
  /\ kind[q] = "post" => Check(body[q].class, scope[q], body[q].hosts)

ScopeOK == \A q \in Requests : Creates(q) => ScopeOf(q)

\* A planned scan was plannable, one that failed was not.
PlannedOK ==
  \A s \in Requests :
    /\ outcome[s] # "none" => s \in stored
    /\ outcome[s] # "none" =>
         (outcome[s] = "planned" <=>
            Plannable(body[s].class, scope[s], body[s].hosts, body[s].tools))

\* A dry run is answered by what can be planned, a POST refused by the check,
\* of the scope of the targets that were read.
VerdictOK ==
  \A q \in Requests : at[q] \in {"ok", "invalid", "refused"} =>
    LET S == ResolveScope(seen[q], body[q].override) IN
    /\ kind[q] = "dry" =>
         (at[q] = "invalid" <=> Plannable(body[q].class, S, body[q].hosts, body[q].tools))
    /\ kind[q] = "post" /\ at[q] = "refused" => ~Check(body[q].class, S, body[q].hosts)

IInv == RouteOK /\ AnswerOK /\ UniqueOK /\ LookedUpOK /\ ConflictNeedsOverlap
          /\ ScopeOK /\ PlannedOK /\ VerdictOK
==============================================================================
