-------------------------------- MODULE Webhooks --------------------------------
(***************************************************************************)
(* Outbound webhooks: api/services/webhooks.py and the create and delete   *)
(* routes.  A completed scan is told to every hook that matches, one       *)
(* request after the other, in one transaction that listed the hooks       *)
(* first; hooks are created and deleted meanwhile.                         *)
(***************************************************************************)
EXTENDS Naturals, Sequences, FiniteSets, SequencesExt

CONSTANTS
  HookOf,          \* HookOf[h]: [direction, project, url, active, events]
  EarlyHooks,      \* hooks there are from the start, the latest first
  NewHooks,        \* hooks somebody may create
  ScanProject,     \* the project of the scan
  MaxHookChanges   \* bound on creations and deletions

ASSUME HooksAssumption ==
  /\ ToSet(EarlyHooks) \cup NewHooks \subseteq DOMAIN HookOf
  /\ ToSet(EarlyHooks) \cap NewHooks = {}
  /\ EarlyHooks \in Seq(ToSet(EarlyHooks)) /\ IsInjective(EarlyHooks)
  /\ MaxHookChanges \in Nat

VARIABLES
  hooks,     \* the committed rows, the latest first
  changes,   \* creations and deletions so far
  delivery,  \* of the completion: "none", "posting", "done" or "cut" short
  pending,   \* the listed hooks not looked at yet
  told       \* the hooks posted to, in order, and what came of it

hookVars == <<hooks, changes, delivery, pending, told>>

Answer == {"answered", "unreachable"}

HooksTypeOK ==
  /\ ToSet(hooks) \cup ToSet(pending) \subseteq ToSet(EarlyHooks) \cup NewHooks
  /\ changes \in 0..MaxHookChanges
  /\ delivery \in {"none", "posting", "done", "cut"}
  /\ told \in Seq([hook : DOMAIN HookOf, answer : Answer])

HooksInit ==
  /\ hooks = EarlyHooks /\ changes = 0
  /\ delivery = "none" /\ pending = <<>> /\ told = <<>>

-----------------------------------------------------------------------------

\* create: a direction, and a URL if it is outbound.  list_webhooks has the
\* latest first.
Creatable(h) ==
  /\ HookOf[h].direction \in {"outbound", "inbound"}
  /\ HookOf[h].direction = "outbound" => HookOf[h].url

CreateHook(h) ==
  /\ h \in NewHooks \ ToSet(hooks) /\ Creatable(h)
  /\ changes < MaxHookChanges /\ changes' = changes + 1
  /\ hooks' = <<h>> \o hooks
  /\ UNCHANGED <<delivery, pending, told>>

DeleteHook(h) ==
  /\ h \in ToSet(hooks)
  /\ changes < MaxHookChanges /\ changes' = changes + 1
  /\ \E i \in DOMAIN hooks : hooks[i] = h /\ hooks' = RemoveAt(hooks, i)
  /\ UNCHANGED <<delivery, pending, told>>

-----------------------------------------------------------------------------
(* deliver *)

\* notify_scan_completed: list_webhooks.
ListHooks ==
  /\ delivery = "none"
  /\ delivery' = "posting" /\ pending' = hooks
  /\ UNCHANGED <<hooks, changes, told>>

\* Variant: a hook of another project is told as well.
Matches_AnyProject(h) ==
  /\ HookOf[h].direction = "outbound" /\ HookOf[h].active /\ HookOf[h].url
  /\ "scan.completed" \in HookOf[h].events

Matches(h) ==
  /\ HookOf[h].direction = "outbound" /\ HookOf[h].active /\ HookOf[h].url
  /\ "scan.completed" \in HookOf[h].events
  /\ HookOf[h].project \in {"all", ScanProject}

SkipHook ==
  /\ delivery = "posting" /\ pending # <<>> /\ ~Matches(Head(pending))
  /\ pending' = Tail(pending)
  /\ UNCHANGED <<hooks, changes, delivery, told>>

\* An answer of any status counts as delivered; one that never comes is logged.
PostHook ==
  /\ delivery = "posting" /\ pending # <<>> /\ Matches(Head(pending))
  /\ \E answer \in Answer : told' = Append(told, [hook |-> Head(pending), answer |-> answer])
  /\ pending' = Tail(pending)
  /\ UNCHANGED <<hooks, changes, delivery>>

EndDelivery ==
  /\ delivery = "posting" /\ pending = <<>>
  /\ delivery' = "done"
  /\ UNCHANGED <<hooks, changes, pending, told>>

\* The execution is cancelled, or its worker dies, between two requests.
\* Nobody delivers the rest.
CutDelivery ==
  /\ delivery' = IF delivery = "done" THEN "done" ELSE "cut"
  /\ pending' = <<>>
  /\ UNCHANGED <<hooks, changes, told>>

HookChange ==
  \/ \E h \in NewHooks : CreateHook(h)
  \/ \E h \in ToSet(hooks) : DeleteHook(h)
==============================================================================
