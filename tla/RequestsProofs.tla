---------------------------- MODULE RequestsProofs ----------------------------
(***************************************************************************)
(* TLAPS proofs about ScanRequests, for every set of requests, bodies,     *)
(* targets and projects.                                                   *)
(***************************************************************************)
EXTENDS ScanRequests, TLAPS

USE DEF database, input, locals

\* Resolving a scope from targets of the table gives a scope.
LEMMA ResolveType ==
  ASSUME NEW T \in SUBSET Targets, NEW o \in Override
  PROVE  ResolveScope(T, o) \in Scope
  <1>1. \A t \in T : t.allow \subseteq Patterns /\ t.deny \subseteq Patterns
    BY TargetsAssumption
  <1>2. Allowlists(T) \subseteq Patterns
    BY <1>1 DEF Allowlists
  <1>3. Denylists(T) \subseteq Patterns
    BY <1>1 DEF Denylists
  <1>4. o.allow \subseteq Patterns /\ o.deny \subseteq Patterns
    BY DEF Override
  <1> QED
    BY <1>2, <1>3, <1>4 DEF ResolveScope, Scope

\* A trigger finds no git target ...
PicksNone(q) == Goto(q, "refused") /\ UNCHANGED <<body, seen, scope>>

\* ... or takes t.
Picks(q, t) ==
  /\ body' = [body EXCEPT ![q] = InboundBody(t)]
  /\ seen' = [seen EXCEPT ![q] = {t}]
  /\ scope' = [scope EXCEPT ![q] = ResolveScope({t}, NoOverride)]
  /\ Goto(q, "insert")

\* There is no third case.
LEMMA PickCases ==
  ASSUME NEW q \in Requests, PickTarget(q)
  PROVE  PicksNone(q) \/ \E t \in TargetsOf(body[q].project) : Picks(q, t)
  BY DEF PickTarget, PicksNone, Picks

\* Every step keeps the types.
LEMMA TypeNext == TypeOK /\ RouteOK /\ AnswerOK /\ [Next]_vars => TypeOK'
  <1> SUFFICES ASSUME TypeOK, RouteOK, AnswerOK, [Next]_vars PROVE TypeOK'
    OBVIOUS
  <1> USE RequestsAssumption, BodiesAssumption, TargetsAssumption
          DEF TypeOK, Goto, Labels, Answered, Kinds
  <1>1. ASSUME NEW t \in Targets, RegisterTarget(t) PROVE TypeOK'
    BY <1>1 DEF RegisterTarget
  <1>2. ASSUME NEW q \in Requests, NEW b \in Bodies, ArrivePost(q, b) PROVE TypeOK'
    BY <1>2 DEF ArrivePost, AnyBody, AllBodies
  <1>3. ASSUME NEW q \in Requests, NEW p \in Projects, ArriveInbound(q, p) PROVE TypeOK'
    BY <1>3 DEF ArriveInbound, AnyBody
  <1>4. ASSUME NEW q \in Requests, LookUp(q) PROVE TypeOK'
    BY <1>4 DEF LookUp, Existing
  <1>5. ASSUME NEW q \in Requests, Resolve(q) PROVE TypeOK'
    BY <1>5, ResolveType DEF Resolve, ReadScope, RouteOK, TargetsOf
  <1>6. ASSUME NEW q \in Requests, DryRun(q) PROVE TypeOK'
    BY <1>6, ResolveType DEF DryRun, ReadScope, RouteOK, TargetsOf
  <1>7. ASSUME NEW q \in Requests, PickTarget(q) PROVE TypeOK'
    <2>1. CASE PicksNone(q)
      BY <1>7, <2>1 DEF PickTarget, PicksNone
    <2>2. ASSUME NEW t \in TargetsOf(body[q].project), Picks(q, t) PROVE TypeOK'
      <3>1. t \in Targets /\ NoOverride \in Override
        BY <2>2 DEF TargetsOf, NoOverride, Override
      <3>2. InboundBody(t) \in AnyBody
        BY <3>1 DEF AnyBody, AllBodies
      <3>3. ResolveScope({t}, NoOverride) \in Scope
        BY <3>1, ResolveType
      <3> QED
        BY <1>7, <2>2, <3>1, <3>2, <3>3 DEF PickTarget, Picks, RouteOK
    <2> QED
      BY <1>7, <2>1, <2>2, PickCases
  <1>8. ASSUME NEW q \in Requests, Insert(q) PROVE TypeOK'
    BY <1>8 DEF Insert
  <1>9. ASSUME NEW q \in Requests, Enqueue(q) PROVE TypeOK'
    BY <1>9 DEF Enqueue, RouteOK, AnswerOK
  <1>10. ASSUME NEW q \in Requests, Commit(q) PROVE TypeOK'
    <2>1. answer[q] \in Requests
      BY <1>10 DEF Commit, RouteOK, AnswerOK
    <2> QED
      BY <1>10, <2>1 DEF Commit, LookedUp
  <1>11. ASSUME NEW q \in Requests, Abort(q) PROVE TypeOK'
    BY <1>11 DEF Abort
  <1>12. ASSUME NEW q \in Requests, PlanScan(q) PROVE TypeOK'
    BY <1>12 DEF PlanScan
  <1>13. ASSUME NEW q \in Requests, SkipScan(q) PROVE TypeOK'
    BY <1>13 DEF SkipScan
  <1>14. CASE UNCHANGED vars
    BY <1>14 DEF vars
  <1> QED
    BY <1>1, <1>2, <1>3, <1>4, <1>5, <1>6, <1>7, <1>8, <1>9, <1>10, <1>11, <1>12, <1>13, <1>14 DEF Next, Handle

\* Every step keeps routes and statements in agreement.
LEMMA RouteNext == TypeOK /\ RouteOK /\ [Next]_vars => RouteOK'
  <1> SUFFICES ASSUME TypeOK, RouteOK, [Next]_vars PROVE RouteOK'
    OBVIOUS
  <1> USE DEF TypeOK, RouteOK, Goto, Labels, Answered, Kinds
  <1>1. ASSUME NEW t \in Targets, RegisterTarget(t) PROVE RouteOK'
    BY <1>1 DEF RegisterTarget
  <1>2. ASSUME NEW q \in Requests, NEW b \in Bodies, ArrivePost(q, b) PROVE RouteOK'
    BY <1>2 DEF ArrivePost
  <1>3. ASSUME NEW q \in Requests, NEW p \in Projects, ArriveInbound(q, p) PROVE RouteOK'
    BY <1>3 DEF ArriveInbound
  <1>4. ASSUME NEW q \in Requests, LookUp(q) PROVE RouteOK'
    BY <1>4 DEF LookUp
  <1>5. ASSUME NEW q \in Requests, Resolve(q) PROVE RouteOK'
    BY <1>5 DEF Resolve, ReadScope
  <1>6. ASSUME NEW q \in Requests, DryRun(q) PROVE RouteOK'
    BY <1>6 DEF DryRun, ReadScope
  <1>7. ASSUME NEW q \in Requests, PickTarget(q) PROVE RouteOK'
    <2>1. CASE PicksNone(q)
      BY <1>7, <2>1 DEF PickTarget, PicksNone
    <2>2. ASSUME NEW t \in TargetsOf(body[q].project), Picks(q, t) PROVE RouteOK'
      BY <1>7, <2>2 DEF PickTarget, Picks, InboundBody
    <2> QED
      BY <1>7, <2>1, <2>2, PickCases
  <1>8. ASSUME NEW q \in Requests, Insert(q) PROVE RouteOK'
    BY <1>8 DEF Insert
  <1>9. ASSUME NEW q \in Requests, Enqueue(q) PROVE RouteOK'
    BY <1>9 DEF Enqueue
  <1>10. ASSUME NEW q \in Requests, Commit(q) PROVE RouteOK'
    BY <1>10 DEF Commit
  <1>11. ASSUME NEW q \in Requests, Abort(q) PROVE RouteOK'
    BY <1>11 DEF Abort
  <1>12. ASSUME NEW q \in Requests, PlanScan(q) PROVE RouteOK'
    BY <1>12 DEF PlanScan
  <1>13. ASSUME NEW q \in Requests, SkipScan(q) PROVE RouteOK'
    BY <1>13 DEF SkipScan
  <1>14. CASE UNCHANGED vars
    BY <1>14 DEF vars
  <1> QED
    BY <1>1, <1>2, <1>3, <1>4, <1>5, <1>6, <1>7, <1>8, <1>9, <1>10, <1>11, <1>12, <1>13, <1>14 DEF Next, Handle

\* Answers stay stored: only an idle request changes what it asks for, and no row is removed.
LEMMA AnswerNext == TypeOK /\ RouteOK /\ AnswerOK /\ [Next]_vars => AnswerOK'
  <1> SUFFICES ASSUME TypeOK, RouteOK, AnswerOK, [Next]_vars PROVE AnswerOK'
    OBVIOUS
  <1> USE DEF TypeOK, RouteOK, AnswerOK, Goto, SameKey, Keyed, Answered
  <1>1. ASSUME NEW t \in Targets, RegisterTarget(t) PROVE AnswerOK'
    BY <1>1 DEF RegisterTarget
  <1>2. ASSUME NEW q \in Requests, NEW b \in Bodies, ArrivePost(q, b) PROVE AnswerOK'
    BY <1>2 DEF ArrivePost
  <1>3. ASSUME NEW q \in Requests, NEW p \in Projects, ArriveInbound(q, p) PROVE AnswerOK'
    BY <1>3 DEF ArriveInbound
  <1>4. ASSUME NEW q \in Requests, LookUp(q) PROVE AnswerOK'
    BY <1>4 DEF LookUp, Existing
  <1>5. ASSUME NEW q \in Requests, Resolve(q) PROVE AnswerOK'
    BY <1>5 DEF Resolve, ReadScope
  <1>6. ASSUME NEW q \in Requests, DryRun(q) PROVE AnswerOK'
    BY <1>6 DEF DryRun, ReadScope
  <1>7. ASSUME NEW q \in Requests, PickTarget(q) PROVE AnswerOK'
    <2>1. CASE PicksNone(q)
      BY <1>7, <2>1 DEF PickTarget, PicksNone
    <2>2. ASSUME NEW t \in TargetsOf(body[q].project), Picks(q, t) PROVE AnswerOK'
      BY <1>7, <2>2 DEF PickTarget, Picks, InboundBody
    <2> QED
      BY <1>7, <2>1, <2>2, PickCases
  <1>8. ASSUME NEW q \in Requests, Insert(q) PROVE AnswerOK'
    BY <1>8 DEF Insert
  <1>9. ASSUME NEW q \in Requests, Enqueue(q) PROVE AnswerOK'
    BY <1>9 DEF Enqueue
  <1>10. ASSUME NEW q \in Requests, Commit(q) PROVE AnswerOK'
    BY <1>10 DEF Commit
  <1>11. ASSUME NEW q \in Requests, Abort(q) PROVE AnswerOK'
    BY <1>11 DEF Abort
  <1>12. ASSUME NEW q \in Requests, PlanScan(q) PROVE AnswerOK'
    BY <1>12 DEF PlanScan
  <1>13. ASSUME NEW q \in Requests, SkipScan(q) PROVE AnswerOK'
    BY <1>13 DEF SkipScan
  <1>14. CASE UNCHANGED vars
    BY <1>14 DEF vars
  <1> QED
    BY <1>1, <1>2, <1>3, <1>4, <1>5, <1>6, <1>7, <1>8, <1>9, <1>10, <1>11, <1>12, <1>13, <1>14 DEF Next, Handle

\* A row is inserted only if no stored row and no open transaction has its key.
LEMMA UniqueNext == TypeOK /\ RouteOK /\ AnswerOK /\ UniqueOK /\ [Next]_vars => UniqueOK'
  <1> SUFFICES ASSUME TypeOK, RouteOK, AnswerOK, UniqueOK, [Next]_vars PROVE UniqueOK'
    OBVIOUS
  <1> USE DEF TypeOK, RouteOK, AnswerOK, UniqueOK, Inserted, Goto, SameKey, Keyed, Answered
  <1>1. ASSUME NEW t \in Targets, RegisterTarget(t) PROVE UniqueOK'
    BY <1>1 DEF RegisterTarget
  <1>2. ASSUME NEW q \in Requests, NEW b \in Bodies, ArrivePost(q, b) PROVE UniqueOK'
    BY <1>2 DEF ArrivePost
  <1>3. ASSUME NEW q \in Requests, NEW p \in Projects, ArriveInbound(q, p) PROVE UniqueOK'
    BY <1>3 DEF ArriveInbound
  <1>4. ASSUME NEW q \in Requests, LookUp(q) PROVE UniqueOK'
    BY <1>4 DEF LookUp, Existing
  <1>5. ASSUME NEW q \in Requests, Resolve(q) PROVE UniqueOK'
    BY <1>5 DEF Resolve, ReadScope
  <1>6. ASSUME NEW q \in Requests, DryRun(q) PROVE UniqueOK'
    BY <1>6 DEF DryRun, ReadScope
  <1>7. ASSUME NEW q \in Requests, PickTarget(q) PROVE UniqueOK'
    <2>1. CASE PicksNone(q)
      BY <1>7, <2>1 DEF PickTarget, PicksNone
    <2>2. ASSUME NEW t \in TargetsOf(body[q].project), Picks(q, t) PROVE UniqueOK'
      BY <1>7, <2>2 DEF PickTarget, Picks, InboundBody
    <2> QED
      BY <1>7, <2>1, <2>2, PickCases
  <1>8. ASSUME NEW q \in Requests, Insert(q) PROVE UniqueOK'
    BY <1>8 DEF Insert, KeyTaken
  <1>9. ASSUME NEW q \in Requests, Enqueue(q) PROVE UniqueOK'
    BY <1>9 DEF Enqueue
  <1>10. ASSUME NEW q \in Requests, Commit(q) PROVE UniqueOK'
    BY <1>10 DEF Commit
  <1>11. ASSUME NEW q \in Requests, Abort(q) PROVE UniqueOK'
    BY <1>11 DEF Abort
  <1>12. ASSUME NEW q \in Requests, PlanScan(q) PROVE UniqueOK'
    BY <1>12 DEF PlanScan
  <1>13. ASSUME NEW q \in Requests, SkipScan(q) PROVE UniqueOK'
    BY <1>13 DEF SkipScan
  <1>14. CASE UNCHANGED vars
    BY <1>14 DEF vars
  <1> QED
    BY <1>1, <1>2, <1>3, <1>4, <1>5, <1>6, <1>7, <1>8, <1>9, <1>10, <1>11, <1>12, <1>13, <1>14 DEF Next, Handle

\* A key is taken by a commit, which overtakes whoever looked it up before.
LEMMA LookedUpNext == TypeOK /\ RouteOK /\ AnswerOK /\ LookedUpOK /\ [Next]_vars => LookedUpOK'
  <1> SUFFICES ASSUME TypeOK, RouteOK, AnswerOK, LookedUpOK, [Next]_vars PROVE LookedUpOK'
    OBVIOUS
  <1> USE DEF TypeOK, RouteOK, AnswerOK, LookedUpOK, KeyTaken, Goto, SameKey, Keyed, Answered
  <1>1. ASSUME NEW t \in Targets, RegisterTarget(t) PROVE LookedUpOK'
    BY <1>1 DEF RegisterTarget
  <1>2. ASSUME NEW q \in Requests, NEW b \in Bodies, ArrivePost(q, b) PROVE LookedUpOK'
    BY <1>2 DEF ArrivePost
  <1>3. ASSUME NEW q \in Requests, NEW p \in Projects, ArriveInbound(q, p) PROVE LookedUpOK'
    BY <1>3 DEF ArriveInbound
  <1>4. ASSUME NEW q \in Requests, LookUp(q) PROVE LookedUpOK'
    BY <1>4 DEF LookUp, Existing
  <1>5. ASSUME NEW q \in Requests, Resolve(q) PROVE LookedUpOK'
    BY <1>5 DEF Resolve, ReadScope
  <1>6. ASSUME NEW q \in Requests, DryRun(q) PROVE LookedUpOK'
    BY <1>6 DEF DryRun, ReadScope
  <1>7. ASSUME NEW q \in Requests, PickTarget(q) PROVE LookedUpOK'
    <2>1. CASE PicksNone(q)
      BY <1>7, <2>1 DEF PickTarget, PicksNone
    <2>2. ASSUME NEW t \in TargetsOf(body[q].project), Picks(q, t) PROVE LookedUpOK'
      BY <1>7, <2>2 DEF PickTarget, Picks, InboundBody
    <2> QED
      BY <1>7, <2>1, <2>2, PickCases
  <1>8. ASSUME NEW q \in Requests, Insert(q) PROVE LookedUpOK'
    BY <1>8 DEF Insert
  <1>9. ASSUME NEW q \in Requests, Enqueue(q) PROVE LookedUpOK'
    BY <1>9 DEF Enqueue
  <1>10. ASSUME NEW q \in Requests, Commit(q) PROVE LookedUpOK'
    BY <1>10 DEF Commit, LookedUp
  <1>11. ASSUME NEW q \in Requests, Abort(q) PROVE LookedUpOK'
    BY <1>11 DEF Abort
  <1>12. ASSUME NEW q \in Requests, PlanScan(q) PROVE LookedUpOK'
    BY <1>12 DEF PlanScan
  <1>13. ASSUME NEW q \in Requests, SkipScan(q) PROVE LookedUpOK'
    BY <1>13 DEF SkipScan
  <1>14. CASE UNCHANGED vars
    BY <1>14 DEF vars
  <1> QED
    BY <1>1, <1>2, <1>3, <1>4, <1>5, <1>6, <1>7, <1>8, <1>9, <1>10, <1>11, <1>12, <1>13, <1>14 DEF Next, Handle

\* Only the flush ends in a conflict, and only of a key that is taken.
LEMMA ConflictNext == TypeOK /\ LookedUpOK /\ ConflictNeedsOverlap /\ [Next]_vars => ConflictNeedsOverlap'
  <1> SUFFICES ASSUME TypeOK, LookedUpOK, ConflictNeedsOverlap, [Next]_vars PROVE ConflictNeedsOverlap'
    OBVIOUS
  <1> USE DEF TypeOK, LookedUpOK, ConflictNeedsOverlap, Goto, Answered
  <1>1. ASSUME NEW t \in Targets, RegisterTarget(t) PROVE ConflictNeedsOverlap'
    BY <1>1 DEF RegisterTarget
  <1>2. ASSUME NEW q \in Requests, NEW b \in Bodies, ArrivePost(q, b) PROVE ConflictNeedsOverlap'
    BY <1>2 DEF ArrivePost
  <1>3. ASSUME NEW q \in Requests, NEW p \in Projects, ArriveInbound(q, p) PROVE ConflictNeedsOverlap'
    BY <1>3 DEF ArriveInbound
  <1>4. ASSUME NEW q \in Requests, LookUp(q) PROVE ConflictNeedsOverlap'
    BY <1>4 DEF LookUp
  <1>5. ASSUME NEW q \in Requests, Resolve(q) PROVE ConflictNeedsOverlap'
    BY <1>5 DEF Resolve, ReadScope
  <1>6. ASSUME NEW q \in Requests, DryRun(q) PROVE ConflictNeedsOverlap'
    BY <1>6 DEF DryRun, ReadScope
  <1>7. ASSUME NEW q \in Requests, PickTarget(q) PROVE ConflictNeedsOverlap'
    BY <1>7 DEF PickTarget
  <1>8. ASSUME NEW q \in Requests, Insert(q) PROVE ConflictNeedsOverlap'
    BY <1>8 DEF Insert
  <1>9. ASSUME NEW q \in Requests, Enqueue(q) PROVE ConflictNeedsOverlap'
    BY <1>9 DEF Enqueue
  <1>10. ASSUME NEW q \in Requests, Commit(q) PROVE ConflictNeedsOverlap'
    BY <1>10 DEF Commit
  <1>11. ASSUME NEW q \in Requests, Abort(q) PROVE ConflictNeedsOverlap'
    BY <1>11 DEF Abort
  <1>12. ASSUME NEW q \in Requests, PlanScan(q) PROVE ConflictNeedsOverlap'
    BY <1>12 DEF PlanScan
  <1>13. ASSUME NEW q \in Requests, SkipScan(q) PROVE ConflictNeedsOverlap'
    BY <1>13 DEF SkipScan
  <1>14. CASE UNCHANGED vars
    BY <1>14 DEF vars
  <1> QED
    BY <1>1, <1>2, <1>3, <1>4, <1>5, <1>6, <1>7, <1>8, <1>9, <1>10, <1>11, <1>12, <1>13, <1>14 DEF Next, Handle

\* Targets are never removed, so what was resolved from them keeps its source.
LEMMA ScopeNext == TypeOK /\ RouteOK /\ AnswerOK /\ ScopeOK /\ [Next]_vars => ScopeOK'
  <1> SUFFICES ASSUME TypeOK, RouteOK, AnswerOK, ScopeOK, [Next]_vars PROVE ScopeOK'
    OBVIOUS
  <1> USE DEF TypeOK, RouteOK, AnswerOK, ScopeOK, ScopeOf, Creates, TargetsOf, Goto, Answered, AllBodies
  <1>1. ASSUME NEW t \in Targets, RegisterTarget(t) PROVE ScopeOK'
    BY <1>1 DEF RegisterTarget
  <1>2. ASSUME NEW q \in Requests, NEW b \in Bodies, ArrivePost(q, b) PROVE ScopeOK'
    BY <1>2 DEF ArrivePost
  <1>3. ASSUME NEW q \in Requests, NEW p \in Projects, ArriveInbound(q, p) PROVE ScopeOK'
    BY <1>3 DEF ArriveInbound
  <1>4. ASSUME NEW q \in Requests, LookUp(q) PROVE ScopeOK'
    BY <1>4 DEF LookUp, Existing
  <1>5. ASSUME NEW q \in Requests, Resolve(q) PROVE ScopeOK'
    BY <1>5 DEF Resolve, ReadScope
  <1>6. ASSUME NEW q \in Requests, DryRun(q) PROVE ScopeOK'
    BY <1>6 DEF DryRun, ReadScope
  <1>7. ASSUME NEW q \in Requests, PickTarget(q) PROVE ScopeOK'
    <2>1. CASE PicksNone(q)
      BY <1>7, <2>1 DEF PickTarget, PicksNone
    <2>2. ASSUME NEW t \in TargetsOf(body[q].project), Picks(q, t) PROVE ScopeOK'
      <3>1. /\ t \in Targets /\ t \in registered
            /\ InboundBody(t).project = t.project /\ InboundBody(t).override = NoOverride
        BY <2>2 DEF InboundBody
      <3>2. InboundBody(t) \in AllBodies
        BY <3>1
      <3>3. registered' = registered /\ kind' = kind /\ answer' = answer /\ kind[q] = "inbound"
        BY <1>7 DEF PickTarget
      <3>4. ASSUME NEW r \in Requests, Creates(r)' PROVE ScopeOf(r)'
        <4>1. CASE r = q
          BY <4>1, <2>2, <3>1, <3>2, <3>3 DEF ScopeOf, Picks
        <4>2. CASE r # q
          BY <4>2, <3>4, <2>2, <3>3 DEF ScopeOf, Picks
        <4> QED
          BY <4>1, <4>2
      <3> QED
        BY <3>4
    <2> QED
      BY <1>7, <2>1, <2>2, PickCases
  <1>8. ASSUME NEW q \in Requests, Insert(q) PROVE ScopeOK'
    BY <1>8 DEF Insert
  <1>9. ASSUME NEW q \in Requests, Enqueue(q) PROVE ScopeOK'
    BY <1>9 DEF Enqueue
  <1>10. ASSUME NEW q \in Requests, Commit(q) PROVE ScopeOK'
    BY <1>10 DEF Commit
  <1>11. ASSUME NEW q \in Requests, Abort(q) PROVE ScopeOK'
    BY <1>11 DEF Abort
  <1>12. ASSUME NEW q \in Requests, PlanScan(q) PROVE ScopeOK'
    BY <1>12 DEF PlanScan
  <1>13. ASSUME NEW q \in Requests, SkipScan(q) PROVE ScopeOK'
    BY <1>13 DEF SkipScan
  <1>14. CASE UNCHANGED vars
    BY <1>14 DEF vars
  <1> QED
    BY <1>1, <1>2, <1>3, <1>4, <1>5, <1>6, <1>7, <1>8, <1>9, <1>10, <1>11, <1>12, <1>13, <1>14 DEF Next, Handle

\* Planning decides once, from what is stored.
LEMMA PlannedNext == TypeOK /\ RouteOK /\ AnswerOK /\ ScopeOK /\ PlannedOK /\ [Next]_vars => PlannedOK'
  <1> SUFFICES ASSUME TypeOK, RouteOK, AnswerOK, ScopeOK, PlannedOK, [Next]_vars PROVE PlannedOK'
    OBVIOUS
  <1> USE DEF TypeOK, RouteOK, AnswerOK, PlannedOK, Goto, Answered
  <1>1. ASSUME NEW t \in Targets, RegisterTarget(t) PROVE PlannedOK'
    BY <1>1 DEF RegisterTarget
  <1>2. ASSUME NEW q \in Requests, NEW b \in Bodies, ArrivePost(q, b) PROVE PlannedOK'
    BY <1>2 DEF ArrivePost
  <1>3. ASSUME NEW q \in Requests, NEW p \in Projects, ArriveInbound(q, p) PROVE PlannedOK'
    BY <1>3 DEF ArriveInbound
  <1>4. ASSUME NEW q \in Requests, LookUp(q) PROVE PlannedOK'
    BY <1>4 DEF LookUp
  <1>5. ASSUME NEW q \in Requests, Resolve(q) PROVE PlannedOK'
    BY <1>5 DEF Resolve, ReadScope
  <1>6. ASSUME NEW q \in Requests, DryRun(q) PROVE PlannedOK'
    BY <1>6 DEF DryRun, ReadScope
  <1>7. ASSUME NEW q \in Requests, PickTarget(q) PROVE PlannedOK'
    <2>1. CASE PicksNone(q)
      BY <1>7, <2>1 DEF PickTarget, PicksNone
    <2>2. ASSUME NEW t \in TargetsOf(body[q].project), Picks(q, t) PROVE PlannedOK'
      BY <1>7, <2>2 DEF PickTarget, Picks, InboundBody
    <2> QED
      BY <1>7, <2>1, <2>2, PickCases
  <1>8. ASSUME NEW q \in Requests, Insert(q) PROVE PlannedOK'
    BY <1>8 DEF Insert
  <1>9. ASSUME NEW q \in Requests, Enqueue(q) PROVE PlannedOK'
    BY <1>9 DEF Enqueue
  <1>10. ASSUME NEW q \in Requests, Commit(q) PROVE PlannedOK'
    BY <1>10 DEF Commit
  <1>11. ASSUME NEW q \in Requests, Abort(q) PROVE PlannedOK'
    BY <1>11 DEF Abort
  <1>12. ASSUME NEW q \in Requests, PlanScan(q) PROVE PlannedOK'
    BY <1>12 DEF PlanScan, ScopeToPlan
  <1>13. ASSUME NEW q \in Requests, SkipScan(q) PROVE PlannedOK'
    BY <1>13 DEF SkipScan
  <1>14. CASE UNCHANGED vars
    BY <1>14 DEF vars
  <1> QED
    BY <1>1, <1>2, <1>3, <1>4, <1>5, <1>6, <1>7, <1>8, <1>9, <1>10, <1>11, <1>12, <1>13, <1>14 DEF Next, Handle

\* A verdict is given once, on the scope resolved with it.
LEMMA VerdictNext == TypeOK /\ RouteOK /\ VerdictOK /\ [Next]_vars => VerdictOK'
  <1> SUFFICES ASSUME TypeOK, RouteOK, VerdictOK, [Next]_vars PROVE VerdictOK'
    OBVIOUS
  <1> USE DEF TypeOK, RouteOK, VerdictOK, Goto, Answered
  <1>1. ASSUME NEW t \in Targets, RegisterTarget(t) PROVE VerdictOK'
    BY <1>1 DEF RegisterTarget
  <1>2. ASSUME NEW q \in Requests, NEW b \in Bodies, ArrivePost(q, b) PROVE VerdictOK'
    BY <1>2 DEF ArrivePost
  <1>3. ASSUME NEW q \in Requests, NEW p \in Projects, ArriveInbound(q, p) PROVE VerdictOK'
    BY <1>3 DEF ArriveInbound
  <1>4. ASSUME NEW q \in Requests, LookUp(q) PROVE VerdictOK'
    BY <1>4 DEF LookUp
  <1>5. ASSUME NEW q \in Requests, Resolve(q) PROVE VerdictOK'
    BY <1>5 DEF Resolve, ReadScope
  <1>6. ASSUME NEW q \in Requests, DryRun(q) PROVE VerdictOK'
    BY <1>6 DEF DryRun, ReadScope
  <1>7. ASSUME NEW q \in Requests, PickTarget(q) PROVE VerdictOK'
    <2>1. CASE PicksNone(q)
      BY <1>7, <2>1 DEF PickTarget, PicksNone
    <2>2. ASSUME NEW t \in TargetsOf(body[q].project), Picks(q, t) PROVE VerdictOK'
      BY <1>7, <2>2 DEF PickTarget, Picks, InboundBody
    <2> QED
      BY <1>7, <2>1, <2>2, PickCases
  <1>8. ASSUME NEW q \in Requests, Insert(q) PROVE VerdictOK'
    BY <1>8 DEF Insert
  <1>9. ASSUME NEW q \in Requests, Enqueue(q) PROVE VerdictOK'
    BY <1>9 DEF Enqueue
  <1>10. ASSUME NEW q \in Requests, Commit(q) PROVE VerdictOK'
    BY <1>10 DEF Commit
  <1>11. ASSUME NEW q \in Requests, Abort(q) PROVE VerdictOK'
    BY <1>11 DEF Abort
  <1>12. ASSUME NEW q \in Requests, PlanScan(q) PROVE VerdictOK'
    BY <1>12 DEF PlanScan
  <1>13. ASSUME NEW q \in Requests, SkipScan(q) PROVE VerdictOK'
    BY <1>13 DEF SkipScan
  <1>14. CASE UNCHANGED vars
    BY <1>14 DEF vars
  <1> QED
    BY <1>1, <1>2, <1>3, <1>4, <1>5, <1>6, <1>7, <1>8, <1>9, <1>10, <1>11, <1>12, <1>13, <1>14 DEF Next, Handle

\* The first state satisfies the strengthening.
LEMMA InitInv == Init => TypeOK /\ IInv
  <1> SUFFICES ASSUME Init PROVE TypeOK /\ IInv
    OBVIOUS
  <1> USE DEF Init
  <1>1. TypeOK
    BY RequestsAssumption DEF TypeOK, Labels, Answered, Kinds, AnyBody, NoScope, Scope
  <1>2. RouteOK /\ AnswerOK /\ LookedUpOK /\ ConflictNeedsOverlap
    BY DEF RouteOK, Answered, AnswerOK, LookedUpOK, ConflictNeedsOverlap
  <1>3. UniqueOK
    BY DEF UniqueOK, Inserted
  <1>4. ScopeOK /\ PlannedOK /\ VerdictOK
    BY DEF ScopeOK, Creates, PlannedOK, VerdictOK
  <1> QED
    BY <1>1, <1>2, <1>3, <1>4 DEF IInv

\* The strengthening holds of every reachable state.
THEOREM Inductive == Spec => [](TypeOK /\ IInv)
  <1>1. TypeOK /\ IInv /\ [Next]_vars => TypeOK' /\ IInv'
    BY TypeNext, RouteNext, AnswerNext, UniqueNext, LookedUpNext, ConflictNext,
       ScopeNext, PlannedNext, VerdictNext DEF IInv
  <1> QED
    BY InitInv, <1>1, PTL DEF Spec

\* Every reachable state is well typed.
THEOREM TypeCorrect == Spec => []TypeOK
  BY Inductive, PTL

\* One scan is stored for a key, and every POST that succeeds with it returns
\* that scan (services/scans.py:35).
THEOREM KeysNameScans == Spec => []KeyNamesOneScan
  <1>1. TypeOK /\ IInv => KeyNamesOneScan
    <2> SUFFICES ASSUME TypeOK, IInv, NEW q \in Requests, NEW r \in Requests,
                        SameKey(q, r), at[q] = "ok", at[r] = "ok"
                 PROVE  answer[q] = answer[r] /\ answer[q] \in stored
      BY DEF KeyNamesOneScan
    <2> USE DEF IInv, TypeOK, AnswerOK, SameKey, Keyed
    <2>1. answer[q] \in stored /\ answer[r] \in stored
      OBVIOUS
    <2>2. SameKey(answer[q], q) /\ SameKey(answer[r], r)
      OBVIOUS
    <2>3. SameKey(answer[q], answer[r])
      BY <2>2
    <2> QED
      BY <2>1, <2>3 DEF UniqueOK
  <1> QED
    BY <1>1, Inductive, PTL

\* A POST fails on the unique key only if another with its key committed
\* after it had looked the key up, or if the key is empty and so never looked
\* up (services/scans.py:36, :83).
THEOREM ConflictsOverlap == Spec => []ConflictNeedsOverlap
  <1>1. IInv => ConflictNeedsOverlap
    BY DEF IInv
  <1> QED
    BY <1>1, Inductive, PTL

\* An accepted scan passes its scope check when it is planned, whatever has
\* been registered since it was created (scheduler.py:61-69).
THEOREM AcceptedStaysInScope == Spec => []AcceptedScopeHolds
  <1>1. TypeOK /\ IInv => AcceptedScopeHolds
    <2> SUFFICES ASSUME TypeOK, IInv, NEW s \in stored,
                        kind[s] = "post", outcome[s] = "failed"
                 PROVE  ~ToolsKnown(body[s].class, body[s].tools)
      BY DEF AcceptedScopeHolds
    <2>1. s \in Requests /\ Creates(s)
      BY DEF IInv, TypeOK, AnswerOK, Creates
    <2>2. Check(body[s].class, scope[s], body[s].hosts)
      BY <2>1 DEF IInv, ScopeOK, ScopeOf
    <2>3. ~Plannable(body[s].class, scope[s], body[s].hosts, body[s].tools)
      BY <2>1 DEF IInv, PlannedOK
    <2> QED
      BY <2>2, <2>3 DEF Plannable
  <1> QED
    BY <1>1, Inductive, PTL

\* A planned scan is authorized: by an owned target of its project if its
\* class is dangerous, and host by host by the lists of the targets that were
\* read, which only an allowlist of the request widens (projects.py:78-95).
THEOREM PlansStayInScope == Spec => []PlannedInScope
  <1>1. TypeOK /\ IInv => PlannedInScope
    <2> SUFFICES ASSUME TypeOK, IInv, NEW s \in stored, outcome[s] = "planned"
                 PROVE
                   /\ body[s].class \in Dangerous => \E t \in TargetsOf(body[s].project) : t.owned
                   /\ \A h \in body[s].hosts :
                        /\ \A t \in seen[s] : ~MatchesAny(h, t.deny)
                        /\ ~MatchesAny(h, body[s].override.deny)
                        /\ body[s].override.allow = {} => \E t \in seen[s] : MatchesAny(h, t.allow)
      BY DEF PlannedInScope
    <2>1. s \in Requests /\ Creates(s)
      BY DEF IInv, TypeOK, AnswerOK, Creates
    <2>2. /\ seen[s] \subseteq TargetsOf(body[s].project)
          /\ scope[s] = ResolveScope(seen[s], body[s].override)
      BY <2>1 DEF IInv, ScopeOK, ScopeOf
    <2>3. Check(body[s].class, scope[s], body[s].hosts)
      BY <2>1 DEF IInv, PlannedOK, Plannable
    <2>4. body[s].class \in Dangerous => \E t \in TargetsOf(body[s].project) : t.owned
      <3>1. scope[s].owned = \E t \in seen[s] : t.owned
        BY <2>2 DEF ResolveScope
      <3> QED
        BY <3>1, <2>2, <2>3 DEF Check
    <2>5. ASSUME NEW h \in body[s].hosts
          PROVE  /\ \A t \in seen[s] : ~MatchesAny(h, t.deny)
                 /\ ~MatchesAny(h, body[s].override.deny)
                 /\ body[s].override.allow = {} => \E t \in seen[s] : MatchesAny(h, t.allow)
      <3>1. /\ scope[s].allow = Allowlists(seen[s]) \cup body[s].override.allow
            /\ scope[s].deny = Denylists(seen[s]) \cup body[s].override.deny
        BY <2>2 DEF ResolveScope
      <3>2. PICK p \in scope[s].allow : h \in Covers[p]
        BY <2>3 DEF Check, MatchesAny
      <3>3. \A d \in scope[s].deny : h \notin Covers[d]
        BY <2>3 DEF Check, MatchesAny
      <3>4. p \in body[s].override.allow \/ \E t \in seen[s] : p \in t.allow
        <4>1. \A a \in Allowlists(seen[s]) : \E t \in seen[s] : a \in t.allow
          BY DEF Allowlists
        <4> QED
          BY <3>1, <3>2, <4>1
      <3>5. \A t \in seen[s] : \A d \in t.deny : d \in scope[s].deny
        <4>1. \A t \in seen[s] : \A d \in t.deny : d \in Denylists(seen[s])
          BY DEF Denylists
        <4> QED
          BY <3>1, <4>1
      <3>6. \A d \in body[s].override.deny : d \in scope[s].deny
        BY <3>1
      <3> QED
        BY <3>2, <3>3, <3>4, <3>5, <3>6 DEF MatchesAny
    <2> QED
      BY <2>4, <2>5
  <1> QED
    BY <1>1, Inductive, PTL

\* A dry run foretells the POST of the same body that reads the same targets,
\* by the error it ends in (routes/scans.py:40-61).
THEOREM DryRunsForetell == Spec => []DryRunForetells
  <1>1. TypeOK /\ IInv => DryRunForetells
    <2> SUFFICES ASSUME TypeOK, IInv, NEW d \in Requests, NEW q \in Requests,
                        kind[d] = "dry", kind[q] = "post", body[d] = body[q], seen[d] = seen[q]
                 PROVE  /\ at[d] = "invalid" => at[q] # "refused" /\ outcome[q] # "failed"
                        /\ at[d] = "refused" => outcome[q] # "planned"
      BY DEF DryRunForetells
    <2> DEFINE b == body[q]
               S == ResolveScope(seen[q], b.override)
               Fine == Plannable(b.class, S, b.hosts, b.tools)
    <2>1. at[d] \in {"invalid", "refused"} => (at[d] = "invalid" <=> Fine)
      BY DEF IInv, VerdictOK
    <2>2. at[q] = "refused" => ~Fine
      BY DEF IInv, VerdictOK, Plannable
    <2>3. ASSUME outcome[q] # "none" PROVE outcome[q] = "planned" <=> Fine
      <3>1. q \in stored
        BY <2>3 DEF IInv, PlannedOK
      <3>2. Creates(q)
        BY <3>1 DEF IInv, AnswerOK, Creates
      <3>3. scope[q] = S
        BY <3>2 DEF IInv, ScopeOK, ScopeOf
      <3> QED
        BY <2>3, <3>3 DEF IInv, PlannedOK
    <2> HIDE DEF Fine
    <2> QED
      BY <2>1, <2>2, <2>3
  <1> QED
    BY <1>1, Inductive, PTL
==============================================================================
