--------------------------------- MODULE Review ---------------------------------
(***************************************************************************)
(* People at work on the findings of scans: triage, comments and readers.  *)
(* Each request is of one of the three kinds.                              *)
(***************************************************************************)
EXTENDS Comments, Reports

vars == <<triageVars, commentVars, reader>>

TypeOK == TriageTypeOK /\ CommentsTypeOK /\ ReaderTypeOK

Init == TriageInit /\ CommentsInit /\ ReaderInit

Unused(r) == at[r] = "idle" /\ cat[r] = "idle" /\ reader[r].state = "idle"

\* core/security.py: a triage or assign request needs a triager.
Role == [viewer |-> 0, scanner |-> 1, triager |-> 2, admin |-> 3]

ArriveTriage(r) ==
  /\ Unused(r)
  /\ \E role \in DOMAIN Role :
       IF Role[role] >= Role["triager"] THEN \E a \in Asks : ReadEffective(r, a) ELSE Forbid(r)
  /\ UNCHANGED <<commentVars, reader>>

\* Anybody may comment and read.
ArriveComment(r) ==
  /\ Unused(r)
  /\ \/ \E f \in Findings : AskAdd(r, f)
     \/ \E op \in {"edit", "delete"}, c \in DOMAIN comments, author \in BOOLEAN :
          AskChange(r, op, c, author)
  /\ UNCHANGED <<triageVars, reader>>

ArriveReader(r) ==
  /\ Unused(r)
  /\ \E S \in {{s} : s \in Scans} \cup {Scans} : BeginRead(r, S)
  /\ UNCHANGED <<triageVars, commentVars>>

Read ==
  /\ \E r \in Requests : EndRead(r) \/ \E f \in Findings : ReadOne(r, f)
  /\ UNCHANGED <<triageVars, commentVars>>

Comment(r) ==
  /\ CommitAdd(r) \/ CommitEdit(r) \/ CommitDelete(r) \/ AbortComment(r)
  /\ UNCHANGED <<published, records, clock, at, ask, seen, stamp, reader>>

Next ==
  \/ TriageStep /\ UNCHANGED <<commentVars, reader>>
  \/ \E r \in Requests : ArriveTriage(r) \/ ArriveComment(r) \/ ArriveReader(r) \/ Comment(r)
  \/ Read

Spec == Init /\ [][Next]_vars

-----------------------------------------------------------------------------

\* The audit log tells what was decided about a finding and what a comment
\* has said.
AuditTells == HistoryTells /\ RevisionsKept
==============================================================================
