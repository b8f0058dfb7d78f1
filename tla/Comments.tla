-------------------------------- MODULE Comments --------------------------------
(***************************************************************************)
(* Comments on findings: api/services/comments.py.  A request that adds    *)
(* one makes a comment of its own name, and a body is the name of the      *)
(* request that wrote it.                                                  *)
(*                                                                         *)
(* Only add has a route so far; edit and delete are the service's.  Both   *)
(* read the comment, and write what they made of it when they commit:      *)
(* nothing notices that it changed in between.                             *)
(***************************************************************************)
EXTENDS Triage

VARIABLES
  comments,   \* comments[c]: finding, body and whether it is deleted or edited
  revisions,  \* the audit entries of edits: the comment, the request and
              \* the body it replaced, as it had read it
  cat,        \* cat[r]: the next statement of r, when it is about a comment
  cask        \* cask[r]: what it is to do, and the body it has read

commentVars == <<comments, revisions, cat, cask>>

Deleted == "deleted"

CommentsTypeOK ==
  /\ DOMAIN comments \subseteq Requests
  /\ \A c \in DOMAIN comments :
       comments[c] \in [finding : Findings, body : Requests \cup {Deleted},
                        deleted : BOOLEAN, edited : BOOLEAN]
  /\ revisions \subseteq [comment : Requests, by : Requests, previous : Requests \cup {Deleted}]
  /\ cat \in [Requests -> {"idle", "commit", "done"}] /\ DOMAIN cask = Requests

CommentsInit ==
  /\ comments = <<>> /\ revisions = {}
  /\ cat = [r \in Requests |-> "idle"]
  /\ cask = [r \in Requests |-> [op |-> "none"]]

-----------------------------------------------------------------------------

\* add: of a finding there is.
AskAdd(r, f) ==
  /\ cat[r] = "idle" /\ ScanOf[f] \in published
  /\ cat' = [cat EXCEPT ![r] = "commit"]
  /\ cask' = [cask EXCEPT ![r] = [op |-> "add", finding |-> f]]
  /\ UNCHANGED <<comments, revisions>>

\* edit and delete: the comment is read; only its author may.
AskChange(r, op, c, author) ==
  /\ cat[r] = "idle" /\ c \in DOMAIN comments
  /\ cat' = [cat EXCEPT ![r] = IF author THEN "commit" ELSE "done"]
  /\ cask' = IF author
               THEN [cask EXCEPT ![r] = [op |-> op, comment |-> c, read |-> comments[c].body]]
               ELSE cask
  /\ UNCHANGED <<comments, revisions>>

CommitAdd(r) ==
  /\ cat[r] = "commit" /\ cask[r].op = "add"
  /\ cat' = [cat EXCEPT ![r] = "done"]
  /\ comments' = Put(comments, r, [finding |-> cask[r].finding, body |-> r,
                                   deleted |-> FALSE, edited |-> FALSE])
  /\ history' = [history EXCEPT ![cask[r].finding] =
                   Append(@, [action |-> "comment", status |-> "none"])]
  /\ UNCHANGED <<revisions, cask>>

\* Variant: the body is written before the entry is made.
CommitEdit_Overwrites(r) ==
  /\ cat[r] = "commit" /\ cask[r].op = "edit"
  /\ cat' = [cat EXCEPT ![r] = "done"]
  /\ comments' = [comments EXCEPT ![cask[r].comment].body = r,
                                  ![cask[r].comment].edited = TRUE]
  /\ revisions' = revisions \cup
       {[comment |-> cask[r].comment, by |-> r, previous |-> r]}
  /\ UNCHANGED <<cask, history>>

\* The entry has the body the request has read.
CommitEdit(r) ==
  /\ cat[r] = "commit" /\ cask[r].op = "edit"
  /\ cat' = [cat EXCEPT ![r] = "done"]
  /\ comments' = [comments EXCEPT ![cask[r].comment].body = r,
                                  ![cask[r].comment].edited = TRUE]
  /\ revisions' = revisions \cup
       {[comment |-> cask[r].comment, by |-> r, previous |-> cask[r].read]}
  /\ UNCHANGED <<cask, history>>

\* A deletion's entry has no body.
CommitDelete(r) ==
  /\ cat[r] = "commit" /\ cask[r].op = "delete"
  /\ cat' = [cat EXCEPT ![r] = "done"]
  /\ comments' = [comments EXCEPT ![cask[r].comment].body = Deleted,
                                  ![cask[r].comment].deleted = TRUE]
  /\ UNCHANGED <<revisions, cask, history>>

AbortComment(r) ==
  /\ cat[r] = "commit"
  /\ cat' = [cat EXCEPT ![r] = "done"]
  /\ UNCHANGED <<comments, revisions, cask, history>>

-----------------------------------------------------------------------------
(* The strengthening that makes the property below inductive. *)

\* The names of the bodies comment c has had.
Written(c) == {c} \cup {e.by : e \in {x \in revisions : x.comment = c}}

\* A request has made its comment or its entry when it is done; it is about a
\* comment there is, and has read one of the bodies that had.
BodiesOK ==
  /\ \A c \in DOMAIN comments :
       cat[c] = "done" /\ (comments[c].deleted \/ comments[c].body \in Written(c))
  /\ \A e \in revisions : e.comment \in DOMAIN comments /\ cat[e.by] = "done"
  /\ \A r \in Requests : cat[r] = "commit" =>
       IF cask[r].op = "add" THEN cask[r].finding \in Findings
       ELSE LET c == cask[r].comment
            IN  /\ cask[r].op \in {"edit", "delete"}
                /\ c \in DOMAIN comments /\ cask[r].read \in Requests \cup {Deleted}
                /\ comments[c].deleted \/ cask[r].read \in Written(c)

-----------------------------------------------------------------------------
(* Properties *)

\* "Edits keep an immutable revision history via the audit log"
\* (comments.py:60): every body a comment has had is its body still or in the
\* entry of the edit that replaced it, unless the comment was deleted or two
\* edits overlapped and so replaced the same body.
RevisionsKept ==
  \A c \in DOMAIN comments :
    LET edits == {e \in revisions : e.comment = c}
    IN  \/ Written(c) \subseteq {comments[c].body} \cup {e.previous : e \in edits}
        \/ comments[c].deleted
        \/ \E e, d \in edits : e # d /\ e.previous = d.previous
==============================================================================
