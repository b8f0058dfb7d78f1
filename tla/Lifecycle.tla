------------------------------ MODULE Lifecycle ------------------------------
(***************************************************************************)
(* The scan and job state machines of engine/lifecycle.py: the statuses,   *)
(* the transitions the code accepts, and what it calls a terminal scan.    *)
(* A transition table is a set of pairs <<from, to>>.                      *)
(***************************************************************************)
EXTENDS Naturals

ScanStatus == {"queued", "planning", "running", "normalizing",
               "completed", "failed", "cancelled"}

JobStatus == {"queued", "running", "normalizing",
              "completed", "failed", "cancelled"}

ScanTransitions ==
  {<<"queued", "planning">>, <<"queued", "cancelled">>, <<"queued", "failed">>,
   <<"planning", "running">>, <<"planning", "failed">>, <<"planning", "cancelled">>,
   <<"running", "normalizing">>, <<"running", "failed">>, <<"running", "cancelled">>,
   <<"normalizing", "completed">>, <<"normalizing", "failed">>}

JobTransitions ==
  {<<"queued", "running">>, <<"queued", "cancelled">>, <<"queued", "failed">>,
   <<"running", "normalizing">>, <<"running", "failed">>, <<"running", "cancelled">>,
   <<"normalizing", "completed">>, <<"normalizing", "failed">>}

\* assert_scan_transition and assert_job_transition raise InvalidTransition
\* exactly where these are false.
ScanMayMove(from, to) == <<from, to>> \in ScanTransitions
JobMayMove(from, to)  == <<from, to>> \in JobTransitions

\* is_terminal_scan: the status has no outgoing transition.
IsTerminalScan(st) ==
  st \in ScanStatus /\ \A to \in ScanStatus : ~ScanMayMove(st, to)
==============================================================================
