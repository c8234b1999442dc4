------------------------------- MODULE RunLog -------------------------------
(***************************************************************************)
(* What the readers of agent_events rely on, with no jobs, no handlers and *)
(* no clients: the log of a run grows by one event at a time; the event    *)
(* that ends the run closes the log in the same transaction; a closed log  *)
(* never changes again.  AgentRuns writes such logs, and RunEventStream    *)
(* reads one.                                                              *)
(***************************************************************************)
EXTENDS Naturals

CONSTANT LogRuns    \* the runs that may be created

\* log[r]: how many events the run has, whether its row is terminal, and which
\* of its events are terminal ones.
VARIABLE log

\* A run that is not created yet has no event; RUN_QUEUED comes with the run.
OpenLog(n) == [length |-> n, state |-> "open", ends |-> {}]
LogInit == log \in [LogRuns -> {OpenLog(0), OpenLog(1)}]

Grown(p) == [length |-> p.length + 1, state |-> "open", ends |-> p.ends]
Ended(p) == [length |-> p.length + 1, state |-> "closed", ends |-> p.ends \cup {p.length + 1}]
LogNext ==
    \E r \in LogRuns : /\ log[r].state = "open"
                       /\ \E q \in {Grown(log[r]), Ended(log[r])} : log' = [log EXCEPT ![r] = q]

LogSpec == LogInit /\ [][LogNext]_log

\* The terminal event of a run is its last one, and it is there exactly when the
\* row of the run is terminal: a reader may stop at either sign of the end.
EndIsLast ==
    \A r \in LogRuns :
        log[r].ends = IF log[r].state = "closed" THEN {log[r].length} ELSE {}
=============================================================================
