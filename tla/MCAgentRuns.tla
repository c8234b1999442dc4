---------------------------- MODULE MCAgentRuns ----------------------------
(* AgentRuns in the settings in which TLC explores it. *)
EXTENDS AgentRuns

\* One run; two handler transactions fail.
Faulty == [runs |-> 1, drafts |-> 3, shared |-> FALSE, reaper |-> FALSE, faults |-> 2]
\* One run; leases expire while handlers still run.
Expiring == [runs |-> 1, drafts |-> 1, shared |-> FALSE, reaper |-> TRUE, faults |-> 0]
\* Two runs that may share a thread; graphs raise and nothing else fails.
Sharing == [runs |-> 2, drafts |-> 1, shared |-> TRUE, reaper |-> FALSE, faults |-> 0]
AllSettings == {Faulty, Expiring, Sharing}
=============================================================================
