--------------------------- MODULE RunEventStream ---------------------------
(***************************************************************************)
(* GET /runs/{id}/events (api/v1/runs.py): the generator iter_sse_events   *)
(* polls the event log of one run while workers append to it, and a client *)
(* reconnects with the Last-Event-ID it recorded.                          *)
(*                                                                         *)
(* The log is the one of a run in RunLog, which AgentRuns implements:      *)
(* append-only, and a terminal event is the last one and is committed      *)
(* together with the terminal status of the run.  Each read of the         *)
(* generator is a statement of its own under READ COMMITTED, so the log    *)
(* may grow between two reads.                                             *)
(***************************************************************************)
EXTENDS Integers, Sequences, FiniteSets

CONSTANTS
    MaxEvents,       \* bound: how many events the run ever has
    PageLimit,       \* limit of list_events_after
    MaxDisconnects   \* bound: how many connections the network breaks

ASSUME StreamAssumption ==
    /\ MaxEvents \in Nat \ {0}
    /\ PageLimit \in Nat \ {0}
    /\ MaxDisconnects \in Nat

VARIABLES
    logged,       \* the highest sequence_no in agent_events
    finished,     \* the run is terminal; the event `logged` is its terminal event
    stream,       \* where the generator stands
    cursor,       \* its local variable cursor
    page,         \* the events fetched and not yet yielded
    received,     \* every sequence_no the client received, in order, duplicates included
    lastId,       \* the Last-Event-ID the client recorded
    disconnects   \* against MaxDisconnects

streamVars == <<logged, finished, stream, cursor, page, received, lastId, disconnects>>

\* off: no connection.  closed: the generator returned.  list, emit, check,
\* sleep: the points of iter_sse_events between which other transactions commit.
StreamStates == {"off", "closed", "list", "emit", "check", "sleep"}
Ids == 1..MaxEvents

StreamTypeOK ==
    /\ logged \in 0..MaxEvents
    /\ finished \in BOOLEAN
    /\ stream \in StreamStates
    /\ cursor \in 0..MaxEvents
    /\ page \in Seq(Ids)
    /\ received \in Seq(Ids)
    /\ lastId \in 0..MaxEvents
    /\ disconnects \in 0..MaxDisconnects

StreamInit ==
    /\ logged = 1          \* RUN_QUEUED is committed with the run
    /\ finished = FALSE
    /\ stream = "off"
    /\ cursor = 0
    /\ page = <<>>
    /\ received = <<>>
    /\ lastId = 0
    /\ disconnects = 0

MinOf(a, b) == IF a <= b THEN a ELSE b

-----------------------------------------------------------------------------
(* The writers of the log: handlers and HTTP operations of AgentRuns. *)

AppendEvent ==
    /\ ~finished
    /\ logged < MaxEvents
    /\ logged' = logged + 1
    /\ finished' \in {finished, TRUE}
    /\ UNCHANGED <<stream, cursor, page, received, lastId, disconnects>>

-----------------------------------------------------------------------------
(* The client and the generator. *)

\* stream_run_events: the cursor is what parse_last_event_id read.
ConnectAt(n) ==
    /\ stream \in {"off", "closed"}
    /\ stream' = "list"
    /\ cursor' = n
    /\ page' = <<>>
    /\ UNCHANGED <<logged, finished, received, lastId, disconnects>>
ConnectAtTheEnd == ConnectAt(logged)    \* mutant
ConnectAtTheStart == ConnectAt(0)    \* mutant
Connect == ConnectAt(lastId)

\* list_events_after: the first PageLimit events after the cursor.
Fetched == [i \in 1..MinOf(PageLimit, logged - cursor) |-> cursor + i]
ListEvents ==
    /\ stream = "list"
    /\ page' = Fetched
    /\ stream' = IF Fetched = <<>> THEN "check" ELSE "emit"
    /\ UNCHANGED <<logged, finished, cursor, received, lastId, disconnects>>

\* The terminal event is the last event of a finished run.
IsTerminal(n) == finished /\ n = logged

\* yield, then the cursor moves; a terminal event ends the generator, the last
\* event of a page sends it back to the log.
Emit ==
    /\ stream = "emit"
    /\ received' = Append(received, Head(page))
    /\ lastId' = Head(page)
    /\ cursor' = Head(page)
    /\ page' = Tail(page)
    /\ stream' = CASE IsTerminal(Head(page)) -> "closed"
                   [] ~IsTerminal(Head(page)) /\ Tail(page) = <<>> -> "list"
                   [] OTHER -> "emit"
    /\ UNCHANGED <<logged, finished, disconnects>>

\* An empty page: the generator ends if the run is terminal, else it sleeps.
Check ==
    /\ stream = "check"
    /\ stream' = IF finished THEN "closed" ELSE "sleep"
    /\ UNCHANGED <<logged, finished, cursor, page, received, lastId, disconnects>>

\* sleep(poll_seconds), then the next poll.
SleepForEver == stream = "sleep" /\ UNCHANGED streamVars    \* mutant
Sleep ==
    /\ stream = "sleep"
    /\ stream' = "list"
    /\ UNCHANGED <<logged, finished, cursor, page, received, lastId, disconnects>>

\* The connection breaks: the generator is cancelled, the run goes on.  The
\* client may have received the event in flight without recording its id.
Disconnect ==
    /\ stream \notin {"off", "closed"}
    /\ disconnects < MaxDisconnects
    /\ disconnects' = disconnects + 1
    /\ stream' = "off"
    /\ page' = <<>>
    /\ \/ UNCHANGED received
       \/ stream = "emit" /\ received' = Append(received, Head(page))
    /\ UNCHANGED <<logged, finished, cursor, lastId>>

StreamNext == AppendEvent \/ Connect \/ ListEvents \/ Emit \/ Check \/ Sleep \/ Disconnect

StreamSpec == StreamInit /\ [][StreamNext]_streamVars

\* The generator runs while it is connected, a client without the terminal
\* event connects again, and the run ends (AgentRuns: EveryRunSettles).
FairStreamSpec ==
    /\ StreamSpec
    /\ WF_streamVars(AppendEvent)
    /\ WF_streamVars(Connect)
    /\ WF_streamVars(ListEvents)
    /\ WF_streamVars(Emit)
    /\ WF_streamVars(Check)
    /\ WF_streamVars(Sleep)

-----------------------------------------------------------------------------
(* Properties. *)

Has(n) == \E i \in DOMAIN received : received[i] = n

\* Over any number of broken connections, the client receives each event only
\* after all the earlier ones: no event is skipped or overtaken.
InOrderWithoutGaps ==
    \A i \in DOMAIN received : \A n \in 1..(received[i] - 1) :
        \E k \in 1..(i - 1) : received[k] = n

\* An event is delivered twice only because a connection broke before the
\* client recorded its id: polling, paging and orderly reconnects repeat nothing.
RepeatsOnlyAfterDisconnect ==
    Len(received) - Cardinality({received[i] : i \in DOMAIN received}) <= disconnects

\* What the generator reads is the log of one run as RunLog describes it.
\* AppendEvent takes every step of RunLog, up to MaxEvents, and nothing else here
\* touches the log, so that what holds of the stream holds over any such log.
TheLog == [r \in {1} |-> [length |-> logged,
                          state |-> IF finished THEN "closed" ELSE "open",
                          ends |-> {n \in 1..logged : IsTerminal(n)}]]
ReadLog == INSTANCE RunLog WITH LogRuns <- {1}, log <- TheLog

\* A run that ended is reported to a client that keeps reconnecting.
TerminalIsDelivered == finished ~> Has(logged)
=============================================================================
