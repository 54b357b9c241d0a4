------------------------------- MODULE RunLog -------------------------------
(***************************************************************************)
(* The events of the server's runs and one reader of them: run_events rows *)
(* written by RunFactService.recordEvent, the in-memory RunEventBus, and   *)
(* GET /runs/:runId/events/stream, which replays the table and then        *)
(* follows the bus.                                                        *)
(*                                                                         *)
(* recordEvent reads the highest number, inserts a row, and publishes it   *)
(* when the insert has returned: three steps, between which other writers  *)
(* of the same run and the reader go on.  The table has no unique index on *)
(* (run_id, sequence), so two writers may take the same number.            *)
(***************************************************************************)
EXTENDS Integers, FiniteSets

CONSTANTS Runs,      \* runs of the server
          Writers    \* callers of recordEvent, one event at a time each

TerminalTypes == {"run.completed", "run.failed", "run.cancelled"}
EventTypes == TerminalTypes \cup {"run.started", "run.output.delta"}
TerminalStatuses == {"completed", "failed", "cancelled"}

VARIABLES
    rows,        \* [Runs -> set of rows]: the table run_events
    write,       \* [Writers -> the event being recorded]
    watching,    \* the stream's stage: "none", "opened", "replaying", "live", "ended"
    watched,     \* the run it was opened for
    seen,        \* the run's status, read when it was opened
    from,        \* the client's Last-Event-ID
    last,        \* lastSentSequence
    page,        \* the history query's answer
    got,         \* rows sent to the client
    contended,   \* history: runs that ever had two events in the recording at once
    late         \* history: an event went by between the history query and the subscription

stream  == <<watching, watched, seen, from, last, page, got, late>>
logVars == <<rows, write, stream, contended>>

Row == [seq : Nat, type : EventTypes, by : Writers]
Free == [stage |-> "free"]
Recording == [stage : {"numbered", "inserted"}, run : Runs, row : Row]

Busy(w, r) == write[w] # Free /\ write[w].run = r

Numbers(S) == {row.seq : row \in S}
\* coalesce(max(sequence), 0)
Highest(S) == IF S = {} THEN 0 ELSE CHOOSE n \in Numbers(S) : \A m \in Numbers(S) : m <= n

------------------------------------------------------------------------------
(* recordEvent.                                                              *)

\* The number is read.
TakeNumber(w, r, type) ==
    /\ write[w] = Free
    /\ write' = [write EXCEPT ![w] =
           [stage |-> "numbered", run |-> r,
            row |-> [seq |-> Highest(rows[r]) + 1, type |-> type, by |-> w]]]
    /\ contended' = IF \E x \in Writers \ {w} : Busy(x, r) THEN contended \cup {r} ELSE contended
    /\ UNCHANGED <<rows, stream>>

\* The row is in the table; the writer has not heard of it yet.
InsertRow(w) ==
    /\ write[w] # Free /\ write[w].stage = "numbered"
    /\ rows' = [rows EXCEPT ![write[w].run] = @ \cup {write[w].row}]
    /\ write' = [write EXCEPT ![w].stage = "inserted"]
    /\ UNCHANGED <<stream, contended>>

\* The insert fails: no row, and recordEvent throws.
InsertFails(w) ==
    /\ write[w] # Free /\ write[w].stage = "numbered"
    /\ write' = [write EXCEPT ![w] = Free]
    /\ UNCHANGED <<rows, stream, contended>>

\* What the stream's subscriber does with an event of run r; a stream that has
\* read its history but not subscribed hears nothing.
Hear(r, row) ==
    IF watching = "live" /\ watched = r /\ row.seq > last
    THEN /\ got' = got \cup {row}
         /\ last' = row.seq
         /\ watching' = IF row.type \in TerminalTypes THEN "ended" ELSE "live"
         /\ UNCHANGED late
    ELSE /\ late' = (late \/ (watching = "replaying" /\ watched = r /\ row \notin page))
         /\ UNCHANGED <<got, last, watching>>

\* runEventBus.publish, in the continuation of the insert.
Publish(w) ==
    /\ write[w] # Free /\ write[w].stage = "inserted"
    /\ Hear(write[w].run, write[w].row)
    /\ write' = [write EXCEPT ![w] = Free]
    /\ UNCHANGED <<rows, watched, seen, from, page, contended>>

------------------------------------------------------------------------------
(* GET /runs/:runId/events/stream.                                           *)

\* The run's row is read; Last-Event-ID is a number the client was sent, or 0.
OpenStream(r, status, id) ==
    /\ watching = "none"
    /\ watching' = "opened"
    /\ watched' = r /\ seen' = status
    /\ from' = id /\ last' = id
    /\ UNCHANGED <<rows, write, page, got, contended, late>>

\* Seeded fault: the history query leaves out one row too many.
ReadHistoryAfterNext ==
    /\ watching = "opened"
    /\ watching' = "replaying"
    /\ page' = {row \in rows[watched] : row.seq > last + 1}
    /\ UNCHANGED <<rows, write, watched, seen, from, last, got, contended, late>>

\* The history query.
ReadHistory ==
    /\ watching = "opened"
    /\ watching' = "replaying"
    /\ page' = {row \in rows[watched] : row.seq > last}
    /\ UNCHANGED <<rows, write, watched, seen, from, last, got, contended, late>>

\* The stream is closed early, and its variables with it; a client may open
\* another one.
CloseStream ==
    /\ watching' = "none"
    /\ seen' = "running" /\ from' = 0 /\ last' = 0
    /\ page' = {} /\ got' = {} /\ late' = FALSE
    /\ UNCHANGED watched

HistoryFails ==
    /\ watching = "opened"
    /\ CloseStream
    /\ UNCHANGED <<rows, write, contended>>

\* Seeded fault: lastSentSequence is not moved by the replay.
FollowFromStart ==
    /\ watching = "replaying"
    /\ got' = page /\ page' = {}
    /\ watching' = IF seen \in TerminalStatuses THEN "ended" ELSE "live"
    /\ UNCHANGED <<rows, write, watched, seen, from, last, contended, late>>

\* The answer arrives: the history is sent in the order of its numbers, and in
\* the same step the stream is closed, if the run was over when its row was
\* read, or subscribed to the bus.
Follow ==
    /\ watching = "replaying"
    /\ got' = page
    /\ last' = IF page = {} THEN last ELSE Highest(page)
    /\ page' = {}
    /\ watching' = IF seen \in TerminalStatuses THEN "ended" ELSE "live"
    /\ UNCHANGED <<rows, write, watched, seen, from, contended, late>>

\* The client hangs up.  The close handler is installed after the
\* subscription: a client that hangs up earlier goes unnoticed, and the stream
\* goes on to nobody.
HangUp ==
    /\ watching = "live"
    /\ CloseStream
    /\ UNCHANGED <<rows, write, contended>>

\* The server dies: what is in the table stays.
LogCrash ==
    /\ write' = [w \in Writers |-> Free]
    /\ CloseStream
    /\ UNCHANGED <<rows, contended>>

LogInit ==
    /\ rows = [r \in Runs |-> {}]
    /\ write = [w \in Writers |-> Free]
    /\ watching = "none" /\ watched \in Runs /\ seen = "running"
    /\ from = 0 /\ last = 0
    /\ page = {} /\ got = {}
    /\ late = FALSE
    /\ contended = {}

LogNext ==
    \/ \E w \in Writers, r \in Runs, type \in EventTypes : TakeNumber(w, r, type)
    \/ \E w \in Writers : InsertRow(w) \/ InsertFails(w) \/ Publish(w)
    \/ \E r \in Runs, status \in TerminalStatuses \cup {"running"} :
           \E id \in {0} \cup Numbers(rows[r]) : OpenStream(r, status, id)
    \/ ReadHistory \/ HistoryFails \/ Follow \/ HangUp \/ LogCrash

\* The log by itself, for any writers: what ThreadDispatch implements.
LogSpec == LogInit /\ [][LogNext]_logVars

------------------------------------------------------------------------------
(* Properties.                                                               *)

\* The type of every variable: the table, the events in the recording, the stream.
LogTypeOK ==
    /\ rows \in [Runs -> SUBSET Row]
    /\ write \in [Writers -> Recording \cup {Free}]
    /\ watching \in {"none", "opened", "replaying", "live", "ended"}
    /\ watched \in Runs
    /\ seen \in TerminalStatuses \cup {"running"}
    /\ from \in Nat /\ last \in Nat
    /\ page \in SUBSET Row /\ got \in SUBSET Row
    /\ late \in BOOLEAN
    /\ contended \in SUBSET Runs

\* A row whose writer has yet to publish it.
Unpublished(r, row) == write[row.by] # Free /\ write[row.by] = [stage |-> "inserted", run |-> r, row |-> row]

\* As long as one event of the run is recorded at a time, a client that
\* follows the run has every published row after its Last-Event-ID, unless one
\* was published between the history query and the subscription: replay,
\* numbering and the subscriber's filter (routes/runs.ts 260-297) lose nothing
\* else.
StreamIsComplete ==
    watching = "live" /\ watched \notin contended /\ ~late =>
        \A row \in rows[watched] : row.seq > from => row \in got \/ Unpublished(watched, row)

\* Whatever the writers do, the client is never sent a row it has, nor one
\* that is older than a row it has: an event the bus delivers has a number
\* above every number sent before (lastSentSequence, routes/runs.ts 293).
StreamMovesForward ==
    [][watching' # "none" =>
           /\ got \subseteq got' /\ last <= last'
           /\ last' = last => got' = got
           /\ \A new \in got' \ got, old \in got : old.seq < new.seq]_logVars
==============================================================================
