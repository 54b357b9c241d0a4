--------------------------- MODULE ThreadDispatch ---------------------------
(***************************************************************************)
(* ThreadManager.dispatch on one thread of the server, with the run each   *)
(* dispatch starts, RunService.cancel, and RunLog's events and reader.     *)
(*                                                                         *)
(* A dispatch is an async generator: between two awaits or yields it runs  *)
(* alone, and everything it decided before an await may be stale after it. *)
(* The thread's and the run's rows are written without a condition on what *)
(* they hold, by dispatch and by an admin's PATCH and DELETE alike.        *)
(* External: the engine behind QueryableEngine, the database, the admin,   *)
(* and the consumer, which may leave at a yield (routes/threads.ts 469).   *)
(***************************************************************************)
EXTENDS RunLog

CONSTANTS Calls,        \* calls of dispatch; each starts at most one run, named after it
          Canceller,    \* the caller of RunService.cancel
          Subjects,     \* bound: the calls that meet trouble and whose run clients look at
          Bystanders,   \* bound: the calls that stay away when a run is cancelled; they
                        \* and the cancel request touch nothing in common
          Reporting,    \* calls whose engine reports usage
          MaxResume,    \* bound: the highest Last-Event-ID of a client
          MaxEvents,    \* bound: [Calls -> recorded events of its query]
          MaxTrouble    \* bound: failing database calls, deaths of the server, cancel requests,
                        \* requests of an admin

ASSUME DispatchNames ==
    /\ Runs = Calls /\ Writers = Calls \cup {Canceller} /\ Canceller \notin Calls
    /\ {Subjects, Bystanders, Reporting} \subseteq SUBSET Calls
    /\ MaxResume \in Nat /\ MaxEvents \in [Calls -> Nat] /\ MaxTrouble \in Nat

VARIABLES
    thread,      \* status in the thread's row, or "gone" with the row
    pc,          \* [Calls -> where the call is]
    run,         \* [Calls -> status in the run's row, "none" before the insert]
    known,       \* calls that hold their runId
    events,      \* [Calls -> recorded events of the query]
    usage,       \* [Calls -> dispatchUsage: whose usage it is]
    lastUsage,   \* ThreadManager.lastUsage
    bill,        \* [Calls -> whose usage was billed to the run]
    tokens,      \* [Calls -> whose usage the completed run's row holds]
    request,     \* the cancel request: "new", "write", "record", "recording", "done"
    target,      \* the run it is about
    faults, crashes, edits,
    holding,     \* history: calls that claimed the thread and have not written it since
    claimant,    \* history: the call that set it running, none when an admin did or it is not
    raced,       \* history: two calls had looked at the thread before either claimed it
    disturbed    \* history: an admin, or a call that had released it, wrote it under a holder

rowVars  == <<thread, run>>
money    == <<usage, lastUsage, bill, tokens>>
cancel   == <<request, target>>
budget   == <<faults, crashes, edits>>
history  == <<holding, claimant, raced, disturbed>>
vars     == <<logVars, rowVars, pc, known, events, money, cancel, budget, history>>

None == "none"

\* What a thread may hold; created and completed are as good as idle to this code.
Statuses == {"idle", "running", "error"}

Querying == {"query", "delta", "verdict", "yield"}
\* From the claim to the last write a dispatch owes the thread.
Owing == Querying \cup {"start", "started", "release", "fail", "failing", "settle"}
\* A dispatch is over: its consumer left it, the server died under it, the
\* write of its catch block failed, or it ended otherwise.
CutOff == {"left", "lost", "unmarked"}
Stages == Owing \cup CutOff \cup {"new", "claim", "bill", "complete", "finished", "ended"}

Goto(c, where) == pc' = [pc EXCEPT ![c] = where]
Trouble == faults + crashes + edits + (IF request = "new" THEN 0 ELSE 1) < MaxTrouble
StaysAway(c) == c \in Bystanders /\ request # "new"
Fault(c) == c \in Subjects /\ Trouble /\ faults' = faults + 1 /\ UNCHANGED <<crashes, edits>>

\* ThreadManager.update, by a call or by none of them: no row matches when the
\* row is gone.
Update(status, by) ==
    IF thread = "gone" THEN UNCHANGED <<thread, claimant>>
    ELSE thread' = status /\ claimant' = IF status = "running" THEN by ELSE None

\* Seeded fault: the catch block forgets the run.
CatchAtOnce(c) == "settle"

\* The catch block: a run that is known is failed first.
CatchAt(c) == IF c \in known THEN "fail" ELSE "settle"
Throws(c) == Goto(c, CatchAt(c))

------------------------------------------------------------------------------
(* Admission and claim.                                                      *)

\* Seeded fault: the status is not looked at.
GetUnchecked(c) ==
    /\ pc[c] = "new"
    /\ \E where \in {"claim", "ended"} : Goto(c, where)
    /\ UNCHANGED <<logVars, rowVars, known, events, money, cancel, budget, history>>

\* The thread is read; one that is running or gone is refused, and so is any
\* other one when the quota gate, which the tenant's other threads decide, is
\* closed.
Get(c) ==
    /\ pc[c] = "new" /\ ~StaysAway(c)
    /\ \E where \in {"ended"} \cup (IF thread \in {"running", "gone"} THEN {} ELSE {"claim"}) : Goto(c, where)
    /\ UNCHANGED <<logVars, rowVars, known, events, money, cancel, budget, history>>

\* The thread's status becomes running, whatever it is by now.
Claim(c) ==
    /\ pc[c] = "claim"
    /\ \/ /\ Update("running", c)
          /\ raced' = (raced \/ \E d \in Calls \ {c} : pc[d] = "claim")
          /\ holding' = holding \cup {c}
          /\ Goto(c, "start")
          /\ UNCHANGED budget
       \/ /\ Fault(c)
          /\ Goto(c, "ended")
          /\ UNCHANGED <<thread, holding, claimant, raced>>
    /\ UNCHANGED <<logVars, run, known, events, money, cancel, disturbed>>

------------------------------------------------------------------------------
(* The try block up to the query.                                            *)

\* The template is loaded and its snapshot ensured, which may fail.  Then
\* RunService.start: the row, which refers to the thread's, is inserted and
\* audited; when the audit fails it stays and the dispatch does not know its run.
Start(c) ==
    /\ pc[c] = "start"
    /\ \/ Throws(c) /\ UNCHANGED <<run, known, budget>>
       \/ /\ thread # "gone"
          /\ run' = [run EXCEPT ![c] = "running"]
          /\ known' = known \cup {c}
          /\ Goto(c, "started")
          /\ UNCHANGED budget
       \/ /\ Fault(c)
          /\ \E row \in {None} \cup (IF thread = "gone" THEN {} ELSE {"running"}) :
                 run' = [run EXCEPT ![c] = row]
          /\ Throws(c)
          /\ UNCHANGED known
    /\ UNCHANGED <<logVars, thread, events, money, cancel, history>>

\* The event each stage records, and where it goes on.
EventAt  == [started |-> "run.started", delta |-> "run.output.delta", verdict |-> "run.failed",
             finished |-> "run.completed", failing |-> "run.failed"]
Then == [started |-> "query", delta |-> "yield", verdict |-> "yield",
         finished |-> "ended", failing |-> "settle"]
Swallowed == {"delta", "verdict", "failing"}

NoteEvent(c) ==
    /\ pc[c] \in DOMAIN EventAt
    /\ TakeNumber(c, c, EventAt[pc[c]])
    /\ UNCHANGED <<rowVars, pc, known, events, money, cancel, budget, history>>

EventStored(c) ==
    /\ InsertRow(c)
    /\ UNCHANGED <<rowVars, pc, known, events, money, cancel, budget, history>>

EventLost(c) ==
    /\ InsertFails(c)
    /\ Fault(c)
    /\ IF pc[c] \in Swallowed THEN Goto(c, Then[pc[c]]) ELSE Throws(c)
    /\ UNCHANGED <<rowVars, known, events, money, cancel, history>>

EventPublished(c) ==
    /\ Publish(c)
    /\ Goto(c, Then[pc[c]])
    /\ UNCHANGED <<rowVars, known, events, money, cancel, budget, history>>

------------------------------------------------------------------------------
(* The query.                                                                *)

\* Seeded fault: a result that reports an error settles the run at once.
EngineYieldsAndFails(c) ==
    /\ pc[c] \in {"query", "yield"} /\ events[c] < MaxEvents[c]
    /\ events' = [events EXCEPT ![c] = @ + 1]
    /\ \/ Goto(c, "delta") /\ UNCHANGED run
       \/ Goto(c, "verdict") /\ run' = [run EXCEPT ![c] = "failed"]
    /\ UNCHANGED <<logVars, thread, known, money, cancel, budget, history>>

\* The consumer asks on, and createAndLoad's engine yields an event that
\* recordRunFactsFromRuntimeEvent notes: output, or a result
\* that reports an error, which is noted as run.failed while the query goes on.
EngineYields(c) ==
    /\ pc[c] \in {"query", "yield"} /\ events[c] < MaxEvents[c]
    /\ events' = [events EXCEPT ![c] = @ + 1]
    /\ Goto(c, "delta") \/ Goto(c, "verdict")
    /\ UNCHANGED <<logVars, rowVars, known, money, cancel, budget, history>>

\* The consumer leaves at the yield: only the finally block runs.
Leave(c) ==
    /\ pc[c] = "yield"
    /\ Goto(c, "left")
    /\ holding' = holding \ {c}
    /\ UNCHANGED <<logVars, rowVars, known, events, money, cancel, budget,
                   claimant, raced, disturbed>>

\* query:complete, which an engine emits at the end when it has usage to report.
Reported(c) ==
    IF c \in Reporting THEN usage' = [usage EXCEPT ![c] = c] /\ lastUsage' = c
                       ELSE UNCHANGED <<usage, lastUsage>>

\* createAndLoad throws, or the query ends or throws.
QueryEnds(c) ==
    /\ pc[c] \in {"query", "yield"}
    /\ \/ Reported(c) /\ (Goto(c, "release") \/ Throws(c))
       \/ Throws(c) /\ UNCHANGED <<usage, lastUsage>>
    /\ UNCHANGED <<logVars, rowVars, known, events, bill, tokens, cancel, budget, history>>

------------------------------------------------------------------------------
(* After the query.                                                          *)

\* Seeded fault: the query's end does not write the thread.
ReleaseForgotten(c) ==
    /\ pc[c] = "release"
    /\ Goto(c, "bill")
    /\ UNCHANGED <<logVars, rowVars, known, events, money, cancel, budget, history>>

\* The thread is given back before the run is settled.
Release(c) ==
    /\ pc[c] = "release"
    /\ \/ Update("idle", c) /\ holding' = holding \ {c} /\ Goto(c, "bill") /\ UNCHANGED budget
       \/ Fault(c) /\ Throws(c) /\ UNCHANGED <<thread, holding, claimant>>
    /\ UNCHANGED <<logVars, run, known, events, money, cancel, raced, disturbed>>

\* Seeded fault: the shared usage is billed.
BillLastUsage(c) ==
    /\ pc[c] = "bill"
    /\ \/ bill' = [bill EXCEPT ![c] = lastUsage] /\ UNCHANGED budget
       \/ Fault(c) /\ UNCHANGED bill
    /\ Goto(c, "complete")
    /\ UNCHANGED <<logVars, rowVars, known, events, usage, lastUsage, tokens, cancel, history>>

\* recordBillingUsage: nothing without usage, and a failure is only logged.
Bill(c) ==
    /\ pc[c] = "bill"
    /\ \/ bill' = [bill EXCEPT ![c] = usage[c]] /\ UNCHANGED budget
       \/ Fault(c) /\ UNCHANGED bill
    /\ Goto(c, "complete")
    /\ UNCHANGED <<logVars, rowVars, known, events, usage, lastUsage, tokens, cancel, history>>

\* Seeded fault: a status no client knows.
CompleteAsDone(c) ==
    /\ pc[c] = "complete"
    /\ run' = [run EXCEPT ![c] = "done"]
    /\ tokens' = [tokens EXCEPT ![c] = usage[c]]
    /\ Goto(c, "finished")
    /\ UNCHANGED <<logVars, thread, known, events, usage, lastUsage, bill, cancel, budget, history>>

\* RunService.complete: the row, then its audit, which may fail after it.
Complete(c) ==
    /\ pc[c] = "complete"
    /\ \/ /\ run' = [run EXCEPT ![c] = "completed"]
          /\ tokens' = [tokens EXCEPT ![c] = usage[c]]
          /\ \/ Goto(c, "finished") /\ UNCHANGED budget
             \/ Fault(c) /\ Throws(c)
       \/ Fault(c) /\ Throws(c) /\ UNCHANGED <<run, tokens>>
    /\ UNCHANGED <<logVars, thread, known, events, usage, lastUsage, bill, cancel, history>>

------------------------------------------------------------------------------
(* The catch block; each of its own failures is swallowed.                   *)

\* Seeded fault: the run is failed and no event says so.
FailSilently(c) ==
    /\ pc[c] = "fail"
    /\ run' = [run EXCEPT ![c] = "failed"]
    /\ Goto(c, "settle")
    /\ UNCHANGED <<logVars, thread, known, events, money, cancel, budget, history>>

\* RunService.fail: the row and its audit.
Fail(c) ==
    /\ pc[c] = "fail"
    /\ \/ run' = [run EXCEPT ![c] = "failed"] /\ UNCHANGED budget
       \/ Fault(c) /\ UNCHANGED run
    /\ Goto(c, "failing")
    /\ UNCHANGED <<logVars, thread, known, events, money, cancel, history>>

\* The thread is marked, whoever is in charge of it by now; the error is
\* rethrown and the engine destroyed.
Settle(c) ==
    /\ pc[c] = "settle"
    /\ \/ /\ Update("error", c)
          /\ disturbed' = (disturbed \/ (c \notin holding /\ holding # {}))
          /\ Goto(c, "ended")
          /\ UNCHANGED budget
       \/ /\ Fault(c)
          /\ Goto(c, "unmarked")
          /\ UNCHANGED <<thread, claimant, disturbed>>
    /\ holding' = holding \ {c}
    /\ UNCHANGED <<logVars, run, known, events, money, cancel, raced>>

------------------------------------------------------------------------------
(* The admin, the cancel request, the reader, the server's death.            *)

\* PATCH: an admin sets the thread's status, whatever it is by now.
Edit(status) ==
    /\ thread # "gone" /\ Trouble
    /\ Update(status, None)
    /\ edits' = edits + 1
    /\ disturbed' = (disturbed \/ (status # "running" /\ holding # {}))
    /\ UNCHANGED <<logVars, pc, run, known, events, money, cancel, faults, crashes, holding, raced>>

\* DELETE: the row goes; the database refuses as long as a run refers to it.
Delete ==
    /\ thread # "gone" /\ Trouble
    /\ \A c \in Calls : run[c] = None
    /\ thread' = "gone" /\ claimant' = None
    /\ edits' = edits + 1
    /\ UNCHANGED <<logVars, pc, run, known, events, money, cancel, faults, crashes,
                   holding, raced, disturbed>>

\* RunService.cancel reads the run and refuses one that is not running.
CancelReads(c) ==
    /\ request = "new" /\ c \in Subjects /\ run[c] # None /\ Trouble
    /\ \A d \in Bystanders : pc[d] = "new"
    /\ target' = c
    /\ request' = IF run[c] = "running" THEN "write" ELSE "done"
    /\ UNCHANGED <<logVars, rowVars, pc, known, events, money, budget, history>>

\* The run is cancelled, whatever it is by now; the dispatch is not told.
CancelWrites ==
    /\ request = "write"
    /\ \/ run' = [run EXCEPT ![target] = "cancelled"] /\ request' = "record"
       \/ request' = "done" /\ UNCHANGED run
    /\ UNCHANGED <<logVars, thread, pc, known, events, money, target, budget, history>>

CancelNotes ==
    /\ \/ /\ request = "record"
          /\ TakeNumber(Canceller, target, "run.cancelled")
          /\ request' = "recording"
       \/ InsertRow(Canceller) /\ UNCHANGED request
       \/ InsertFails(Canceller) /\ request' = "done"
       \/ Publish(Canceller) /\ request' = "done"
    /\ UNCHANGED <<rowVars, pc, known, events, money, target, budget, history>>

\* A client opens the stream of a run, and the stream goes on.
OpenRunStream(c) ==
    /\ c \in Subjects /\ run[c] # None
    /\ \E id \in {0} \cup {n \in Numbers(rows[c]) : n <= MaxResume} : OpenStream(c, run[c], id)
    /\ UNCHANGED <<rowVars, pc, known, events, money, cancel, budget, history>>

Reader ==
    /\ ReadHistory \/ HistoryFails \/ Follow \/ HangUp
    /\ UNCHANGED <<rowVars, pc, known, events, money, cancel, budget, history>>

\* The server dies and comes up again: the rows are all that is left.
Crash ==
    /\ Trouble
    /\ crashes' = crashes + 1
    /\ LogCrash
    /\ pc' = [c \in Calls |-> IF pc[c] \in CutOff \cup {"new", "ended"} THEN pc[c] ELSE "lost"]
    /\ holding' = {}
    /\ lastUsage' = None
    /\ request' = IF request = "new" THEN "new" ELSE "done"
    /\ UNCHANGED <<rowVars, known, events, usage, bill, tokens, target, faults, edits,
                   claimant, raced, disturbed>>

------------------------------------------------------------------------------
Init ==
    /\ LogInit
    /\ watched = CHOOSE c \in Calls : TRUE
    /\ thread = "idle"
    /\ pc = [c \in Calls |-> "new"]
    /\ run = [c \in Calls |-> None]
    /\ known = {}
    /\ events = [c \in Calls |-> 0]
    /\ usage = [c \in Calls |-> None] /\ lastUsage = None
    /\ bill = [c \in Calls |-> None] /\ tokens = [c \in Calls |-> None]
    /\ request = "new" /\ target = CHOOSE c \in Calls : TRUE
    /\ faults = 0 /\ crashes = 0 /\ edits = 0
    /\ holding = {} /\ claimant = None /\ raced = FALSE /\ disturbed = FALSE

\* A step of the call that its generator, or what it awaits, owes.
CallStep(c) ==
    \/ Get(c) \/ Claim(c) \/ Start(c)
    \/ NoteEvent(c) \/ EventStored(c) \/ EventLost(c) \/ EventPublished(c)
    \/ EngineYields(c) \/ Leave(c) \/ QueryEnds(c)
    \/ Release(c) \/ Bill(c) \/ Complete(c) \/ Fail(c) \/ Settle(c)

Next ==
    \/ \E c \in Calls : CallStep(c) \/ CancelReads(c) \/ OpenRunStream(c)
    \/ (\E status \in Statuses : Edit(status)) \/ Delete
    \/ CancelWrites \/ CancelNotes \/ Reader \/ Crash

Spec == Init /\ [][Next]_vars

\* A call in progress goes on: the database and the factory answer, the query
\* ends (bounded by MaxEvents here) and the consumer takes or leaves what is
\* yielded.  Nobody owes a first call, an admin, a cancellation or a reader.
FairSpec == Spec /\ \A c \in Calls : WF_vars(pc[c] # "new" /\ CallStep(c))

------------------------------------------------------------------------------
(* Properties.                                                               *)

\* The type of every variable: a row holds a status, a bill a dispatch's usage.
TypeOK ==
    /\ LogTypeOK
    /\ thread \in Statuses \cup {"gone"}
    /\ pc \in [Calls -> Stages]
    /\ run \in [Calls -> TerminalStatuses \cup {"running", None}]
    /\ known \in SUBSET Calls
    /\ \A c \in Calls : events[c] \in 0..MaxEvents[c]
    /\ {usage, bill, tokens} \subseteq [Calls -> Calls \cup {None}]
    /\ lastUsage \in Calls \cup {None}
    /\ request \in {"new", "write", "record", "recording", "done"} /\ target \in Calls
    /\ faults \in 0..MaxTrouble /\ crashes \in 0..MaxTrouble /\ edits \in 0..MaxTrouble
    /\ holding \in SUBSET Calls /\ claimant \in Calls \cup {None}
    /\ raced \in BOOLEAN /\ disturbed \in BOOLEAN

\* Two dispatches query on the thread at once only if both had looked at its
\* status before either claimed it (thread-manager.ts 390-404), if one that
\* had given it back failed afterwards and marked it under the other (603-700),
\* or if an admin took it from the one that held it (routes/threads.ts 320).
OneQueryPerThread ==
    \A c, d \in Calls :
        pc[c] \in Querying /\ pc[d] \in Querying /\ c # d => raced \/ disturbed

\* The dispatch that set a running thread running is still in progress, with a
\* write of the thread ahead of it, or was cut off: its consumer left, the
\* server died, or the write of its catch block failed.  No dispatch ends by
\* itself and leaves the thread refused to every later one.  Of a thread that an
\* admin set running nothing is said: nobody owes it a write.
RunningThreadIsAttended ==
    thread = "running" /\ claimant # None => pc[claimant] \in Owing \cup CutOff

\* A dispatch that is over has settled its run, unless the consumer left, the
\* server died under it or the database refused: also a dispatch that failed
\* before the engine existed.
EndedRunIsSettled ==
    \A c \in Calls : pc[c] \in {"ended", "unmarked"} /\ run[c] = "running" => faults > 0

\* Billing and the run's row agree on the dispatch's own usage, however many
\* dispatches share the ThreadManager; they part only when a write fails.
UsageIsItsOwn ==
    \A c \in Calls :
        /\ {bill[c], tokens[c]} \subseteq {None, c}
        /\ tokens[c] # bill[c] /\ run[c] = "completed" => faults > 0

\* The outcome in a run's row is final, unless the run is the subject of a
\* cancel request (which neither stops its dispatch nor is respected by it) or
\* a call of the database failed.
OutcomeIsFinal ==
    [][\A c \in Calls :
           run[c] \in TerminalStatuses /\ run'[c] # run[c] =>
               (request # "new" /\ target = c) \/ faults > 0]_vars

\* The run's last event is behind the stream: it was replayed, or the client
\* had it before.
ReplayedTheEnd == \E row \in rows[watched] : row.type \in TerminalTypes /\ row.seq <= last

\* A client that follows a run is told its end, or hangs up, or: the end was
\* in the history (only the status read before the replay closes the stream,
\* routes/runs.ts 281), an event was lost between replay and subscription or
\* to a second writer, the consumer left the dispatch or the server died under
\* it, or a write failed.
StreamEnds ==
    watching = "live" ~>
        \/ watching # "live"
        \/ ReplayedTheEnd \/ late \/ watched \in contended
        \/ pc[watched] \in {"left", "lost"} \/ faults > 0
==============================================================================
