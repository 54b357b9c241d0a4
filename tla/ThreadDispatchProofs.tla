------------------------ MODULE ThreadDispatchProofs ------------------------
(***************************************************************************)
(* For any number of dispatches, events, faults, edits, crashes, readers:  *)
(* ThreadDispatch implements the run log, and its thread, its runs and its *)
(* bills stay as its properties say.  The invariant follows the dispatch:  *)
(* what holds at each stage of a call, and who set the thread running.     *)
(***************************************************************************)
EXTENDS ThreadDispatch, RunLogProofs, TLAPS

Early == {"new", "claim", "start"}
Held == Querying \cup {"started", "release"}
Before == Held \cup {"bill", "complete"}
After == {"finished", "fail", "failing", "settle", "ended"} \cup CutOff
Noting == {"started", "delta", "verdict", "finished", "failing"}

Cancelled(c) == request # "new" /\ target = c

Types ==
    /\ thread \in Statuses \cup {"gone"}
    /\ pc \in [Calls -> Stages]
    /\ run \in [Calls -> TerminalStatuses \cup {"running", None}]
    /\ known \in SUBSET Calls
    /\ events \in [Calls -> Nat] /\ \A c \in Calls : events[c] \in 0..MaxEvents[c]
    /\ usage \in [Calls -> Calls \cup {None}]
    /\ bill \in [Calls -> Calls \cup {None}]
    /\ tokens \in [Calls -> Calls \cup {None}]
    /\ lastUsage \in Calls \cup {None}
    /\ request \in {"new", "write", "record", "recording", "done"} /\ target \in Calls
    /\ faults \in 0..MaxTrouble /\ crashes \in 0..MaxTrouble /\ edits \in 0..MaxTrouble
    /\ holding \in SUBSET Calls /\ claimant \in Calls \cup {None}
    /\ raced \in BOOLEAN /\ disturbed \in BOOLEAN

\* What a call has done when it is at its stage.
CallInv(c) ==
    /\ write[c] # Free => pc[c] \in Noting
    /\ pc[c] \in Early => run[c] = None
    /\ pc[c] \in Before \cup {"finished", "fail"} => c \in known
    /\ c \in known => run[c] # None
    /\ pc[c] \in {"finished", "failing", "settle"} => run[c] # "running" \/ faults > 0
    /\ pc[c] \in {"ended", "unmarked"} /\ run[c] = "running" => faults > 0
    /\ usage[c] \in {None, c} /\ bill[c] \in {None, c} /\ tokens[c] \in {None, c}
    /\ pc[c] = "complete" => bill[c] = usage[c] \/ faults > 0
    /\ run[c] = "completed" => pc[c] \in After /\ (tokens[c] = bill[c] \/ faults > 0)
    /\ run[c] \in TerminalStatuses /\ pc[c] \in Before \cup {"fail"} => Cancelled(c) \/ faults > 0

\* Who holds the thread: a call from its claim to its release, or its catch block.
ThreadInv ==
    /\ \A c \in Calls : pc[c] \in Held \cup {"start"} => c \in holding
    /\ \A c \in holding : pc[c] \in Owing
    /\ ~raced /\ ~disturbed =>
         /\ \A c, d \in holding : c = d
         /\ holding # {} =>
              thread \in {"running", "gone"} /\ \A c \in Calls : pc[c] # "claim"
    /\ RunningThreadIsAttended

DispatchInv ==
    /\ Types /\ (\A c \in Calls : CallInv(c)) /\ ThreadInv
    /\ request # "new" => run[target] # None
    /\ thread = "gone" => \A c \in Calls : run[c] = None

\* The canceller records its event when it is asked to.
CancellerInv == write[Canceller] # Free => request = "recording"

------------------------------------------------------------------------------
(* What the steps have in common.                                            *)

\* A step that moves one call leaves the others where they are.
LEMMA GotoEffect ==
    ASSUME Types, NEW c \in Calls, NEW where \in Stages, Goto(c, where)
    PROVE  /\ pc' \in [Calls -> Stages] /\ pc'[c] = where
           /\ \A d \in Calls \ {c} : pc'[d] = pc[d]
BY DEF Types, Goto

\* A call that throws goes to its catch block.
LEMMA ThrowsEffect ==
    ASSUME Types, NEW c \in Calls, Throws(c)
    PROVE  /\ pc' \in [Calls -> Stages] /\ pc'[c] = (IF c \in known THEN "fail" ELSE "settle")
           /\ \A d \in Calls \ {c} : pc'[d] = pc[d]
BY GotoEffect DEF Throws, CatchAt, Stages, Owing, CutOff, Querying

\* Trouble is counted.
LEMMA FaultCounts ==
    ASSUME Types, NEW c \in Calls, Fault(c)
    PROVE  faults' \in 0..MaxTrouble /\ faults' > 0 /\ crashes' = crashes /\ edits' = edits
<1> DEFINE asked == IF request = "new" THEN 0 ELSE 1
<1>1. /\ faults + crashes + edits + asked < MaxTrouble /\ faults' = faults + 1
      /\ crashes' = crashes /\ edits' = edits
    BY DEF Fault, Trouble
<1>2. asked \in Nat /\ faults \in Nat /\ crashes \in Nat /\ edits \in Nat /\ MaxTrouble \in Nat
    BY DispatchNames DEF Types
<1> HIDE DEF asked
<1> QED BY <1>1, <1>2

\* An admin's request is counted as trouble, too.
LEMMA EditCounts ==
    ASSUME Types, Trouble, edits' = edits + 1
    PROVE  edits' \in 0..MaxTrouble
<1> DEFINE asked == IF request = "new" THEN 0 ELSE 1
<1>1. faults + crashes + edits + asked < MaxTrouble
    BY DEF Trouble
<1>2. asked \in Nat /\ faults \in Nat /\ crashes \in Nat /\ edits \in Nat /\ MaxTrouble \in Nat
    BY DispatchNames DEF Types
<1> HIDE DEF asked
<1> QED BY <1>1, <1>2

\* A write of the thread's row reaches it, or finds it gone.
LEMMA UpdateEffect ==
    ASSUME Types, NEW status \in Statuses, NEW by \in Calls \cup {None}, Update(status, by)
    PROVE  /\ thread' \in Statuses \cup {"gone"} /\ claimant' \in Calls \cup {None}
           /\ thread' = "gone" <=> thread = "gone"
           /\ thread # "gone" => thread' = status
           /\ thread' = "running" => claimant' = by
BY DEF Types, Update, Statuses

\* What the invariant says of a call outlives a step that leaves the call alone.
Same(c) ==
    /\ pc'[c] = pc[c] /\ run'[c] = run[c]
    /\ usage'[c] = usage[c] /\ bill'[c] = bill[c] /\ tokens'[c] = tokens[c]
    /\ write'[c] # Free => write[c] # Free
    /\ c \in known <=> c \in known'
    /\ faults > 0 => faults' > 0
    /\ Cancelled(c) => Cancelled(c)'

\* What holds of a call holds after a step that leaves it the same.
LEMMA SameKeeps ==
    ASSUME NEW c \in Calls, CallInv(c), Same(c)
    PROVE  CallInv(c)'
BY DEF CallInv, Same

------------------------------------------------------------------------------
(* ThreadDispatch implements the run log: what it does to the log's          *)
(* variables is a step of the log.                                           *)

\* Every step is a step of the log or leaves it alone.
LEMMA LogSimulation ==
    ASSUME Types, Next
    PROVE  LogNext \/ UNCHANGED logVars
<1> USE DispatchNames
<1>1. CASE \E c \in Calls : CallStep(c)
    <2>1. PICK c \in Calls : CallStep(c)
        BY <1>1
    <2>2. CASE NoteEvent(c)
        <3>1. pc[c] \in DOMAIN EventAt /\ TakeNumber(c, c, EventAt[pc[c]])
            BY <2>2 DEF NoteEvent
        <3>2. EventAt[pc[c]] \in EventTypes
            BY <3>1 DEF EventAt, EventTypes, TerminalTypes
        <3> QED BY <3>1, <3>2 DEF LogNext
    <2>3. CASE EventStored(c) \/ EventLost(c) \/ EventPublished(c)
        BY <2>3 DEF EventStored, EventLost, EventPublished, LogNext
    <2>4. CASE \/ Get(c) \/ Claim(c) \/ Start(c) \/ EngineYields(c) \/ Leave(c) \/ QueryEnds(c)
               \/ Release(c) \/ Bill(c) \/ Complete(c) \/ Fail(c) \/ Settle(c)
        BY <2>4 DEF Get, Claim, Start, EngineYields, Leave, QueryEnds, Release, Bill, Complete,
                    Fail, Settle
    <2> QED BY <2>1, <2>2, <2>3, <2>4 DEF CallStep
<1>2. CASE \E c \in Calls : OpenRunStream(c)
    <2>1. PICK c \in Calls : OpenRunStream(c)
        BY <1>2
    <2>2. run[c] \in TerminalStatuses \cup {"running"}
        BY <2>1 DEF OpenRunStream, Types
    <2>3. \E id \in {0} \cup Numbers(rows[c]) : OpenStream(c, run[c], id)
        BY <2>1 DEF OpenRunStream
    <2> QED BY <2>2, <2>3 DEF LogNext
<1>3. CASE CancelNotes
    <2>1. \/ TakeNumber(Canceller, target, "run.cancelled")
          \/ InsertRow(Canceller) \/ InsertFails(Canceller) \/ Publish(Canceller)
        BY <1>3 DEF CancelNotes
    <2> QED BY <2>1 DEF LogNext, Types, EventTypes, TerminalTypes
<1>4. CASE Reader
    BY <1>4 DEF Reader, LogNext
<1>5. CASE Crash
    BY <1>5 DEF Crash, LogNext
<1>6. CASE \/ CancelWrites \/ Delete \/ \E c \in Calls : CancelReads(c)
           \/ \E status \in Statuses : Edit(status)
    BY <1>6 DEF CancelWrites, CancelReads, Edit, Delete
<1> QED BY <1>1, <1>2, <1>3, <1>4, <1>5, <1>6 DEF Next

\* A step that leaves the thread's row alone keeps what is known of its holders
\* if the call that moves is where a holder may be, and a holder where it must be.
LEMMA HoldersStay ==
    ASSUME ThreadInv, NEW c \in Calls,
           UNCHANGED <<thread, holding, claimant, raced, disturbed>>,
           \A d \in Calls \ {c} : pc'[d] = pc[d],
           pc'[c] # "claim", pc'[c] \in Held \cup {"start"} => c \in holding,
           c \in holding => pc'[c] \in Owing,
           pc[c] \in Owing \cup CutOff => pc'[c] \in Owing \cup CutOff,
           holding \in SUBSET Calls, claimant \in Calls \cup {None}
    PROVE  ThreadInv'
<1>1. RunningThreadIsAttended'
    BY DEF ThreadInv, RunningThreadIsAttended
<1> QED BY <1>1 DEF ThreadInv

\* The stages of a call are told apart.
LEMMA StagesDiffer ==
    /\ Noting \cap Early = {} /\ After \cap Before = {} /\ After \cap Early = {}
    /\ Before \cap Early = {} /\ Held \subseteq Before
    /\ Stages = Early \cup Before \cup After
    /\ Querying = {"query", "delta", "verdict", "yield"}
    /\ Querying \cup {"started", "release", "bill", "complete"} = Before
    /\ "fail" \notin Noting /\ "settle" \notin Noting /\ "ended" \notin Noting
    /\ "query" \notin Noting /\ "yield" \notin Noting /\ "bill" \notin Held
    /\ "complete" \notin Held
BY DEF Noting, Early, After, Before, Held, Owing, CutOff, Querying, Stages

\* The statuses that end a run are told from the others.
LEMMA Outcomes ==
    /\ None \notin TerminalStatuses \cup {"running"} /\ "running" \notin TerminalStatuses
    /\ {"completed", "failed", "cancelled"} = TerminalStatuses /\ None # "completed"
BY DEF None, TerminalStatuses

------------------------------------------------------------------------------
(* Every step of a call keeps the invariant.                                 *)

\* A call that gets past the first look found the thread free.
LEMMA GetKeeps ==
    ASSUME DispatchInv, NEW c \in Calls, Get(c)
    PROVE  DispatchInv'
<1> USE DEF DispatchInv
<1>0. /\ pc[c] = "new" /\ UNCHANGED <<logVars, rowVars, known, events, money, cancel, budget, history>>
      /\ \E where \in {"ended", "claim"} : Goto(c, where) /\ (where = "claim" => thread \notin {"running", "gone"})
    BY DEF Get
<1>1. /\ pc' \in [Calls -> Stages] /\ pc'[c] \in {"ended", "claim"}
      /\ pc'[c] = "claim" => thread \notin {"running", "gone"}
      /\ \A d \in Calls \ {c} : pc'[d] = pc[d]
    BY <1>0, GotoEffect DEF Stages, Owing, CutOff, Querying
<1>2. UNCHANGED <<write, thread, run, known, events, usage, lastUsage, bill, tokens, request, target,
                  faults, crashes, edits, holding, claimant, raced, disturbed>>
    BY <1>0 DEF logVars, rowVars, money, cancel, budget, history
<1>3. Types'
    BY <1>1, <1>2 DEF Types
<1>4. CallInv(c)'
    <2>1. CallInv(c) /\ run[c] = None
        BY <1>0 DEF CallInv, Early
    <2>2. pc'[c] \notin Before \cup {"finished", "failing", "settle", "complete", "fail"} \cup Noting
        BY <1>1 DEF Before, Held, Owing, CutOff, Querying, Noting
    <2>3. pc[c] \notin Noting
        BY <1>0 DEF Noting
    <2> HIDE DEF DispatchInv
    <2> QED BY <1>2, <2>1, <2>2, <2>3, Outcomes DEF CallInv
<1>5. \A d \in Calls \ {c} : Same(d)
    BY <1>1, <1>2 DEF Same, Cancelled
<1>6. ThreadInv'
    <2>1. pc[c] \notin Owing \cup CutOff
        BY <1>0 DEF Owing, CutOff, Querying
    <2>2. RunningThreadIsAttended'
        BY <1>1, <1>2, <2>1 DEF ThreadInv, RunningThreadIsAttended, Types
    <2>3. c \notin holding /\ pc'[c] \notin Held \cup {"start"}
        BY <1>1, <2>1 DEF ThreadInv, Held, Querying
    <2> QED BY <1>0, <1>1, <1>2, <2>2, <2>3 DEF ThreadInv, Types
<1> QED BY <1>2, <1>3, <1>4, <1>5, <1>6, SameKeeps

\* A call that claims the thread is its only holder, if no other was as far.
LEMMA ClaimKeeps ==
    ASSUME DispatchInv, NEW c \in Calls, Claim(c)
    PROVE  DispatchInv'
<1> USE DEF DispatchInv
<1>0. /\ pc[c] = "claim"
      /\ \/ /\ Update("running", c) /\ holding' = holding \cup {c} /\ Goto(c, "start")
            /\ raced' = (raced \/ \E d \in Calls \ {c} : pc[d] = "claim")
            /\ UNCHANGED budget
         \/ Fault(c) /\ Goto(c, "ended") /\ UNCHANGED <<thread, holding, claimant, raced>>
      /\ UNCHANGED <<logVars, run, known, events, money, cancel, disturbed>>
    BY DEF Claim
<1>1. /\ pc' \in [Calls -> Stages] /\ \A d \in Calls \ {c} : pc'[d] = pc[d]
      /\ \/ /\ pc'[c] = "start" /\ holding' = holding \cup {c}
            /\ thread' \in {"running", "gone"} /\ (thread' = "running" => claimant' = c)
            /\ thread' = "gone" <=> thread = "gone"
            /\ claimant' \in Calls \cup {None}
            /\ raced' = (raced \/ \E d \in Calls \ {c} : pc[d] = "claim")
            /\ faults' = faults /\ crashes' = crashes /\ edits' = edits
         \/ /\ pc'[c] = "ended" /\ UNCHANGED <<thread, holding, claimant, raced>>
            /\ faults' \in 0..MaxTrouble /\ faults' > 0 /\ crashes' = crashes /\ edits' = edits
    <2>1. CASE Fault(c) /\ Goto(c, "ended") /\ UNCHANGED <<thread, holding, claimant, raced>>
        BY <2>1, FaultCounts, GotoEffect DEF Stages, Owing, CutOff, Querying
    <2>2. CASE /\ Update("running", c) /\ holding' = holding \cup {c} /\ Goto(c, "start")
               /\ raced' = (raced \/ \E d \in Calls \ {c} : pc[d] = "claim")
               /\ UNCHANGED budget
        <3>1. /\ thread' \in {"running", "gone"} /\ (thread' = "running" => claimant' = c)
              /\ thread' = "gone" <=> thread = "gone"
              /\ claimant' \in Calls \cup {None}
            BY <2>2, UpdateEffect DEF Statuses
        <3>2. pc' \in [Calls -> Stages] /\ pc'[c] = "start" /\ \A d \in Calls \ {c} : pc'[d] = pc[d]
            BY <2>2, GotoEffect DEF Stages, Owing, CutOff, Querying
        <3> QED BY <2>2, <3>1, <3>2, Zenon DEF budget
    <2> QED BY <1>0, <2>1, <2>2
<1>2. UNCHANGED <<write, run, known, events, usage, lastUsage, bill, tokens, request, target, disturbed>>
    BY <1>0 DEF logVars, money, cancel
<1>3. Types'
    BY <1>1, <1>2 DEF Types, Statuses
<1>4. CallInv(c)'
    <2>1. CallInv(c) /\ run[c] = None
        BY <1>0 DEF CallInv, Early
    <2>2. pc'[c] \notin Before \cup {"finished", "failing", "settle", "complete", "fail"} \cup Noting
        BY <1>1 DEF Before, Held, Owing, CutOff, Querying, Noting
    <2>3. pc[c] \notin Noting
        BY <1>0 DEF Noting
    <2> HIDE DEF DispatchInv
    <2> QED BY <1>2, <2>1, <2>2, <2>3, Outcomes DEF CallInv
<1>5. \A d \in Calls \ {c} : Same(d)
    BY <1>1, <1>2 DEF Same, Cancelled
<1>6. ThreadInv'
    <2>1. c \notin holding /\ holding \in SUBSET Calls
        BY <1>0 DEF ThreadInv, Held, Owing, Querying, Types
    <2>2. CASE pc'[c] = "ended"
        BY <1>0, <1>1, <1>2, <2>1, <2>2, HoldersStay DEF Held, Owing, CutOff, Querying, Types
    <2>3. CASE pc'[c] = "start"
        <3>1. ~raced' /\ ~disturbed' => holding = {} /\ \A d \in Calls : pc'[d] # "claim"
            <4> SUFFICES ASSUME ~raced', ~disturbed'
                         PROVE  holding = {} /\ \A d \in Calls : pc'[d] # "claim"
                OBVIOUS
            <4>1. raced' = (raced \/ \E d \in Calls \ {c} : pc[d] = "claim")
                BY <1>1, <2>3
            <4>2. ~raced /\ ~disturbed /\ \A d \in Calls \ {c} : pc[d] # "claim"
                BY <1>2, <4>1, Zenon
            <4>3. holding = {}
                BY <1>0, <4>2 DEF ThreadInv
            <4> QED BY <1>1, <2>3, <4>2, <4>3
        <3>2. holding' = holding \cup {c} /\ thread' \in {"running", "gone"}
            BY <1>1, <2>3
        <3>3. RunningThreadIsAttended'
            BY <1>1, <2>3 DEF RunningThreadIsAttended, Owing
        <3>4. pc'[c] \in Owing
            BY <2>3 DEF Owing
        <3> QED BY <1>1, <2>1, <2>3, <3>1, <3>2, <3>3, <3>4 DEF ThreadInv
    <2> QED BY <1>1, <2>2, <2>3
<1>7. thread' = "gone" => \A d \in Calls : run'[d] = None
    BY <1>1, <1>2
<1> QED BY <1>2, <1>3, <1>4, <1>5, <1>6, <1>7, SameKeeps

\* The run appears; a start that fails leaves none, or one that a fault explains.
LEMMA StartKeeps ==
    ASSUME DispatchInv, NEW c \in Calls, Start(c)
    PROVE  DispatchInv'
<1> USE DEF DispatchInv
<1>0. /\ pc[c] = "start" /\ UNCHANGED <<logVars, thread, events, money, cancel, history>>
      /\ \/ Throws(c) /\ UNCHANGED <<run, known, budget>>
         \/ /\ thread # "gone" /\ run' = [run EXCEPT ![c] = "running"] /\ known' = known \cup {c}
            /\ Goto(c, "started") /\ UNCHANGED budget
         \/ /\ Fault(c) /\ Throws(c) /\ known' = known
            /\ \E row \in {None} \cup (IF thread = "gone" THEN {} ELSE {"running"}) :
                  run' = [run EXCEPT ![c] = row]
    BY DEF Start
<1>1. /\ CallInv(c) /\ run[c] = None /\ pc[c] \notin Noting /\ c \in holding
      /\ holding \in SUBSET Calls /\ claimant \in Calls \cup {None} /\ c \notin known
    BY <1>0 DEF CallInv, Early, Noting, ThreadInv, Types
<1>2. UNCHANGED <<write, thread, events, usage, lastUsage, bill, tokens, request, target,
                  holding, claimant, raced, disturbed>>
    BY <1>0 DEF logVars, money, cancel, history
<1>3. /\ pc' \in [Calls -> Stages] /\ \A d \in Calls \ {c} : pc'[d] = pc[d] /\ run'[d] = run[d]
      /\ run' \in [Calls -> TerminalStatuses \cup {"running", None}]
      /\ known' \in SUBSET Calls /\ \A d \in Calls \ {c} : d \in known <=> d \in known'
      /\ run'[c] # None => thread # "gone"
      /\ faults' \in 0..MaxTrouble /\ crashes' \in 0..MaxTrouble /\ edits' \in 0..MaxTrouble
      /\ (faults > 0 => faults' > 0)
      /\ \/ pc'[c] = "settle" /\ run'[c] = None /\ c \notin known'
         \/ pc'[c] = "started" /\ run'[c] = "running" /\ c \in known'
         \/ pc'[c] = "settle" /\ run'[c] \in {None, "running"} /\ c \notin known' /\ faults' > 0
    <2>1. CASE Throws(c) /\ UNCHANGED <<run, known, budget>>
        BY <1>1, <2>1, ThrowsEffect DEF Types, budget
    <2>2. CASE /\ thread # "gone" /\ run' = [run EXCEPT ![c] = "running"] /\ known' = known \cup {c}
               /\ Goto(c, "started") /\ UNCHANGED budget
        BY <2>2, GotoEffect DEF Types, budget, Stages, Owing, CutOff, Querying
    <2>3. CASE /\ Fault(c) /\ Throws(c) /\ known' = known
               /\ \E row \in {None} \cup (IF thread = "gone" THEN {} ELSE {"running"}) :
                     run' = [run EXCEPT ![c] = row]
        <3>1. PICK row \in {None, "running"} :
                  run' = [run EXCEPT ![c] = row] /\ (row # None => thread # "gone")
            BY <2>3
        <3>2. /\ run'[c] = row /\ \A d \in Calls \ {c} : run'[d] = run[d]
              /\ run' \in [Calls -> TerminalStatuses \cup {"running", None}]
            BY <3>1 DEF Types
        <3> QED BY <1>1, <2>3, <3>1, <3>2, ThrowsEffect, FaultCounts DEF Types
    <2> QED BY <1>0, <2>1, <2>2, <2>3
<1>4. Types'
    BY <1>2, <1>3 DEF Types
<1>5. CallInv(c)'
    <2>1. /\ pc'[c] \notin Early \cup {"finished", "failing", "fail", "ended", "unmarked", "complete"}
          /\ (pc'[c] \in Before => pc'[c] = "started")
        BY <1>3 DEF Early, Before, Held, Owing, CutOff, Querying
    <2>2. run'[c] \notin TerminalStatuses /\ run'[c] # "completed"
        BY <1>3, Outcomes
    <2> HIDE DEF DispatchInv
    <2> QED BY <1>1, <1>2, <1>3, <2>1, <2>2, Outcomes DEF CallInv
<1>6. \A d \in Calls \ {c} : Same(d)
    BY <1>2, <1>3 DEF Same, Cancelled
<1>7. ThreadInv'
    BY <1>1, <1>2, <1>3, HoldersStay DEF Held, Owing, CutOff, Querying
<1>8. request' # "new" => run'[target'] # None
    BY <1>1, <1>2, <1>3 DEF Types
<1>9. thread' = "gone" => \A d \in Calls : run'[d] = None
    BY <1>1, <1>2, <1>3
<1> QED BY <1>4, <1>5, <1>6, <1>7, <1>8, <1>9, SameKeeps

\* An event is numbered, or its row inserted: the call waits where it is.
LEMMA EventGoesOnKeeps ==
    ASSUME LogInv, DispatchInv, NEW c \in Calls, NoteEvent(c) \/ EventStored(c)
    PROVE  DispatchInv'
<1> USE DEF DispatchInv
<1>0. UNCHANGED <<rowVars, pc, known, events, money, cancel, budget, history>>
    BY DEF NoteEvent, EventStored
<1>1. UNCHANGED <<thread, pc, run, known, events, usage, lastUsage, bill, tokens, request, target,
                  faults, crashes, edits, holding, claimant, raced, disturbed>>
    BY <1>0 DEF rowVars, money, cancel, budget, history
<1>2. /\ c \in Writers /\ Calls \subseteq Writers
      /\ write \in [Writers -> Recording \cup {Free}]
    BY DispatchNames DEF LogInv, LogTypeOK
<1>3. \A d \in Calls \ {c} : write'[d] = write[d]
    BY <1>2 DEF NoteEvent, TakeNumber, EventStored, InsertRow
<1>4. write'[c] # Free => pc[c] \in Noting
    BY DEF NoteEvent, EventAt, Noting, EventStored, InsertRow, CallInv
<1>5. \A d \in Calls \ {c} : Same(d)
    BY <1>1, <1>3 DEF Same, Cancelled
<1>6. CallInv(c)'
    BY <1>1, <1>4 DEF CallInv, Cancelled
<1> QED BY <1>1, <1>5, <1>6, SameKeeps DEF Types, ThreadInv, RunningThreadIsAttended

\* An event that is not stored goes unnoticed, or sends the call to its catch block.
LEMMA EventLostKeeps ==
    ASSUME LogInv, DispatchInv, NEW c \in Calls, EventLost(c)
    PROVE  DispatchInv'
<1> USE DEF DispatchInv
<1>0. /\ InsertFails(c) /\ Fault(c)
      /\ IF pc[c] \in Swallowed THEN Goto(c, Then[pc[c]]) ELSE Throws(c)
      /\ UNCHANGED <<rowVars, known, events, money, cancel, history>>
    BY DEF EventLost
<1>1. /\ write[c] # Free /\ CallInv(c) /\ pc[c] \in Noting
      /\ \A d \in Calls : write'[d] # Free => write[d] # Free
    <2>1. Calls \subseteq Writers /\ write \in [Writers -> Recording \cup {Free}]
        BY DispatchNames DEF LogInv, LogTypeOK
    <2> QED BY <1>0, <2>1 DEF InsertFails, CallInv
<1>2. UNCHANGED <<thread, run, known, events, usage, lastUsage, bill, tokens, request, target,
                  holding, claimant, raced, disturbed>>
    BY <1>0 DEF rowVars, money, cancel, history
<1>3. faults' \in 0..MaxTrouble /\ faults' > 0 /\ crashes' = crashes /\ edits' = edits
    BY <1>0, FaultCounts
<1>4. /\ pc' \in [Calls -> Stages] /\ \A d \in Calls \ {c} : pc'[d] = pc[d]
      /\ \/ pc[c] \in {"delta", "verdict"} /\ pc'[c] = "yield"
         \/ pc[c] = "failing" /\ pc'[c] = "settle"
         \/ pc[c] \in {"started", "finished"} /\ pc'[c] = "fail"
    <2>1. CASE pc[c] \in {"delta", "verdict"}
        <3>1. Then[pc[c]] = "yield" /\ pc[c] \in Swallowed
            BY <2>1 DEF Then, Swallowed
        <3> QED BY <1>0, <2>1, <3>1, GotoEffect DEF Stages, Querying, Owing, CutOff
    <2>2. CASE pc[c] = "failing"
        <3>1. Then[pc[c]] = "settle" /\ pc[c] \in Swallowed
            BY <2>2 DEF Then, Swallowed
        <3> QED BY <1>0, <2>2, <3>1, GotoEffect DEF Stages, Owing, CutOff, Querying
    <2>3. CASE pc[c] \in {"started", "finished"}
        <3>1. c \in known /\ pc[c] \notin Swallowed
            BY <1>1, <2>3 DEF CallInv, Before, Held, Swallowed
        <3> QED BY <1>0, <2>3, <3>1, ThrowsEffect
    <2> QED BY <1>1, <2>1, <2>2, <2>3 DEF Noting
<1>5. Types'
    BY <1>2, <1>3, <1>4 DEF Types
<1>6. CallInv(c)'
    <2>1. write'[c] = Free
        BY <1>0, DispatchNames DEF InsertFails, LogInv, LogTypeOK
    <2>2. /\ pc'[c] \notin Early /\ pc'[c] \notin {"ended", "unmarked", "complete"}
          /\ pc'[c] \in Before \cup {"finished", "fail"} => pc[c] \in Before \cup {"finished"}
          /\ pc[c] \in After => pc'[c] \in After
        BY <1>4 DEF Early, Before, Held, Owing, CutOff, Querying, After
    <2> HIDE DEF DispatchInv
    <2> QED BY <1>1, <1>2, <1>3, <2>1, <2>2 DEF CallInv
<1>7. \A d \in Calls \ {c} : Same(d)
    BY <1>1, <1>2, <1>3, <1>4 DEF Same, Cancelled
<1>8. ThreadInv'
    <2>1. /\ pc'[c] \in Held => pc[c] \in Held
          /\ pc'[c] \in Owing /\ pc'[c] # "claim" /\ pc'[c] # "start"
        BY <1>4 DEF Held, Owing, CutOff, Querying
    <2>2. /\ holding \in SUBSET Calls /\ claimant \in Calls \cup {None}
          /\ (pc[c] \in Held => c \in holding)
        BY DEF ThreadInv, Types
    <2> QED BY <1>2, <1>4, <2>1, <2>2, HoldersStay
<1> QED BY <1>2, <1>5, <1>6, <1>7, <1>8, SameKeeps

\* The event is published and the call goes on.
LEMMA EventPublishedKeeps ==
    ASSUME LogInv, DispatchInv, NEW c \in Calls, EventPublished(c)
    PROVE  DispatchInv'
<1> USE DEF DispatchInv
<1>0. /\ Publish(c) /\ Goto(c, Then[pc[c]])
      /\ UNCHANGED <<rowVars, known, events, money, cancel, budget, history>>
    BY DEF EventPublished
<1>1. /\ write[c] # Free /\ CallInv(c) /\ pc[c] \in Noting /\ write'[c] = Free
      /\ \A d \in Calls : write'[d] # Free => write[d] # Free
    <2>1. Calls \subseteq Writers /\ write \in [Writers -> Recording \cup {Free}]
        BY DispatchNames DEF LogInv, LogTypeOK
    <2> QED BY <1>0, <2>1 DEF Publish, CallInv
<1>2. UNCHANGED <<thread, run, known, events, usage, lastUsage, bill, tokens, request, target,
                  faults, crashes, edits, holding, claimant, raced, disturbed>>
    BY <1>0 DEF rowVars, money, cancel, budget, history
<1>3. /\ pc' \in [Calls -> Stages] /\ \A d \in Calls \ {c} : pc'[d] = pc[d]
      /\ \/ pc[c] \in {"delta", "verdict"} /\ pc'[c] = "yield"
         \/ pc[c] = "failing" /\ pc'[c] = "settle"
         \/ pc[c] = "started" /\ pc'[c] = "query"
         \/ pc[c] = "finished" /\ pc'[c] = "ended"
    <2>1. \/ pc[c] \in {"delta", "verdict"} /\ Then[pc[c]] = "yield"
          \/ pc[c] = "failing" /\ Then[pc[c]] = "settle"
          \/ pc[c] = "started" /\ Then[pc[c]] = "query"
          \/ pc[c] = "finished" /\ Then[pc[c]] = "ended"
        BY <1>1 DEF Then, Noting
    <2>2. Then[pc[c]] \in Stages
        BY <2>1 DEF Stages, Querying, Owing, CutOff
    <2> QED BY <1>0, <2>1, <2>2, GotoEffect
<1>4. Types'
    BY <1>2, <1>3 DEF Types
<1>5. CallInv(c)'
    <2>1. /\ pc'[c] \notin Early /\ pc'[c] \notin {"complete", "fail", "finished", "failing", "unmarked"}
          /\ pc'[c] \in Before => pc[c] \in Before
          /\ pc[c] \in After => pc'[c] \in After
          /\ pc'[c] \in {"ended", "settle"} => pc[c] \in {"finished", "failing"}
        BY <1>3 DEF Early, Before, Held, Owing, CutOff, Querying, After
    <2> HIDE DEF DispatchInv
    <2> QED BY <1>1, <1>2, <2>1 DEF CallInv, Cancelled
<1>6. \A d \in Calls \ {c} : Same(d)
    BY <1>1, <1>2, <1>3 DEF Same, Cancelled
<1>7. ThreadInv'
    <2>1. /\ pc'[c] \in Held => pc[c] \in Held
          /\ pc'[c] \in Held \cup {"settle", "ended"} /\ pc'[c] # "claim" /\ pc'[c] # "start"
          /\ pc'[c] \in Owing \/ (pc'[c] = "ended" /\ pc[c] \notin Owing \cup CutOff)
        BY <1>3 DEF Held, Owing, CutOff, Querying
    <2>2. /\ holding \in SUBSET Calls /\ claimant \in Calls \cup {None} /\ (pc[c] \in Held => c \in holding)
          /\ (c \in holding => pc[c] \in Owing)
        BY DEF ThreadInv, Types
    <2> QED BY <1>2, <1>3, <2>1, <2>2, HoldersStay
<1> QED BY <1>2, <1>4, <1>5, <1>6, <1>7, SameKeeps

\* An event of the engine: the call holds the thread and goes on holding it.
LEMMA EngineYieldsKeeps ==
    ASSUME DispatchInv, NEW c \in Calls, EngineYields(c)
    PROVE  DispatchInv'
<1> USE DEF DispatchInv
<1>0. /\ pc[c] \in {"query", "yield"} /\ events[c] < MaxEvents[c]
      /\ events' = [events EXCEPT ![c] = @ + 1]
      /\ Goto(c, "delta") \/ Goto(c, "verdict")
      /\ UNCHANGED <<logVars, rowVars, known, money, cancel, budget, history>>
    BY DEF EngineYields
<1>1. UNCHANGED <<write, thread, run, known, usage, lastUsage, bill, tokens, request, target,
                  faults, crashes, edits, holding, claimant, raced, disturbed>>
    BY <1>0 DEF logVars, rowVars, money, cancel, budget, history
<1>2. /\ pc' \in [Calls -> Stages] /\ \A d \in Calls \ {c} : pc'[d] = pc[d]
      /\ pc'[c] \in {"delta", "verdict"}
    BY <1>0, GotoEffect DEF Stages, Querying, Owing, CutOff
<1>3. /\ CallInv(c) /\ c \in holding /\ holding \in SUBSET Calls
      /\ claimant \in Calls \cup {None}
    BY <1>0 DEF ThreadInv, Held, Owing, CutOff, Querying, Types
<1>4. Types'
    <2>1. MaxEvents[c] \in Nat /\ events[c] \in Nat
        BY DispatchNames DEF Types
    <2>2. events' \in [Calls -> Nat] /\ \A d \in Calls : events'[d] \in 0..MaxEvents[d]
        BY <1>0, <2>1 DEF Types
    <2> QED BY <1>1, <1>2, <2>2 DEF Types
<1>5. CallInv(c)'
    <2>1. /\ pc'[c] \notin Early \cup {"complete", "fail", "finished", "failing", "settle",
                                     "ended", "unmarked"}
          /\ pc'[c] \in Noting /\ pc[c] \in Before /\ pc[c] \notin After
        BY <1>0, <1>2 DEF Early, Before, Held, Owing, CutOff, Querying, After, Noting
    <2> HIDE DEF DispatchInv
    <2> QED BY <1>1, <1>3, <2>1 DEF CallInv, Cancelled
<1>6. \A d \in Calls \ {c} : Same(d)
    BY <1>1, <1>2 DEF Same, Cancelled
<1>7. ThreadInv'
    BY <1>1, <1>2, <1>3, HoldersStay DEF Held, Owing, CutOff, Querying
<1> QED BY <1>1, <1>4, <1>5, <1>6, <1>7, SameKeeps

\* A call whose consumer leaves is over, with the thread in its hands.
LEMMA LeaveKeeps ==
    ASSUME DispatchInv, NEW c \in Calls, Leave(c)
    PROVE  DispatchInv'
<1> USE DEF DispatchInv
<1>0. /\ pc[c] = "yield" /\ Goto(c, "left") /\ holding' = holding \ {c}
      /\ UNCHANGED <<logVars, rowVars, known, events, money, cancel, budget, claimant, raced, disturbed>>
    BY DEF Leave
<1>1. UNCHANGED <<write, thread, run, known, events, usage, lastUsage, bill, tokens, request, target,
                  faults, crashes, edits, claimant, raced, disturbed>>
    BY <1>0 DEF logVars, rowVars, money, cancel, budget
<1>2. pc' \in [Calls -> Stages] /\ pc'[c] = "left" /\ \A d \in Calls \ {c} : pc'[d] = pc[d]
    BY <1>0, GotoEffect DEF Stages, CutOff, Owing, Querying
<1>3. CallInv(c) /\ pc[c] \notin Noting /\ pc[c] \notin After
    BY <1>0 DEF Noting, After, CutOff
<1>4. Types'
    BY <1>0, <1>1, <1>2 DEF Types
<1>5. CallInv(c)'
    <2>1. /\ pc'[c] \notin Early \cup Before \cup {"complete", "fail", "finished", "failing",
                                                "settle", "ended", "unmarked"}
          /\ pc'[c] \in After
        BY <1>2 DEF Early, Before, After, Held, Owing, CutOff, Querying
    <2> HIDE DEF DispatchInv
    <2> QED BY <1>0, <1>1, <1>2, <1>3, <2>1 DEF CallInv
<1>6. \A d \in Calls \ {c} : Same(d)
    BY <1>0, <1>1, <1>2 DEF Same, Cancelled
<1>7. ThreadInv'
    BY <1>0, <1>1, <1>2 DEF ThreadInv, RunningThreadIsAttended, Held, Owing, CutOff, Querying, Types
<1> QED BY <1>1, <1>4, <1>5, <1>6, <1>7, SameKeeps

\* The query's end: the usage is the call's own.
LEMMA QueryEndsKeeps ==
    ASSUME DispatchInv, NEW c \in Calls, QueryEnds(c)
    PROVE  DispatchInv'
<1> USE DEF DispatchInv
<1>0. /\ pc[c] \in {"query", "yield"}
      /\ Goto(c, "release") \/ Throws(c)
      /\ \/ usage' = [usage EXCEPT ![c] = c] /\ lastUsage' = c
         \/ UNCHANGED <<usage, lastUsage>>
      /\ UNCHANGED <<logVars, rowVars, known, events, bill, tokens, cancel, budget, history>>
    BY DEF QueryEnds, Reported
<1>1. UNCHANGED <<write, thread, run, known, events, bill, tokens, request, target,
                  faults, crashes, edits, holding, claimant, raced, disturbed>>
    BY <1>0 DEF logVars, rowVars, cancel, budget, history
<1>2. /\ CallInv(c) /\ c \in known /\ c \in holding /\ holding \in SUBSET Calls
      /\ claimant \in Calls \cup {None}
      /\ pc[c] \in Before /\ pc[c] \notin After \cup Noting
    BY <1>0 DEF CallInv, Before, Held, Owing, CutOff, Querying, After, Noting, ThreadInv, Types
<1>3. /\ pc' \in [Calls -> Stages] /\ \A d \in Calls \ {c} : pc'[d] = pc[d]
      /\ pc'[c] \in {"release", "fail"}
    <2>1. CASE Goto(c, "release")
        BY <2>1, GotoEffect DEF Stages, Owing, CutOff, Querying
    <2>2. CASE Throws(c)
        BY <1>2, <2>2, ThrowsEffect
    <2> QED BY <1>0, <2>1, <2>2
<1>4. /\ usage' \in [Calls -> Calls \cup {None}] /\ lastUsage' \in Calls \cup {None}
      /\ \A d \in Calls \ {c} : usage'[d] = usage[d]
      /\ usage'[c] \in {None, c}
    BY <1>0, <1>2 DEF Types, CallInv
<1>5. Types'
    BY <1>1, <1>3, <1>4 DEF Types
<1>6. CallInv(c)'
    <2>1. pc'[c] \notin Early \cup {"complete", "finished", "failing", "settle", "ended", "unmarked"}
        BY <1>3 DEF Early
    <2> HIDE DEF DispatchInv
    <2> QED BY <1>1, <1>2, <1>4, <2>1 DEF CallInv, Cancelled
<1>7. \A d \in Calls \ {c} : Same(d)
    BY <1>1, <1>3, <1>4 DEF Same, Cancelled
<1>8. ThreadInv'
    BY <1>1, <1>2, <1>3, HoldersStay DEF Held, Owing, CutOff, Querying
<1> QED BY <1>1, <1>5, <1>6, <1>7, <1>8, SameKeeps

------------------------------------------------------------------------------
\* The thread is given back, or the write fails and the catch block has it.
LEMMA ReleaseKeeps ==
    ASSUME DispatchInv, NEW c \in Calls, Release(c)
    PROVE  DispatchInv'
<1> USE DEF DispatchInv
<1>0. /\ pc[c] = "release"
      /\ \/ Update("idle", c) /\ holding' = holding \ {c} /\ Goto(c, "bill") /\ UNCHANGED budget
         \/ Fault(c) /\ Throws(c) /\ UNCHANGED <<thread, holding, claimant>>
      /\ UNCHANGED <<logVars, run, known, events, money, cancel, raced, disturbed>>
    BY DEF Release
<1>1. UNCHANGED <<write, run, known, events, usage, lastUsage, bill, tokens, request, target,
                  raced, disturbed>>
    BY <1>0 DEF logVars, money, cancel
<1>2. /\ CallInv(c) /\ c \in known /\ c \in holding /\ holding \in SUBSET Calls
      /\ claimant \in Calls \cup {None}
      /\ pc[c] \in Before /\ pc[c] \notin After \cup Noting
    BY <1>0 DEF CallInv, Before, Held, Owing, CutOff, Querying, After, Noting, ThreadInv, Types
<1>3. /\ pc' \in [Calls -> Stages] /\ \A d \in Calls \ {c} : pc'[d] = pc[d]
      /\ \/ /\ pc'[c] = "bill" /\ thread' = "idle" /\ holding' = holding \ {c}
            /\ claimant' \in Calls \cup {None}
            /\ faults' = faults /\ crashes' = crashes /\ edits' = edits
         \/ /\ pc'[c] = "fail" /\ UNCHANGED <<thread, holding, claimant>>
            /\ faults' \in 0..MaxTrouble /\ faults' > 0 /\ crashes' = crashes /\ edits' = edits
    <2>1. CASE Update("idle", c) /\ holding' = holding \ {c} /\ Goto(c, "bill") /\ UNCHANGED budget
        <3>1. thread # "gone"
            BY <1>2 DEF CallInv
        <3>2. thread' = "idle" /\ claimant' \in Calls \cup {None}
            BY <2>1, <3>1, UpdateEffect DEF Statuses
        <3> QED BY <2>1, <3>2, GotoEffect DEF Stages, budget, Owing, CutOff, Querying
    <2>2. CASE Fault(c) /\ Throws(c) /\ UNCHANGED <<thread, holding, claimant>>
        BY <1>2, <2>2, ThrowsEffect, FaultCounts
    <2> QED BY <1>0, <2>1, <2>2
<1>4. Types'
    BY <1>1, <1>3 DEF Types, Statuses
<1>5. CallInv(c)'
    <2>1. pc'[c] \notin Early \cup {"complete", "finished", "failing", "settle", "ended", "unmarked"}
        BY <1>3 DEF Early
    <2> HIDE DEF DispatchInv
    <2> QED BY <1>1, <1>2, <1>3, <2>1 DEF CallInv, Cancelled
<1>6. \A d \in Calls \ {c} : Same(d)
    BY <1>1, <1>3 DEF Same, Cancelled
<1>7. ThreadInv'
    <2>1. CASE pc'[c] = "fail"
        BY <1>1, <1>2, <1>3, <2>1, HoldersStay DEF Held, Owing, CutOff, Querying
    <2>2. CASE pc'[c] = "bill"
        BY <1>1, <1>2, <1>3, <2>2 DEF ThreadInv, RunningThreadIsAttended, Held, Owing, CutOff, Querying
    <2> QED BY <1>3, <2>1, <2>2
<1>8. thread' = "gone" => \A d \in Calls : run'[d] = None
    BY <1>1, <1>3
<1> QED BY <1>1, <1>8, <1>4, <1>5, <1>6, <1>7, SameKeeps

\* The usage is billed, or a fault explains that it is not.
LEMMA BillKeeps ==
    ASSUME DispatchInv, NEW c \in Calls, Bill(c)
    PROVE  DispatchInv'
<1> USE DEF DispatchInv
<1>0. /\ pc[c] = "bill" /\ Goto(c, "complete")
      /\ \/ bill' = [bill EXCEPT ![c] = usage[c]] /\ UNCHANGED budget
         \/ Fault(c) /\ UNCHANGED bill
      /\ UNCHANGED <<logVars, rowVars, known, events, usage, lastUsage, tokens, cancel, history>>
    BY DEF Bill
<1>1. UNCHANGED <<write, thread, run, known, events, usage, lastUsage, tokens, request, target,
                  holding, claimant, raced, disturbed>>
    BY <1>0 DEF logVars, rowVars, cancel, history
<1>2. /\ CallInv(c) /\ c \in known /\ c \notin holding /\ holding \in SUBSET Calls
      /\ claimant \in Calls \cup {None}
      /\ pc[c] \in Before /\ pc[c] \notin After \cup Noting
    BY <1>0 DEF CallInv, Before, Held, Owing, CutOff, Querying, After, Noting, ThreadInv, Types
<1>3. pc' \in [Calls -> Stages] /\ pc'[c] = "complete" /\ \A d \in Calls \ {c} : pc'[d] = pc[d]
    BY <1>0, GotoEffect DEF Stages, Owing, CutOff, Querying
<1>4. /\ bill' \in [Calls -> Calls \cup {None}] /\ \A d \in Calls \ {c} : bill'[d] = bill[d]
      /\ bill'[c] \in {None, c}
      /\ faults' \in 0..MaxTrouble /\ crashes' \in 0..MaxTrouble /\ edits' \in 0..MaxTrouble
      /\ (faults > 0 => faults' > 0)
      /\ bill'[c] = usage[c] \/ faults' > 0
    <2>1. CASE bill' = [bill EXCEPT ![c] = usage[c]] /\ UNCHANGED budget
        BY <1>2, <2>1 DEF Types, CallInv, budget
    <2>2. CASE Fault(c) /\ UNCHANGED bill
        BY <1>2, <2>2, FaultCounts DEF Types, CallInv
    <2> QED BY <1>0, <2>1, <2>2
<1>5. Types'
    BY <1>1, <1>3, <1>4 DEF Types
<1>6. CallInv(c)'
    <2>1. /\ pc'[c] \notin Early \cup {"finished", "fail", "failing", "settle", "ended", "unmarked"}
        BY <1>3 DEF Early
    <2> HIDE DEF DispatchInv
    <2> QED BY <1>1, <1>2, <1>4, <2>1 DEF CallInv, Cancelled
<1>7. \A d \in Calls \ {c} : Same(d)
    BY <1>1, <1>3, <1>4 DEF Same, Cancelled
<1>8. ThreadInv'
    BY <1>0, <1>1, <1>2, <1>3, HoldersStay DEF Held, Owing, CutOff, Querying
<1> QED BY <1>1, <1>5, <1>6, <1>7, <1>8, SameKeeps

\* The run is completed with the call's usage, and audited or not.
LEMMA CompleteKeeps ==
    ASSUME DispatchInv, NEW c \in Calls, Complete(c)
    PROVE  DispatchInv'
<1> USE DEF DispatchInv
<1>0. /\ pc[c] = "complete"
      /\ \/ /\ run' = [run EXCEPT ![c] = "completed"] /\ tokens' = [tokens EXCEPT ![c] = usage[c]]
            /\ Goto(c, "finished") /\ UNCHANGED budget
         \/ /\ run' = [run EXCEPT ![c] = "completed"] /\ tokens' = [tokens EXCEPT ![c] = usage[c]]
            /\ Fault(c) /\ Throws(c)
         \/ Fault(c) /\ Throws(c) /\ UNCHANGED <<run, tokens>>
      /\ UNCHANGED <<logVars, thread, known, events, usage, lastUsage, bill, cancel, history>>
    BY DEF Complete
<1>1. UNCHANGED <<write, thread, known, events, usage, lastUsage, bill, request, target,
                  holding, claimant, raced, disturbed>>
    BY <1>0 DEF logVars, cancel, history
<1>2. /\ CallInv(c) /\ c \in known /\ c \notin holding /\ holding \in SUBSET Calls
      /\ claimant \in Calls \cup {None}
      /\ pc[c] \in Before /\ pc[c] \notin After \cup Noting
    BY <1>0 DEF CallInv, Before, Held, Owing, CutOff, Querying, After, Noting, ThreadInv, Types
<1>3. /\ pc' \in [Calls -> Stages] /\ \A d \in Calls \ {c} : pc'[d] = pc[d]
      /\ faults' \in 0..MaxTrouble /\ crashes' \in 0..MaxTrouble /\ edits' \in 0..MaxTrouble
      /\ (faults > 0 => faults' > 0)
      /\ \/ pc'[c] = "finished" /\ faults' = faults
         \/ pc'[c] = "fail" /\ faults' > 0
    <2>1. CASE Goto(c, "finished") /\ UNCHANGED budget
        BY <2>1, GotoEffect DEF Stages, budget, Types, Owing, CutOff, Querying
    <2>2. CASE Fault(c) /\ Throws(c)
        BY <1>2, <2>2, ThrowsEffect, FaultCounts DEF Types
    <2> QED BY <1>0, <2>1, <2>2
<1>4. /\ run' \in [Calls -> TerminalStatuses \cup {"running", None}]
      /\ tokens' \in [Calls -> Calls \cup {None}]
      /\ \A d \in Calls \ {c} : run'[d] = run[d] /\ tokens'[d] = tokens[d]
      /\ \/ run'[c] = "completed" /\ tokens'[c] = usage[c]
         \/ run'[c] = run[c] /\ tokens'[c] = tokens[c] /\ faults' > 0
    <2>1. CASE run' = [run EXCEPT ![c] = "completed"] /\ tokens' = [tokens EXCEPT ![c] = usage[c]]
        BY <2>1 DEF Types, TerminalStatuses
    <2>2. CASE Fault(c) /\ UNCHANGED <<run, tokens>>
        BY <2>2, FaultCounts DEF Types
    <2> QED BY <1>0, <2>1, <2>2
<1>5. Types'
    BY <1>1, <1>3, <1>4 DEF Types
<1>6. CallInv(c)'
    <2>1. /\ pc'[c] \notin Early \cup Before \cup {"failing", "settle", "ended", "unmarked"} /\ pc'[c] \in After
          /\ pc'[c] # "complete"
        BY <1>3 DEF Early, Before, Held, Owing, CutOff, Querying, After
    <2>2. bill[c] = usage[c] \/ faults > 0
        BY <1>0, <1>2 DEF CallInv
    <2> HIDE DEF DispatchInv
    <2> QED BY <1>1, <1>2, <1>3, <1>4, <2>1, <2>2, Outcomes DEF CallInv, Cancelled
<1>7. \A d \in Calls \ {c} : Same(d)
    BY <1>1, <1>3, <1>4 DEF Same, Cancelled
<1>8. ThreadInv'
    BY <1>0, <1>1, <1>2, <1>3, HoldersStay DEF Held, Owing, CutOff, Querying
<1>9. request' # "new" => run'[target'] # None
    BY <1>1, <1>4, Outcomes DEF Types
<1>10. thread' = "gone" => \A d \in Calls : run'[d] = None
    BY <1>1, <1>2 DEF CallInv
<1> QED BY <1>5, <1>6, <1>7, <1>8, <1>9, <1>10, SameKeeps

\* The run is failed, or a fault explains that it is not.
LEMMA FailKeeps ==
    ASSUME DispatchInv, NEW c \in Calls, Fail(c)
    PROVE  DispatchInv'
<1> USE DEF DispatchInv
<1>0. /\ pc[c] = "fail" /\ Goto(c, "failing")
      /\ \/ run' = [run EXCEPT ![c] = "failed"] /\ UNCHANGED budget
         \/ Fault(c) /\ UNCHANGED run
      /\ UNCHANGED <<logVars, thread, known, events, money, cancel, history>>
    BY DEF Fail
<1>1. UNCHANGED <<write, thread, known, events, usage, lastUsage, bill, tokens, request, target,
                  holding, claimant, raced, disturbed>>
    BY <1>0 DEF logVars, money, cancel, history
<1>2. /\ CallInv(c) /\ c \in known /\ run[c] # None /\ holding \in SUBSET Calls
      /\ claimant \in Calls \cup {None} /\ pc[c] \notin Noting
    BY <1>0 DEF Noting, Types, CallInv
<1>3. pc' \in [Calls -> Stages] /\ pc'[c] = "failing" /\ \A d \in Calls \ {c} : pc'[d] = pc[d]
    BY <1>0, GotoEffect DEF Stages, Owing, CutOff, Querying
<1>4. /\ run' \in [Calls -> TerminalStatuses \cup {"running", None}]
      /\ \A d \in Calls \ {c} : run'[d] = run[d]
      /\ faults' \in 0..MaxTrouble /\ crashes' \in 0..MaxTrouble /\ edits' \in 0..MaxTrouble
      /\ (faults > 0 => faults' > 0)
      /\ \/ run'[c] = "failed"
         \/ run'[c] = run[c] /\ faults' > 0
    <2>1. CASE run' = [run EXCEPT ![c] = "failed"] /\ UNCHANGED budget
        BY <2>1 DEF Types, TerminalStatuses, budget
    <2>2. CASE Fault(c) /\ UNCHANGED run
        BY <2>2, FaultCounts DEF Types
    <2> QED BY <1>0, <2>1, <2>2
<1>5. Types'
    BY <1>1, <1>3, <1>4 DEF Types
<1>6. CallInv(c)'
    <2>1. /\ pc'[c] \notin Early \cup Before \cup {"finished", "fail", "settle", "ended", "unmarked", "complete"}
          /\ pc'[c] \in After
        BY <1>3 DEF Early, Before, Held, Owing, CutOff, Querying, After
    <2> HIDE DEF DispatchInv
    <2> QED BY <1>1, <1>2, <1>4, <2>1, Outcomes DEF CallInv
<1>7. \A d \in Calls \ {c} : Same(d)
    BY <1>1, <1>3, <1>4 DEF Same, Cancelled
<1>8. ThreadInv'
    BY <1>1, <1>2, <1>3, HoldersStay DEF Held, Owing, CutOff, Querying
<1>9. request' # "new" => run'[target'] # None
    BY <1>1, <1>4 DEF Types, None
<1>10. thread' = "gone" => \A d \in Calls : run'[d] = None
    BY <1>1, <1>2 DEF CallInv
<1> QED BY <1>5, <1>6, <1>7, <1>8, <1>9, <1>10, SameKeeps

\* The thread is marked: under another holder that is a disturbance.
LEMMA SettleKeeps ==
    ASSUME DispatchInv, NEW c \in Calls, Settle(c)
    PROVE  DispatchInv'
<1> USE DEF DispatchInv
<1>0. /\ pc[c] = "settle" /\ holding' = holding \ {c}
      /\ \/ /\ Update("error", c) /\ Goto(c, "ended") /\ UNCHANGED budget
            /\ disturbed' = (disturbed \/ (c \notin holding /\ holding # {}))
         \/ Fault(c) /\ Goto(c, "unmarked") /\ UNCHANGED <<thread, claimant, disturbed>>
      /\ UNCHANGED <<logVars, run, known, events, money, cancel, raced>>
    BY DEF Settle
<1>1. UNCHANGED <<write, run, known, events, usage, lastUsage, bill, tokens, request, target, raced>>
    BY <1>0 DEF logVars, money, cancel
<1>2. /\ CallInv(c) /\ holding \in SUBSET Calls /\ claimant \in Calls \cup {None}
      /\ pc[c] \notin Noting
    BY <1>0 DEF Noting, Types
<1>3. pc' \in [Calls -> Stages] /\ pc'[c] \in {"ended", "unmarked"} /\ \A d \in Calls \ {c} : pc'[d] = pc[d]
    BY <1>0, GotoEffect DEF Stages, CutOff, Owing, Querying
<1>4. /\ faults' \in 0..MaxTrouble /\ crashes' \in 0..MaxTrouble /\ edits' \in 0..MaxTrouble
      /\ (faults > 0 => faults' > 0)
      /\ \/ /\ thread' \in {"error", "gone"} /\ (thread' = "gone" <=> thread = "gone")
            /\ claimant' \in Calls \cup {None}
            /\ disturbed' = (disturbed \/ (c \notin holding /\ holding # {}))
         \/ pc'[c] = "unmarked" /\ UNCHANGED <<thread, claimant, disturbed>>
    <2>1. CASE /\ Update("error", c) /\ UNCHANGED budget
               /\ disturbed' = (disturbed \/ (c \notin holding /\ holding # {}))
        <3>1. /\ thread' \in {"error", "gone"} /\ (thread' = "gone" <=> thread = "gone")
              /\ claimant' \in Calls \cup {None}
            BY <2>1, UpdateEffect DEF Statuses
        <3>2. /\ faults' \in 0..MaxTrouble /\ crashes' \in 0..MaxTrouble /\ edits' \in 0..MaxTrouble
              /\ (faults > 0 => faults' > 0)
            BY <2>1 DEF Types, budget
        <3> QED BY <2>1, <3>1, <3>2, Zenon
    <2>2. CASE Fault(c) /\ Goto(c, "unmarked") /\ UNCHANGED <<thread, claimant, disturbed>>
        BY <2>2, FaultCounts, GotoEffect DEF Types, Stages, CutOff, Owing, Querying
    <2> QED BY <1>0, <2>1, <2>2
<1>5. Types'
    <2>1. disturbed' \in BOOLEAN
        BY <1>0 DEF Types
    <2> QED BY <1>0, <1>1, <1>3, <1>4, <2>1 DEF Types, Statuses
<1>6. CallInv(c)'
    <2>1. /\ pc'[c] \notin Early \cup Before \cup {"finished", "fail", "failing", "settle", "complete"}
          /\ pc'[c] \in After
        BY <1>3 DEF Early, Before, Held, Owing, CutOff, Querying, After
    <2> HIDE DEF DispatchInv
    <2> QED BY <1>0, <1>1, <1>2, <1>3, <1>4, <2>1 DEF CallInv
<1>7. \A d \in Calls \ {c} : Same(d)
    BY <1>1, <1>3, <1>4 DEF Same, Cancelled
<1>8. ThreadInv'
    <2>1. RunningThreadIsAttended'
        <3>1. CASE thread' \in {"error", "gone"}
            BY <3>1 DEF RunningThreadIsAttended
        <3>2. CASE pc'[c] = "unmarked" /\ UNCHANGED <<thread, claimant>>
            BY <1>2, <1>3, <3>2 DEF ThreadInv, RunningThreadIsAttended, CutOff
        <3> QED BY <1>4, <3>1, <3>2
    <2>2. \A d \in Calls : pc'[d] \in Held \cup {"start"} => d \in holding'
        BY <1>0, <1>3 DEF ThreadInv, Held, Querying
    <2>3. \A d \in holding' : pc'[d] \in Owing
        BY <1>0, <1>2, <1>3 DEF ThreadInv
    <2>4. ASSUME ~raced', ~disturbed'
          PROVE  /\ \A d, e \in holding' : d = e
                 /\ holding' # {} =>
                      thread' \in {"running", "gone"} /\ \A d \in Calls : pc'[d] # "claim"
        <3>1. ~raced /\ ~disturbed
            <4>1. raced' = raced
                BY <1>1
            <4>2. \/ disturbed' = (disturbed \/ (c \notin holding /\ holding # {}))
                  \/ disturbed' = disturbed
                BY <1>4
            <4>3. ~raced
                BY <2>4, <4>1
            <4>4. ~disturbed
                <5>1. CASE disturbed' = (disturbed \/ (c \notin holding /\ holding # {}))
                    BY <2>4, <5>1, Zenon
                <5>2. CASE disturbed' = disturbed
                    BY <2>4, <5>2
                <5> QED BY <4>2, <5>1, <5>2
            <4> QED BY <4>3, <4>4
        <3>2. /\ \A d, e \in holding : d = e
              /\ holding # {} =>
                   thread \in {"running", "gone"} /\ \A d \in Calls : pc[d] # "claim"
            BY <3>1 DEF ThreadInv
        <3>3. CASE c \in holding
            BY <1>0, <3>2, <3>3
        <3>4. CASE c \notin holding /\ holding = {}
            BY <1>0, <3>4
        <3>5. CASE c \notin holding /\ holding # {}
            <4>1. thread' = thread
                BY <1>4, <2>4, <3>5, Zenon
            <4> QED BY <1>0, <1>3, <3>2, <3>5, <4>1
        <3> QED BY <3>3, <3>4, <3>5
    <2> QED BY <2>1, <2>2, <2>3, <2>4 DEF ThreadInv
<1>9. thread' = "gone" => \A d \in Calls : run'[d] = None
    BY <1>1, <1>4
<1> QED BY <1>1, <1>5, <1>6, <1>7, <1>8, <1>9, SameKeeps

------------------------------------------------------------------------------
(* The cancel request, the reader, the server's death.                       *)

\* The request's steps before and after its write, and the reader's, leave the
\* calls alone.
LEMMA OthersKeep ==
    ASSUME LogInv, DispatchInv, CancellerInv,
           CancelNotes \/ Reader \/ \E c \in Calls : CancelReads(c) \/ OpenRunStream(c)
    PROVE  DispatchInv'
<1> USE DEF DispatchInv
<1>1. UNCHANGED <<thread, pc, run, known, events, usage, lastUsage, bill, tokens,
                  faults, crashes, edits, holding, claimant, raced, disturbed>>
    BY DEF CancelNotes, Reader, CancelReads, OpenRunStream, rowVars, money, budget, history
<1>2. \/ UNCHANGED <<request, target>>
      \/ target' = target /\ request # "new" /\ request' \in {"recording", "done"}
      \/ request = "new" /\ target' \in Calls /\ run[target'] # None /\ request' \in {"write", "done"}
    <2>1. CASE CancelNotes
        <3>1. \/ request = "record" /\ request' = "recording"
              \/ request' = request
              \/ request = "recording" /\ request' = "done"
            BY <2>1 DEF CancelNotes, InsertFails, Publish, CancellerInv
        <3>2. target' = target
            BY <2>1 DEF CancelNotes
        <3> QED BY <3>1, <3>2
    <2>2. CASE Reader \/ \E c \in Calls : OpenRunStream(c)
        BY <2>2 DEF Reader, OpenRunStream, cancel
    <2>3. CASE \E c \in Calls : CancelReads(c)
        BY <2>3 DEF CancelReads
    <2> QED BY <2>1, <2>2, <2>3
<1>3. \A c \in Calls : write'[c] = write[c]
    <2>1. CASE CancelNotes
        BY <2>1, DispatchNames DEF CancelNotes, TakeNumber, InsertRow, InsertFails, Publish,
                                   LogInv, LogTypeOK
    <2>2. CASE Reader \/ \E c \in Calls : CancelReads(c) \/ OpenRunStream(c)
        BY <2>2 DEF Reader, CancelReads, OpenRunStream, ReadHistory, HistoryFails, Follow, HangUp,
                    OpenStream, logVars
    <2> QED BY <2>1, <2>2
<1>4. Types'
    BY <1>1, <1>2 DEF Types
<1>5. \A c \in Calls : Same(c)
    BY <1>1, <1>2, <1>3 DEF Same, Cancelled
<1>6. ThreadInv'
    BY <1>1 DEF ThreadInv, RunningThreadIsAttended
<1> QED BY <1>1, <1>2, <1>4, <1>5, <1>6, SameKeeps

\* The cancelled run is over, and its dispatch may write it again.
LEMMA CancelWritesKeeps ==
    ASSUME DispatchInv, CancelWrites
    PROVE  DispatchInv'
<1> USE DEF DispatchInv
<1>0. PICK c \in Calls : c = target
    BY DEF Types
<1>1. /\ request = "write" /\ request' \in {"record", "done"} /\ target = c /\ target' = c
      /\ UNCHANGED <<write, thread, pc, known, events, usage, lastUsage, bill, tokens, target,
                     faults, crashes, edits, holding, claimant, raced, disturbed>>
    BY <1>0 DEF CancelWrites, Types, logVars, money, budget, history
<1>2. /\ run' \in [Calls -> TerminalStatuses \cup {"running", None}]
      /\ \A d \in Calls \ {c} : run'[d] = run[d]
      /\ run'[c] = "cancelled" \/ run'[c] = run[c]
    BY <1>0, <1>1 DEF CancelWrites, Types, TerminalStatuses
<1>3. Types'
    BY <1>1, <1>2 DEF Types
<1>4. \A d \in Calls \ {c} : Same(d)
    BY <1>1, <1>2 DEF Same, Cancelled
<1>5. CallInv(c)'
    <2>1. CallInv(c) /\ run[c] # None
        BY <1>1
    <2> HIDE DEF DispatchInv
    <2> QED BY <1>1, <1>2, <2>1, Outcomes DEF CallInv, Cancelled
<1>6. ThreadInv'
    BY <1>1 DEF ThreadInv, RunningThreadIsAttended
<1>7. run'[target'] # None
    BY <1>1, <1>2 DEF None
<1>8. thread' = "gone" => \A d \in Calls : run'[d] = None
    BY <1>1
<1> QED BY <1>3, <1>4, <1>5, <1>6, <1>7, <1>8, SameKeeps

\* An admin who takes the thread from a holder disturbs it; one who sets it
\* running has no call to answer for it.
LEMMA EditKeeps ==
    ASSUME DispatchInv, NEW status \in Statuses, Edit(status)
    PROVE  DispatchInv'
<1> USE DEF DispatchInv
<1>0. /\ thread # "gone" /\ Trouble /\ Update(status, None) /\ edits' = edits + 1
      /\ disturbed' = (disturbed \/ (status # "running" /\ holding # {}))
      /\ UNCHANGED <<logVars, pc, run, known, events, money, cancel, faults, crashes, holding, raced>>
    BY DEF Edit
<1>1. UNCHANGED <<write, pc, run, known, events, usage, lastUsage, bill, tokens, request, target,
                  faults, crashes, holding, raced>>
    BY <1>0 DEF logVars, money, cancel
<1>2. /\ thread' = status /\ claimant' \in Calls \cup {None}
      /\ thread' = "running" => claimant' = None
    BY <1>0, UpdateEffect
<1>3. Types'
    BY <1>0, <1>1, <1>2, EditCounts DEF Types
<1>4. \A c \in Calls : Same(c)
    BY <1>1 DEF Same, Cancelled
<1>5. ThreadInv'
    <2>1. RunningThreadIsAttended'
        BY <1>2 DEF RunningThreadIsAttended
    <2>2. ASSUME ~raced', ~disturbed'
          PROVE  ~raced /\ ~disturbed /\ (holding # {} => status = "running")
        BY <1>0, <2>2, Zenon
    <2> QED BY <1>1, <1>2, <2>1, <2>2 DEF ThreadInv
<1>6. thread' # "gone"
    BY <1>2 DEF Statuses
<1> QED BY <1>1, <1>3, <1>4, <1>5, <1>6, SameKeeps

\* A thread that goes has no run.
LEMMA DeleteKeeps ==
    ASSUME DispatchInv, Delete
    PROVE  DispatchInv'
<1> USE DEF DispatchInv
<1>0. /\ Trouble /\ thread' = "gone" /\ claimant' = None /\ edits' = edits + 1
      /\ \A c \in Calls : run[c] = None
      /\ UNCHANGED <<logVars, pc, run, known, events, money, cancel, faults, crashes,
                     holding, raced, disturbed>>
    BY DEF Delete
<1>1. UNCHANGED <<write, pc, run, known, events, usage, lastUsage, bill, tokens, request, target,
                  faults, crashes, holding, raced, disturbed>>
    BY <1>0 DEF logVars, money, cancel
<1>2. Types'
    BY <1>0, <1>1, EditCounts DEF Types
<1>3. \A c \in Calls : Same(c)
    BY <1>1 DEF Same, Cancelled
<1>4. ThreadInv'
    BY <1>0, <1>1 DEF ThreadInv, RunningThreadIsAttended
<1> QED BY <1>0, <1>1, <1>2, <1>3, <1>4, SameKeeps

\* The server's death loses the calls, and with them whoever held the thread.
LEMMA CrashKeeps ==
    ASSUME LogInv, DispatchInv, Crash
    PROVE  DispatchInv'
<1> USE DEF DispatchInv
<1>0. /\ Trouble /\ crashes' = crashes + 1 /\ write' = [w \in Writers |-> Free]
      /\ pc' = [c \in Calls |-> IF pc[c] \in CutOff \cup {"new", "ended"} THEN pc[c] ELSE "lost"]
      /\ holding' = {} /\ lastUsage' = None
      /\ request' = IF request = "new" THEN "new" ELSE "done"
      /\ UNCHANGED <<thread, run, known, events, usage, bill, tokens, target, faults, edits,
                     claimant, raced, disturbed>>
    BY DEF Crash, LogCrash, rowVars
<1>1. crashes' \in 0..MaxTrouble
    <2> DEFINE asked == IF request = "new" THEN 0 ELSE 1
    <2>1. faults + crashes + edits + asked < MaxTrouble /\ crashes' = crashes + 1
        BY <1>0 DEF Trouble
    <2>2. asked \in Nat /\ faults \in Nat /\ crashes \in Nat /\ edits \in Nat /\ MaxTrouble \in Nat
        BY DispatchNames DEF Types
    <2> HIDE DEF asked, DispatchInv
    <2> QED BY <2>1, <2>2
<1>2. /\ pc' \in [Calls -> Stages]
      /\ \A c \in Calls : pc'[c] = "lost" \/ (pc'[c] = pc[c] /\ pc[c] \in CutOff \cup {"new", "ended"})
    BY <1>0 DEF Types, Stages, CutOff, Owing, Querying
<1>3. Types'
    BY <1>0, <1>1, <1>2 DEF Types
<1>4. ASSUME NEW c \in Calls PROVE CallInv(c)'
    <2>1. CallInv(c) /\ write'[c] = Free
        BY <1>0, DispatchNames
    <2>2. /\ pc'[c] \notin Before \cup {"finished", "fail", "failing", "settle", "complete"}
          /\ pc'[c] \in Early => pc[c] \in Early
          /\ pc[c] \in After => pc'[c] \in After
          /\ pc'[c] \in {"ended", "unmarked"} => pc'[c] = pc[c]
        BY <1>2 DEF Early, Before, Held, Owing, CutOff, Querying, After
    <2> HIDE DEF DispatchInv
    <2> QED BY <1>0, <2>1, <2>2 DEF CallInv
<1>5. ThreadInv'
    <2>1. RunningThreadIsAttended'
        <3>1. \A c \in Calls : pc[c] \in Owing \cup CutOff => pc'[c] \in CutOff
            BY <1>2 DEF Owing, CutOff, Querying
        <3>2. thread' = thread /\ claimant' = claimant /\ claimant \in Calls \cup {None}
            BY <1>0 DEF Types
        <3> QED BY <3>1, <3>2 DEF ThreadInv, RunningThreadIsAttended
    <2> QED BY <1>0, <1>2, <2>1 DEF ThreadInv, Held, CutOff, Querying
<1>6. request' # "new" => run'[target'] # None
    BY <1>0
<1>7. thread' = "gone" => \A c \in Calls : run'[c] = None
    BY <1>0
<1> QED BY <1>3, <1>4, <1>5, <1>6, <1>7

------------------------------------------------------------------------------
\* The invariant holds at first.
LEMMA DispatchStarts == Init => LogInv /\ DispatchInv /\ CancellerInv
<1> SUFFICES ASSUME Init PROVE LogInv /\ DispatchInv /\ CancellerInv
    OBVIOUS
<1>1. LogInv
    BY LogStarts DEF Init
<1>2. target \in Calls
    <2>1. watched \in Calls
        BY DispatchNames DEF Init, LogInit
    <2> QED BY <2>1 DEF Init
<1>3. Types
    <2>1. events \in [Calls -> Nat] /\ \A c \in Calls : events[c] \in 0..MaxEvents[c]
        BY DispatchNames DEF Init
    <2>2. faults \in 0..MaxTrouble /\ crashes \in 0..MaxTrouble /\ edits \in 0..MaxTrouble
        BY DispatchNames DEF Init
    <2>3. pc \in [Calls -> Stages] /\ run \in [Calls -> TerminalStatuses \cup {"running", None}]
        BY DEF Init, Stages, Owing, CutOff, Querying
    <2>4. /\ usage \in [Calls -> Calls \cup {None}] /\ bill \in [Calls -> Calls \cup {None}]
          /\ tokens \in [Calls -> Calls \cup {None}] /\ lastUsage \in Calls \cup {None}
          /\ thread \in Statuses \cup {"gone"} /\ known \in SUBSET Calls
          /\ holding \in SUBSET Calls /\ claimant \in Calls \cup {None}
          /\ raced \in BOOLEAN /\ disturbed \in BOOLEAN
          /\ request \in {"new", "write", "record", "recording", "done"}
        BY DEF Init, Statuses
    <2> QED BY <1>2, <2>1, <2>2, <2>3, <2>4 DEF Types
<1>4. ASSUME NEW c \in Calls PROVE CallInv(c)
    <2>1. /\ write[c] = Free /\ pc[c] = "new" /\ run[c] = None /\ c \notin known
          /\ usage[c] = None /\ bill[c] = None /\ tokens[c] = None
        BY DispatchNames DEF Init, LogInit
    <2>2. "new" \notin Before \cup Noting
        BY DEF Before, Held, Owing, CutOff, Querying, Noting
    <2> QED BY <2>1, <2>2, Outcomes DEF CallInv
<1>5. ThreadInv
    BY DEF Init, ThreadInv, RunningThreadIsAttended, Held, Owing, CutOff, Querying
<1>6. CancellerInv
    BY DispatchNames DEF Init, LogInit, CancellerInv
<1> QED BY <1>1, <1>3, <1>4, <1>5, <1>6 DEF Init, DispatchInv

\* Only the canceller records the canceller's event.
LEMMA CancellerKeeps ==
    ASSUME LogInv, CancellerInv, [Next]_vars
    PROVE  CancellerInv'
<1>0. write \in [Writers -> Recording \cup {Free}] /\ Canceller \in Writers /\ Canceller \notin Calls
    BY DispatchNames DEF LogInv, LogTypeOK
<1>1. CASE CancelNotes
    BY <1>0, <1>1 DEF CancelNotes, TakeNumber, InsertRow, InsertFails, Publish, CancellerInv
<1>2. CASE Crash
    BY <1>0, <1>2 DEF Crash, LogCrash, CancellerInv
<1>3. CASE \E c \in Calls : CallStep(c)
    <2>1. PICK c \in Calls : CallStep(c)
        BY <1>3
    <2>2. request' = request
        BY <2>1 DEF CallStep, Get, Claim, Start, NoteEvent, EventStored, EventLost, EventPublished,
                    EngineYields, Leave, QueryEnds, Release, Bill, Complete, Fail, Settle, cancel
    <2>3. CASE NoteEvent(c) \/ EventStored(c) \/ EventLost(c) \/ EventPublished(c)
        <3>1. write'[Canceller] = write[Canceller]
            BY <1>0, <2>3 DEF NoteEvent, EventStored, EventLost, EventPublished, TakeNumber,
                              InsertRow, InsertFails, Publish
        <3> QED BY <2>2, <3>1 DEF CancellerInv
    <2>4. CASE \/ Get(c) \/ Claim(c) \/ Start(c) \/ EngineYields(c) \/ Leave(c) \/ QueryEnds(c)
               \/ Release(c) \/ Bill(c) \/ Complete(c) \/ Fail(c) \/ Settle(c)
        <3>1. write' = write
            BY <2>4 DEF Get, Claim, Start, EngineYields, Leave, QueryEnds, Release, Bill, Complete,
                        Fail, Settle, logVars
        <3> QED BY <2>2, <3>1 DEF CancellerInv
    <2> QED BY <2>1, <2>3, <2>4 DEF CallStep
<1>4. CASE \/ Reader \/ CancelWrites \/ UNCHANGED vars \/ Delete
           \/ \E status \in Statuses : Edit(status)
           \/ \E c \in Calls : CancelReads(c) \/ OpenRunStream(c)
    <2>1. write' = write
        BY <1>4 DEF Reader, CancelWrites, Delete, Edit, CancelReads, OpenRunStream, ReadHistory, HistoryFails,
                    Follow, HangUp, OpenStream, logVars, vars
    <2>2. request' = request \/ request \in {"new", "write"}
        BY <1>4 DEF Reader, CancelWrites, Delete, Edit, CancelReads, OpenRunStream, cancel, vars
    <2> QED BY <2>1, <2>2 DEF CancellerInv
<1> QED BY <1>1, <1>2, <1>3, <1>4 DEF Next

\* Every step keeps it.
LEMMA DispatchStep ==
    LogInv /\ DispatchInv /\ CancellerInv /\ [Next]_vars => LogInv' /\ DispatchInv' /\ CancellerInv'
<1> SUFFICES ASSUME LogInv, DispatchInv, CancellerInv, [Next]_vars PROVE LogInv' /\ DispatchInv'
    BY CancellerKeeps
<1>1. CASE UNCHANGED vars
    <2>1. LogInv'
        BY <1>1, LogStep DEF vars
    <2>2. UNCHANGED <<write, thread, pc, run, known, events, usage, lastUsage, bill, tokens, request,
                      target, faults, crashes, edits, holding, claimant, raced, disturbed>>
        BY <1>1 DEF vars, logVars, rowVars, money, cancel, budget, history
    <2>3. \A c \in Calls : Same(c)
        BY <2>2 DEF Same, Cancelled
    <2>4. Types' /\ ThreadInv'
        BY <2>2 DEF DispatchInv, Types, ThreadInv, RunningThreadIsAttended
    <2> QED BY <2>1, <2>2, <2>3, <2>4, SameKeeps DEF DispatchInv
<1>2. CASE Next
    <2>1. LogInv'
        BY <1>2, LogSimulation, LogStep DEF DispatchInv
    <2>2. CASE \E c \in Calls : CallStep(c)
        <3>1. PICK c \in Calls : CallStep(c)
            BY <2>2
        <3>2. CASE Get(c) \/ Claim(c) \/ Start(c) \/ EngineYields(c) \/ Leave(c) \/ QueryEnds(c)
            BY <2>1, <3>2, GetKeeps, ClaimKeeps, StartKeeps, EngineYieldsKeeps, LeaveKeeps, QueryEndsKeeps
        <3>3. CASE NoteEvent(c) \/ EventStored(c) \/ EventLost(c) \/ EventPublished(c)
            BY <2>1, <3>3, EventGoesOnKeeps, EventLostKeeps, EventPublishedKeeps
        <3>4. CASE Release(c) \/ Bill(c) \/ Complete(c) \/ Fail(c) \/ Settle(c)
            BY <2>1, <3>4, ReleaseKeeps, BillKeeps, CompleteKeeps, FailKeeps, SettleKeeps
        <3>5. DispatchInv'
            BY <3>1, <3>2, <3>3, <3>4 DEF CallStep
        <3> QED BY <2>1, <3>5
    <2>3. CASE CancelNotes \/ Reader \/ \E c \in Calls : CancelReads(c) \/ OpenRunStream(c)
        BY <2>1, <2>3, OthersKeep
    <2>4. CASE CancelWrites \/ Crash
        BY <2>1, <2>4, CancelWritesKeeps, CrashKeeps
    <2>5. CASE Delete \/ \E status \in Statuses : Edit(status)
        BY <2>1, <2>5, EditKeeps, DeleteKeeps
    <2> QED BY <1>2, <2>2, <2>3, <2>4, <2>5 DEF Next
<1> QED BY <1>1, <1>2

\* So it holds in every state.
LEMMA DispatchAlways == Spec => [](LogInv /\ DispatchInv)
BY DispatchStarts, DispatchStep, PTL DEF Spec

------------------------------------------------------------------------------
(* The theorems.                                                             *)

\* ThreadDispatch implements the run log by itself: whatever the dispatches,
\* the cancel request and the server's death do, the events and their reader
\* take steps of the log.
THEOREM DispatchImplementsLog == Spec => LogSpec
<1>1. Init => LogInit
    BY DEF Init
<1>2. DispatchInv /\ [Next]_vars => [LogNext]_logVars
    BY LogSimulation DEF DispatchInv, vars
<1> QED BY <1>1, <1>2, DispatchAlways, PTL DEF Spec, LogSpec

\* Every variable keeps its type.
THEOREM TypeCorrect == Spec => []TypeOK
<1>1. LogInv /\ DispatchInv => TypeOK
    BY DEF LogInv, DispatchInv, Types, TypeOK
<1> QED BY <1>1, DispatchAlways, PTL

\* Any number of dispatches: two query at once only after a race between look
\* and claim, after one that failed late marked the thread under another, or
\* after an admin took it from its holder.
THEOREM NoTwoQueries == Spec => []OneQueryPerThread
<1>1. DispatchInv => OneQueryPerThread
    <2> SUFFICES ASSUME DispatchInv, NEW c \in Calls, NEW d \in Calls,
                        pc[c] \in Querying, pc[d] \in Querying, c # d, ~raced, ~disturbed
                 PROVE  FALSE
        BY DEF OneQueryPerThread
    <2>1. c \in holding /\ d \in holding
        BY DEF DispatchInv, ThreadInv, Held
    <2> QED BY <2>1 DEF DispatchInv, ThreadInv
<1> QED BY <1>1, DispatchAlways, PTL

\* Any number of dispatches: the one that set a running thread running still
\* has its write of the thread ahead of it, or was cut off.
THEOREM ThreadIsAttended == Spec => []RunningThreadIsAttended
<1>1. DispatchInv => RunningThreadIsAttended
    BY DEF DispatchInv, ThreadInv
<1> QED BY <1>1, DispatchAlways, PTL

\* A dispatch that is over has settled its run, unless its consumer left, the
\* server died under it, or the database refused.
THEOREM EndedRunsAreSettled == Spec => []EndedRunIsSettled
<1>1. DispatchInv => EndedRunIsSettled
    BY DEF DispatchInv, CallInv, EndedRunIsSettled
<1> QED BY <1>1, DispatchAlways, PTL

\* Bill and run agree on the dispatch's own usage.
THEOREM UsageIsBilledOnce == Spec => []UsageIsItsOwn
<1>1. DispatchInv => UsageIsItsOwn
    BY DEF DispatchInv, CallInv, UsageIsItsOwn
<1> QED BY <1>1, DispatchAlways, PTL

\* An outcome is final but for a cancel request and a failing database.
THEOREM OutcomesAreFinal == Spec => OutcomeIsFinal
<1>1. ASSUME DispatchInv, [Next]_vars, NEW c \in Calls, run[c] \in TerminalStatuses, run'[c] # run[c]
      PROVE  (request # "new" /\ target = c) \/ faults > 0
    <2> USE DEF DispatchInv
    <2>1. run \in [Calls -> TerminalStatuses \cup {"running", None}]
        BY <1>1 DEF Types
    <2>2. CASE \E d \in Calls : CallStep(d)
        <3>1. PICK d \in Calls : CallStep(d)
            BY <2>2
        <3>2. Start(d) \/ Complete(d) \/ Fail(d)
            BY <1>1, <3>1 DEF CallStep, Get, Claim, NoteEvent, EventStored, EventLost, EventPublished,
                              EngineYields, Leave, QueryEnds, Release, Bill, Settle, rowVars
        <3>3. d = c /\ pc[c] \in {"start", "complete", "fail"}
            <4>1. CASE Start(d)
                BY <1>1, <2>1, <4>1 DEF Start
            <4>2. CASE Complete(d)
                BY <1>1, <2>1, <4>2 DEF Complete
            <4>3. CASE Fail(d)
                BY <1>1, <2>1, <4>3 DEF Fail
            <4> QED BY <3>2, <4>1, <4>2, <4>3
        <3>4. pc[c] \in Early \cup Before \cup {"fail"} /\ CallInv(c)
            BY <1>1, <3>3 DEF Early, Before
        <3> QED BY <1>1, <3>4, Outcomes DEF CallInv, Cancelled
    <2>3. CASE CancelWrites
        BY <1>1, <2>1, <2>3 DEF CancelWrites, Types
    <2>4. CASE \/ Delete \/ \E status \in Statuses : Edit(status)
               \/ CancelNotes \/ Reader \/ Crash \/ UNCHANGED vars
               \/ \E d \in Calls : CancelReads(d) \/ OpenRunStream(d)
        <3>1. run' = run
            BY <2>4 DEF Edit, Delete, CancelNotes, Reader, Crash, CancelReads, OpenRunStream, rowVars, vars
        <3> QED BY <1>1, <3>1
    <2> QED BY <1>1, <2>2, <2>3, <2>4 DEF Next
<1>2. DispatchInv /\ [Next]_vars =>
          [\A c \in Calls : run[c] \in TerminalStatuses /\ run'[c] # run[c] =>
               (request # "new" /\ target = c) \/ faults > 0]_vars
    BY <1>1
<1> QED BY <1>2, DispatchAlways, PTL DEF Spec, OutcomeIsFinal

\* A client that follows a dispatch's run gets every row it may expect: the
\* dispatches write the log as it wants to be written.
THEOREM DispatchStreams == Spec => []StreamIsComplete
BY DispatchImplementsLog, StreamCompleteness, PTL

\* Whatever dispatches and database do, the client is sent no row twice and
\* none that is older than one it was sent.
THEOREM DispatchMovesForward == Spec => StreamMovesForward
BY DispatchImplementsLog, StreamProgress, PTL
==============================================================================
