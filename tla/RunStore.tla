------------------------------ MODULE RunStore ------------------------------
(***************************************************************************)
(* AgentLoop.runWithStore, AgentLoop.resume and FileRunStore: a run whose  *)
(* events are logged before its caller sees them, and that another engine  *)
(* picks up from the log.                                                  *)
(*                                                                         *)
(* The inner generator is LoopProtocol.  The wrapper stands at wpc: the    *)
(* event the inner generator yielded (out) is appended to events.jsonl,    *)
(* then to the audit chain, then handed to the caller.  Either append may  *)
(* fail (fail-open: the caller is told, the event goes on), the caller may *)
(* stop reading, and the process may die at any step; run.json and         *)
(* events.jsonl survive, the generators and their messages do not.         *)
(***************************************************************************)
EXTENDS EventLog

CONSTANTS
  maxTurns, MaxBlocks,
  MaxIssued,       \* bound: tool_use blocks over all loops
  MaxRemarks,      \* bound: logged events that say nothing of the history
  RemarkTypes,     \* bound: the types of such events tried
  MaxFailures,     \* bound: failed store and audit calls, lost generators
  MaxResumes,      \* bound: AgentLoop.resume calls
  Reasons,         \* bound: the LoopResult.reason values tried
  Checkpoints,     \* the opts.fromCheckpoint values tried, {} for none
  Tears            \* the extents a failed or interrupted append may have

ASSUME BoundsAreNat ==
  /\ maxTurns \in Nat /\ MaxBlocks \in Nat /\ MaxIssued \in Nat
  /\ MaxRemarks \in Nat
  /\ MaxFailures \in Nat /\ MaxResumes \in Nat

ASSUME ReasonsAreExits == Reasons \subseteq ExitReason

ASSUME TearsAreExtents == Tears \subseteq Extent /\ "none" \in Tears

VARIABLES
  \* the inner AgentLoop.run
  phase, turn, uses, answered, issued, messages, reason, out,
  \* the wrapper
  wpc,
  \* durable
  status,          \* the status in run.json, "none" while there is no file
  log,             \* events.jsonl
  audit,           \* the audit chain's payloads
  \* history variables
  acked,           \* events whose append was acknowledged, in order
  faults,          \* store and audit calls that failed
  lost,            \* generators that ended without their finally block
  resumes,
  branched         \* a resume went back behind the end of the log

loopVars == <<phase, turn, uses, answered, messages, reason, out>>
diskVars == <<status, log, audit>>
pastVars == <<acked, faults, lost, resumes, branched>>
vars == <<loopVars, issued, wpc, diskVars, pastVars>>

Loop == INSTANCE LoopProtocol

RunStatus == {"pending", "running", "paused", "completed", "failed", "aborted"}
Readback == Events(log)

\* Seeded fault: no default branch.
mapReasonVerbatim(r) ==
  CASE r \in {"end_turn", "stop_sequence", "refusal"} -> "completed"
    [] r \in {"pause_turn", "max_tokens", "max_turns", "budget_exceeded"} -> "paused"
    [] OTHER -> r

\* mapReasonToStatus; a run that returned no result has no reason.
mapReasonToStatus(r) ==
  CASE r \in {"end_turn", "stop_sequence", "refusal"} -> "completed"
    [] r = "aborted" -> "aborted"
    [] r \in {"pause_turn", "max_tokens", "max_turns", "budget_exceeded"} -> "paused"
    [] OTHER -> "failed"

\* A generator that is gone: nothing of it is left in memory.
Gone ==
  /\ phase' = "idle" /\ turn' = 0 /\ uses' = <<>> /\ answered' = 0
  /\ messages' = <<>> /\ reason' = "none" /\ out' = NoEvent
  /\ wpc' = "off"

FailuresLeft == faults + lost < MaxFailures
LoseGenerator == FailuresLeft /\ lost' = lost + 1 /\ Gone
Fault == FailuresLeft /\ faults' = faults + 1

Init ==
  /\ Loop!Init
  /\ wpc = "open"
  /\ status \in {"none", "pending"}
  /\ log = EmptyLog /\ audit = <<>>
  /\ acked = <<>> /\ faults = 0 /\ lost = 0 /\ resumes = 0
  /\ branched = FALSE

------------------------------------------------------------------------------
(* runWithStore                                                              *)

\* updateStatus(running); when that fails, because there is no run.json or for
\* any other reason, create({id}) writes a new run.json (its metadata is not
\* passed on) and updateStatus is tried again.
Open ==
  /\ wpc = "open"
  /\ status' = "running"
  /\ wpc' = "pull"
  /\ UNCHANGED <<loopVars, issued, log, audit, pastVars>>

\* create, or the second updateStatus, throws: no event was ever produced.
OpenFails ==
  /\ wpc = "open"
  /\ Fault
  /\ status' \in {status, "pending"}
  /\ Gone
  /\ UNCHANGED <<issued, log, audit, acked, lost, resumes, branched>>

RemarksLeft ==
  Cardinality({i \in 1..Len(log.lines) : log.lines[i].type \in RemarkTypes})
    < MaxRemarks

\* The inner generator runs until its next event.  Every answer costs one
\* token, so the cumulative usage is the number of answers of this generator.
Inner ==
  /\ wpc = "pull" /\ out = NoEvent /\ phase # "over"
  /\ \/ Loop!BeginTurn \/ Loop!Result \/ Loop!TurnDone \/ Loop!Fail
     \/ Loop!Close /\ reason' \in Reasons
     \/ Loop!Over
     \/ \E n \in 0..MaxBlocks : Loop!Answer(n) /\ issued' <= MaxIssued
     \/ Loop!Usage(turn)
     \/ RemarksLeft /\ (Loop!About \/ Loop!Remark) /\ out'.type \in RemarkTypes
  /\ UNCHANGED <<wpc, diskVars, pastVars>>

\* Seeded fault: tool results are stored and not audited.
AfterAppendNoResults ==
  IF shouldAudit(out) /\ out.type # "result" THEN "audit" ELSE "deliver"

AfterAppend == IF shouldAudit(out) THEN "audit" ELSE "deliver"

\* Seeded fault: the append is not awaited.
AppendUnawaited ==
  /\ wpc = "pull" /\ out # NoEvent
  /\ log' \in {log, Written(log, out, "all")} /\ acked' = Append(acked, out)
  /\ wpc' = AfterAppend
  /\ UNCHANGED <<loopVars, issued, status, audit, faults, lost, resumes, branched>>

\* await store.appendEvent(runId, event)
AppendEvent ==
  /\ wpc = "pull" /\ out # NoEvent
  /\ log' = Written(log, out, "all") /\ acked' = Append(acked, out)
  /\ wpc' = AfterAppend
  /\ UNCHANGED <<loopVars, issued, status, audit, faults, lost, resumes, branched>>

\* appendEvent rejects, with part of the line on disk at worst.
AppendFails ==
  /\ wpc = "pull" /\ out # NoEvent
  /\ Fault
  /\ \E extent \in Tears : log' = Written(log, out, extent)
  /\ wpc' = "complain"
  /\ UNCHANGED <<loopVars, issued, status, audit, acked, lost, resumes, branched>>

\* The caller has taken the serialization error and asks for more.
Complained ==
  /\ wpc \in {"complain", "auditComplain"}
  /\ wpc' = IF wpc = "complain" THEN AfterAppend ELSE "deliver"
  /\ UNCHANGED <<loopVars, issued, diskVars, pastVars>>

\* auditStore.append(runId, auditPayloadOf(event))
AuditAppend ==
  /\ wpc = "audit"
  /\ \/ audit' = Append(audit, out) /\ wpc' = "deliver" /\ UNCHANGED faults
     \/ Fault /\ wpc' = "auditComplain" /\ UNCHANGED audit
  /\ UNCHANGED <<loopVars, issued, status, log, acked, lost, resumes, branched>>

\* yield event; the caller comes back and inner.next() resumes the loop.
Deliver ==
  /\ wpc = "deliver"
  /\ Loop!Take
  /\ wpc' = "pull"
  /\ UNCHANGED <<diskVars, pastVars>>

Yielding == wpc \in {"complain", "auditComplain", "deliver"}

\* The caller leaves its for await: the finally block runs with no result.
CallerReturns ==
  /\ Yielding
  /\ reason' = "none" /\ out' = NoEvent /\ wpc' = "seal"
  /\ UNCHANGED <<phase, turn, uses, answered, messages, issued, diskVars, pastVars>>

\* bridgeAgentLoopToSDK drives next() by hand and never calls return(): when
\* its own caller leaves, the generator stays suspended for good.
CallerAbandons ==
  /\ Yielding
  /\ LoseGenerator
  /\ UNCHANGED <<issued, diskVars, acked, faults, resumes, branched>>

\* The inner generator is done: on to the finally block.
InnerDone ==
  /\ wpc = "pull" /\ out = NoEvent /\ phase = "over"
  /\ wpc' = "seal"
  /\ UNCHANGED <<loopVars, issued, diskVars, pastVars>>

\* Seeded fault: the status is updated only when there is a result.
SealResultsOnly ==
  /\ wpc = "seal"
  /\ status' = IF reason = "none" THEN status ELSE mapReasonToStatus(reason)
  /\ Gone
  /\ UNCHANGED <<issued, log, audit, pastVars>>

\* finally: updateStatus(mapReasonToStatus(result?.reason)), errors swallowed.
Seal ==
  /\ wpc = "seal"
  /\ \/ status' = mapReasonToStatus(reason) /\ UNCHANGED faults
     \/ Fault /\ UNCHANGED status
  /\ Gone
  /\ UNCHANGED <<issued, log, audit, acked, lost, resumes, branched>>

------------------------------------------------------------------------------
(* Failure and resume                                                        *)

\* The process dies; an append that was under way may have gone any distance.
Crash ==
  /\ wpc # "off"
  /\ LoseGenerator
  /\ IF wpc = "pull" /\ out # NoEvent
     THEN \E extent \in Tears \cup {"all"} : log' = Written(log, out, extent)
     ELSE UNCHANGED log
  /\ UNCHANGED <<issued, status, audit, acked, faults, resumes, branched>>

\* AgentLoop.resume on the log's end: loadSnapshot, then runWithStore on a new
\* loop that starts from the rebuilt messages and counts turns from 1 again.
RestartFrom(events) ==
  /\ messages' = Rebuild(events)
  /\ resumes < MaxResumes /\ resumes' = resumes + 1
  /\ wpc' = "open"
  /\ UNCHANGED <<phase, turn, uses, answered, reason, out, issued, diskVars,
                 acked, faults, lost>>

Resume ==
  /\ wpc = "off" /\ status # "none"
  /\ RestartFrom(Readback)
  /\ UNCHANGED branched

\* fromCheckpoint: loadCheckpoint, and the log keeps what came after it.
ResumeFromCheckpoint(t) ==
  /\ wpc = "off" /\ status # "none"
  /\ t >= 1 /\ Reaches(Readback, t)
  /\ RestartFrom(SubSeq(Readback, 1, Cutoff(Readback, t)))
  /\ branched' = (branched \/ Cutoff(Readback, t) < Len(Readback))

Next ==
  \/ Open \/ OpenFails \/ Inner \/ AppendEvent \/ AppendFails \/ Complained
  \/ AuditAppend \/ Deliver \/ CallerReturns \/ CallerAbandons \/ InnerDone
  \/ Seal \/ Crash \/ Resume
  \/ \E t \in Checkpoints : ResumeFromCheckpoint(t)

Spec == Init /\ [][Next]_vars

------------------------------------------------------------------------------
(* Properties                                                                *)

\* The type of every variable; run.json holds a RunStatus and nothing else.
TypeOK ==
  /\ phase \in {"idle", "requested", "answered", "tools", "ending", "over"}
  /\ turn \in 0..maxTurns
  /\ uses \in Seq(Nat) /\ answered \in 0..Len(uses) /\ issued \in Nat
  /\ messages \in Seq(Message)
  /\ reason \in ExitReason \cup {"none"}
  /\ out \in Event \cup {NoEvent}
  /\ wpc \in {"off", "open", "pull", "complain", "audit", "auditComplain",
              "deliver", "seal"}
  /\ status \in RunStatus \cup {"none"}
  /\ log \in [lines : Seq(Event \cup {Torn}), cut : BOOLEAN]
  /\ audit \in Seq(Event) /\ acked \in Seq(Event)
  /\ faults \in 0..MaxFailures /\ lost \in 0..(MaxFailures - faults)
  /\ resumes \in 0..MaxResumes
  /\ branched \in BOOLEAN

\* The model is waiting for an answer to this request.
Requesting == wpc = "pull" /\ phase = "requested" /\ out = NoEvent

\* What the log says of the history: the prompt is never logged.
Logged(msgs) == Only(msgs, Message \ {Prompt})

\* The store is the source of truth: what resume would rebuild from the log at
\* a request is the very history that request is made with, through crashes
\* and resumes, as long as no append failed and no resume went back.
LiveHistoryIsLogged ==
  (Requesting /\ faults = 0 /\ ~branched) => Rebuild(Readback) = Logged(messages)

\* An event whose append was acknowledged is read back later, in its order.
AckedEventsReadBack == LET read == Readback IN acked = read \/ Within(acked, read)

\* A checkpoint is a fixture: once a later turn has begun, nothing that is
\* appended, by this engine or one that resumes, changes what it rebuilds.
SealedCheckpointIsStable ==
  [][log' # log =>
       LET before == Readback
           after  == Events(log')
       IN  \A t \in 1..maxTurns :
             Sealed(before, t) => Checkpoint(after, t) = Checkpoint(before, t)]_vars

\* Before anything was resumed, a sealed checkpoint has every tool_use answered,
\* unless an append failed: the event of a result may be the one that is missing.
SealedCheckpointIsPaired ==
  (resumes = 0 /\ faults = 0) =>
    LET events == Readback
    IN  \A t \in 1..maxTurns : Sealed(events, t) => Paired(Checkpoint(events, t))

Audited == {e \in Event : shouldAudit(e)}

\* The audit chain follows the log, and they differ by what failed and no more.
\* An event whose append was rejected is audited all the same, so the chain may
\* have one per failed call that the log lacks, none when none failed.  In all
\* they differ by one event per failed call, one per generator lost between the
\* two appends, and the one in flight (AgentLoop.ts 861-872).
AuditFollowsTheLog ==
  LET due == Only(log.lines, Audited)
  IN  \/ audit = due
      \/ Follows(audit, due, faults, faults + lost + (IF wpc = "audit" THEN 1 ELSE 0))

\* run.json says running with nobody working on the run only when the process
\* died, the status could not be written, or the caller walked away.
RunningIsAttended ==
  (wpc = "off" /\ status = "running") => lost > 0 \/ faults > 0

\* Claim of messageFilters.ts:156 (cleanupForResume, "resume 前必跑"): a
\* resumed loop never sends a tool_use whose result is missing.
ResumedRequestsArePaired == (Requesting /\ resumes > 0) => Paired(messages)

\* Claim of AgentLoopRunStore.test.ts:312: a snapshot's usage is the total over
\* all loops that ever ran.  Every answer costs one token.
SnapshotUsageIsTotal ==
  wpc = "off" =>
    RebuildUsage(Readback)
      = Len(SelectSeq(Readback, LAMBDA e : e.type = "usage_update"))
=============================================================================
