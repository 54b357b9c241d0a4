------------------------------ MODULE EventLog ------------------------------
(***************************************************************************)
(* events.jsonl and what is rebuilt from it: appendJsonl, readJsonlLines,  *)
(* rebuildSnapshotFromEvents and rebuildCheckpointFromEvents.              *)
(*                                                                         *)
(* A log is the lines of the file and whether the last one lacks its       *)
(* newline.  A line is an event, or Torn when it no longer parses.         *)
(***************************************************************************)
EXTENDS LoopEvents, SequencesExt

Torn == [type |-> "torn", ids |-> <<>>, n |-> 0]
EmptyLog == [lines |-> <<>>, cut |-> FALSE]

\* How much of a line reached the file: a write may stop before the first byte,
\* inside the JSON, or right before the newline.
Extent == {"none", "part", "noeol", "all"}

\* appendFile(path, JSON + "\n").  The bytes go behind whatever is there: a
\* line without its newline swallows the next one and neither parses.
Written(log, e, extent) ==
  LET line == IF log.cut \/ extent = "part" THEN Torn ELSE e
      kept == IF log.cut THEN Front(log.lines) ELSE log.lines
  IN  IF extent = "none" THEN log
      ELSE [lines |-> Append(kept, line), cut |-> extent # "all"]

\* The elements of s that belong to kinds, in their order.
Only(s, kinds) ==
  LET only[n \in 0..Len(s)] ==
        IF n = 0 THEN <<>>
        ELSE only[n - 1] \o (IF s[n] \in kinds THEN <<s[n]>> ELSE <<>>)
  IN  only[Len(s)]

\* readJsonlLines: whatever does not parse is skipped, wherever it is.
Events(log) == Only(log.lines, Event)

\* rebuildSnapshotInternal: results wait in pending until the next turn or
\* answer begins, or the log ends.
Flush(acc) ==
  [messages |-> IF acc.pending = <<>> THEN acc.messages
                ELSE Append(acc.messages, ToolResultMessage(acc.pending)),
   pending  |-> <<>>]

\* Seeded fault: a new turn drops what the last one left pending.
FoldForgetful(acc, e) ==
  CASE e.type = "stream_request_start" -> [acc EXCEPT !.pending = <<>>]
    [] e.type = "assistant_message" ->
         [messages |-> Append(acc.messages, AssistantMessage(e.ids)), pending |-> <<>>]
    [] e.type = "result" -> [acc EXCEPT !.pending = @ \o e.ids]
    [] OTHER -> acc

FoldEvent(acc, e) ==
  CASE e.type = "stream_request_start" -> Flush(acc)
    [] e.type = "assistant_message" ->
         [messages |-> Append(Flush(acc).messages, AssistantMessage(e.ids)),
          pending  |-> <<>>]
    [] e.type = "result" -> [acc EXCEPT !.pending = @ \o e.ids]
    [] OTHER -> acc

\* What the loop over the events has gathered after the last of them.
Replay(events) ==
  LET acc[n \in 0..Len(events)] ==
        IF n = 0 THEN [messages |-> <<>>, pending |-> <<>>]
        ELSE FoldEvent(acc[n - 1], events[n])
  IN  acc[Len(events)]

Rebuild(events) == Flush(Replay(events)).messages

\* snapshot.cumulativeUsage: the last usage_update.
RebuildUsage(events) ==
  FoldLeft(LAMBDA acc, e : IF e.type = "usage_update" THEN e.n ELSE acc, 0, events)

\* rebuildCheckpointFromEvents: everything before the first start of a later
\* turn, or the whole log while there is none.
StartsAfter(events, t) ==
  {i \in 1..Len(events) : events[i].type = "stream_request_start" /\ events[i].n > t}
Reaches(events, t) ==
  \E i \in 1..Len(events) : events[i].type = "stream_request_start" /\ events[i].n >= t
Sealed(events, t) == Reaches(events, t) /\ StartsAfter(events, t) # {}

\* Seeded faults: the last later start is the cutoff; the turn after t is kept.
LatestCutoff(events, t) ==
  IF StartsAfter(events, t) = {} THEN Len(events) ELSE Max(StartsAfter(events, t)) - 1
LateCutoff(events, t) ==
  IF StartsAfter(events, t + 1) = {} THEN Len(events)
  ELSE Min(StartsAfter(events, t + 1)) - 1

Cutoff(events, t) ==
  IF StartsAfter(events, t) = {} THEN Len(events) ELSE Min(StartsAfter(events, t)) - 1

Checkpoint(events, t) == Rebuild(SubSeq(events, 1, Cutoff(events, t)))

\* Whether s can be read in t, in order, with other events in between.
Within(s, t) ==
  LET found[n \in 0..Len(t)] ==
        IF n = 0 THEN 0
        ELSE LET k == found[n - 1]
             IN  IF k < Len(s) /\ s[k + 1] = t[n] THEN k + 1 ELSE k
  IN  found[Len(t)] = Len(s)

\* The sequences that can be read in s.
Parts(s) ==
  LET parts[n \in 0..Len(s)] ==
        IF n = 0 THEN {<<>>}
        ELSE LET shorter == parts[n - 1]
             IN  shorter \cup {Append(p, s[n]) : p \in shorter}
  IN  parts[Len(s)]

\* Two sequences have a part in common that leaves out at most ahead elements of
\* the first and apart elements of both.
Follows(s, t, ahead, apart) ==
  \E both \in Parts(s) \cap Parts(t) :
    /\ Len(s) - Len(both) <= ahead
    /\ (Len(s) - Len(both)) + (Len(t) - Len(both)) <= apart

\* shouldAudit
shouldAudit(e) ==
  e.type \in {"assistant_message", "governance_decision", "error", "result"}
=============================================================================
