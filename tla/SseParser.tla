------------------------------ MODULE SseParser ------------------------------
(***************************************************************************)
(* SSEParser.consume with its ContentBlockAccumulator: the raw events of   *)
(* one streamed answer go in, parsed events come out.  Several content     *)
(* blocks may be open at a time, each under its index.                     *)
(*                                                                         *)
(* Text and JSON are abstracted to positions: the payload of a delta is    *)
(* the place of that delta in the stream, so the content of a block is the *)
(* sequence of the deltas it was put together from.  A "misfit" is a start *)
(* or delta of a kind the accumulator does not know or does not expect,    *)
(* and a stop that misfits closes a tool_use whose input is no JSON object.*)
(* message_stop is passed on like message_delta and stands for nothing, so *)
(* one event represents both.                                              *)
(***************************************************************************)
EXTENDS Naturals, Sequences

CONSTANT Indices     \* indices of content blocks

ASSUME IndicesAreNat == Indices \subseteq Nat

BlockEvent == {"content_block_start", "content_block_delta", "content_block_stop"}

RawEvent == [type : BlockEvent, index : Indices, fits : BOOLEAN]
              \cup [type : {"message_start", "message_delta", "unrecognised"}]

\* What an error says: where it comes from, and what ErrorClassifier makes of it.
SseError(source) == [type |-> "error", source |-> source, cls |-> "unknown"]

Nothing == [type |-> "nothing"]

\* The parser of a new stream.  slots maps the index of every open block to
\* the deltas it has.
FreshParser == [started |-> FALSE, slots |-> <<>>]

------------------------------------------------------------------------------
Open(p, i) == i \in DOMAIN p.slots

WithSlot(slots, i, content) ==
    [j \in DOMAIN slots \cup {i} |-> IF j = i THEN content ELSE slots[j]]

WithoutSlot(slots, i) == [j \in DOMAIN slots \ {i} |-> slots[j]]

\* content_block_start.  A second start of an open index begins it anew.
OnStart(p, e) ==
    IF e.fits THEN [parser |-> [p EXCEPT !.slots = WithSlot(@, e.index, <<>>)], out |-> Nothing]
              ELSE [parser |-> p, out |-> SseError("unknown_event")]

\* content_block_delta, the n-th event of the stream.
OnDelta(p, e, n) ==
    IF Open(p, e.index) /\ e.fits
    THEN [parser |-> [p EXCEPT !.slots = WithSlot(@, e.index, Append(@[e.index], n))],
          out |-> Nothing]
    ELSE [parser |-> p, out |-> SseError("block_state")]

\* content_block_stop: the block leaves its slot and is handed over whole.
OnStop(p, e, n) ==
    IF Open(p, e.index)
    THEN [parser |-> [p EXCEPT !.slots = WithoutSlot(@, e.index)],
          out |-> IF e.fits
                  THEN [type |-> "content_block_complete", at |-> n,
                        index |-> e.index, block |-> p.slots[e.index]]
                  ELSE SseError("invalid_input_json")]
    ELSE [parser |-> p, out |-> SseError("block_state")]

\* One turn of the parser's loop, for the n-th event e of the stream.
Feed(p, e, n) ==
    CASE e.type = "message_start" ->
           IF p.started
           THEN [parser |-> p, out |-> SseError("sse_protocol")]
           ELSE [parser |-> [p EXCEPT !.started = TRUE],
                 out |-> [type |-> "message_start", at |-> n]]
      [] e.type = "content_block_start" -> OnStart(p, e)
      [] e.type = "content_block_delta" -> OnDelta(p, e, n)
      [] e.type = "content_block_stop"  -> OnStop(p, e, n)
      [] e.type = "message_delta" ->
           [parser |-> p, out |-> [type |-> "message_delta", at |-> n]]
      [] OTHER -> [parser |-> p, out |-> SseError("unknown_event")]

\* Seeded fault: blocks still open at the end are dropped without a word.
AtEndLenient(p) == IF ~p.started THEN SseError("sse_protocol") ELSE Nothing

\* The stream ended by itself.  A missing message_stop is no error.
AtEnd(p) ==
    IF p.slots # <<>> THEN SseError("block_state")
    ELSE IF ~p.started THEN SseError("sse_protocol")
    ELSE Nothing

------------------------------------------------------------------------------
(* Reference: the blocks of a whole stream, read off the stream at once.     *)

IsStart(e, i) == e.type = "content_block_start" /\ e.index = i
IsDelta(e, i) == e.type = "content_block_delta" /\ e.index = i
IsStop(e, i)  == e.type = "content_block_stop" /\ e.index = i

StopsOf(wire, i) == {n \in DOMAIN wire : IsStop(wire[n], i)}

\* The places of the deltas that the block with index i has at place k of the
\* stream: those since it was last begun.
DeltasOf(wire, i, k) ==
    {n \in 1..k : IsDelta(wire[n], i) /\ \A m \in n..k : ~IsStart(wire[m], i)}

\* s is S in ascending order.
Lists(s, S) ==
    /\ {s[n] : n \in DOMAIN s} = S
    /\ \A m, n \in DOMAIN s : m < n => s[m] < s[n]

==============================================================================
