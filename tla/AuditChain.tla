----------------------------- MODULE AuditChain -----------------------------
(***************************************************************************)
(* FilesystemAuditStore: the hash chain in audit.jsonl of one run, its     *)
(* in-memory head cache, and the append calls of the engines that share    *)
(* the file.                                                               *)
(*                                                                         *)
(* An append suspends at every await: while it loads the chain (cache      *)
(* miss), while the line is written, and before it stores the new head.    *)
(* The head it read is a local that the awaits may outdate.                *)
(*                                                                         *)
(* sha256 is a table: hash number h stands for the content minted[h] it    *)
(* was computed from, 0 is GENESIS_HASH.  A line is written whole or not   *)
(* at all (the header's "< 4KB atomic"); RunStore tears lines.             *)
(***************************************************************************)
EXTENDS Naturals, Sequences, FiniteSets

CONSTANTS
  Engines,       \* processes, each with its own store object
  Calls,         \* append calls
  OneAtATime,    \* callers await an append before they start the next
  FreshStores    \* an engine that takes a run over has nothing cached of it

ASSUME DisciplineIsBoolean == OneAtATime \in BOOLEAN /\ FreshStores \in BOOLEAN

VARIABLES
  file,          \* audit.jsonl
  minted,        \* the contents hashed so far
  cache,         \* cache[e]: the entry of engine e's store for this run
  step,          \* step[c]: where append call c stands
  by,            \* by[c]: the engine it runs on
  head,          \* head[c]: its local head
  event,         \* event[c]: the event it wrote
  owner          \* the engine that started the last append

vars == <<file, minted, cache, step, by, head, event, owner>>

Nobody == "nobody"
ASSUME NobodyIsNoEngine == Nobody \notin Engines

Entry == [nextIndex : Nat, lastHash : Nat]
NoEntry == [nextIndex |-> 0, lastHash |-> 0, miss |-> TRUE]
Content == [prevHash : Nat, index : Nat, payload : Calls]
AuditEvent == [index : Nat, prevHash : Nat, hash : Nat, payload : Calls]
NoAuditEvent == [index |-> 0, none |-> TRUE]

InFlight == {"load", "loaded", "write", "cache"}
NoneInFlight == \A c \in Calls : step[c] \notin InFlight

\* Seeded fault: no genesis hash for an empty chain (events.at(-1)?.hash).
HeadWithoutGenesis(chain) ==
  IF chain = <<>> THEN [nextIndex |-> 0]
  ELSE [nextIndex |-> Len(chain), lastHash |-> chain[Len(chain)].hash]

\* What getHead makes of the chain it has loaded.
HeadOf(chain) ==
  [nextIndex |-> Len(chain),
   lastHash  |-> IF chain = <<>> THEN 0 ELSE chain[Len(chain)].hash]

Init ==
  /\ file = <<>> /\ minted = <<>>
  /\ cache = [e \in Engines |-> NoEntry]
  /\ step = [c \in Calls |-> "idle"]
  /\ by = [c \in Calls |-> Nobody]
  /\ head = [c \in Calls |-> NoEntry]
  /\ event = [c \in Calls |-> NoAuditEvent]
  /\ owner = Nobody

\* The rules callers keep, when they keep them.
MayStart(e) ==
  /\ OneAtATime => NoneInFlight
  /\ FreshStores => cache[e] = NoEntry \/ owner = e

\* append: getHead answers from the cache or starts to load.
Start(c, e) ==
  /\ step[c] = "idle" /\ MayStart(e)
  /\ by' = [by EXCEPT ![c] = e] /\ owner' = e
  /\ \/ /\ cache[e] = NoEntry
        /\ step' = [step EXCEPT ![c] = "load"] /\ UNCHANGED head
     \/ /\ cache[e] # NoEntry
        /\ step' = [step EXCEPT ![c] = "write"]
        /\ head' = [head EXCEPT ![c] = cache[e]]
  /\ UNCHANGED <<file, minted, cache, event>>

\* readJsonlLines settles.
Load(c) ==
  /\ step[c] = "load"
  /\ head' = [head EXCEPT ![c] = HeadOf(file)]
  /\ step' = [step EXCEPT ![c] = "loaded"]
  /\ UNCHANGED <<file, minted, cache, by, event, owner>>

CacheLoaded(c) ==
  /\ step[c] = "loaded"
  /\ cache' = [cache EXCEPT ![by[c]] = head[c]]
  /\ step' = [step EXCEPT ![c] = "write"]
  /\ UNCHANGED <<file, minted, by, head, event, owner>>

ContentOf(c) ==
  [prevHash |-> head[c].lastHash, index |-> head[c].nextIndex, payload |-> c]
EventOf(c) ==
  [index |-> head[c].nextIndex, prevHash |-> head[c].lastHash,
   hash |-> Len(minted) + 1, payload |-> c]

\* The line is in the file; the call has not been resumed yet.
Write(c) ==
  /\ step[c] = "write"
  /\ minted' = Append(minted, ContentOf(c))
  /\ file' = Append(file, EventOf(c))
  /\ event' = [event EXCEPT ![c] = EventOf(c)]
  /\ step' = [step EXCEPT ![c] = "cache"]
  /\ UNCHANGED <<cache, by, head, owner>>

\* load or appendFile rejects, and append with it; the cache stays.
Fails(c) ==
  /\ step[c] \in {"load", "write"}
  /\ step' = [step EXCEPT ![c] = "failed"]
  /\ UNCHANGED <<file, minted, cache, by, head, event, owner>>

\* Seeded fault: the head is not advanced.
NextHeadStale(c) == head[c]
NextHead(c) ==
  [nextIndex |-> head[c].nextIndex + 1, lastHash |-> event[c].hash]

\* cache.set, and append returns the event.
Finish(c) ==
  /\ step[c] = "cache"
  /\ cache' = [cache EXCEPT ![by[c]] = NextHead(c)]
  /\ step' = [step EXCEPT ![c] = "done"]
  /\ UNCHANGED <<file, minted, by, head, event, owner>>

\* Seeded fault: a restarted engine finds its old cache.
RestartKeepsCache(e) ==
  /\ step' = [c \in Calls |-> IF by[c] = e /\ step[c] \in InFlight
                              THEN "failed" ELSE step[c]]
  /\ UNCHANGED <<file, minted, cache, by, head, event, owner>>

\* The engine dies and comes back: the cache is empty, its calls are gone,
\* what was written stays.
Restart(e) ==
  /\ cache' = [cache EXCEPT ![e] = NoEntry]
  /\ step' = [c \in Calls |-> IF by[c] = e /\ step[c] \in InFlight
                              THEN "failed" ELSE step[c]]
  /\ UNCHANGED <<file, minted, by, head, event, owner>>

\* The cache is cleared under the calls in flight, which keep their heads.
dispose(e) ==
  /\ cache[e] # NoEntry
  /\ cache' = [cache EXCEPT ![e] = NoEntry]
  /\ UNCHANGED <<file, minted, step, by, head, event, owner>>

Next ==
  \/ \E c \in Calls, e \in Engines : Start(c, e)
  \/ \E c \in Calls :
       Load(c) \/ CacheLoaded(c) \/ Write(c) \/ Fails(c) \/ Finish(c)
  \/ \E e \in Engines : Restart(e) \/ dispose(e)

Spec == Init /\ [][Next]_vars

------------------------------------------------------------------------------
(* verify                                                                    *)

\* The hash of the event before position i.
PrevOf(chain, i) == IF i = 1 THEN 0 ELSE chain[i - 1].hash

\* Seeded fault: the recomputed hash is not compared.
HashUnchecked(chain, i) == TRUE

\* computeHash(prevHash, {index, payload, ts}) is the stored hash.
HashMatches(chain, i) ==
  minted[chain[i].hash] =
    [prevHash |-> PrevOf(chain, i), index |-> chain[i].index,
     payload |-> chain[i].payload]

verify(chain) ==
  \A i \in 1..Len(chain) :
    /\ chain[i].index = i - 1
    /\ chain[i].prevHash = PrevOf(chain, i)
    /\ HashMatches(chain, i)

------------------------------------------------------------------------------
(* Properties                                                                *)

\* The type of every variable; a head, cached or local, has index and hash.
TypeOK ==
  /\ file \in Seq(AuditEvent)
  /\ minted \in Seq(Content)
  /\ cache \in [Engines -> Entry \cup {NoEntry}]
  /\ step \in [Calls -> InFlight \cup {"idle", "failed", "done"}]
  /\ by \in [Calls -> Engines \cup {Nobody}]
  /\ head \in [Calls -> Entry \cup {NoEntry}]
  /\ event \in [Calls -> AuditEvent \cup {NoAuditEvent}]
  /\ owner \in Engines \cup {Nobody}

\* verify accepts what the store itself wrote, whichever appends failed and
\* whichever engine died between two steps.
ChainVerifies == verify(file)

\* An append that returned gave its caller the event that stands at that index,
\* and its payload is in the chain once.
AcknowledgedStand ==
  \A c \in Calls : step[c] = "done" =>
    /\ event[c].index < Len(file)
    /\ file[event[c].index + 1] = event[c]
    /\ \A i \in 1..Len(file) : file[i].payload = c => i = event[c].index + 1

Without(chain, i) == SubSeq(chain, 1, i - 1) \o SubSeq(chain, i + 1, Len(chain))
Edited(chain, i, c) == [chain EXCEPT ![i].payload = c]
Swapped(chain, i) == [chain EXCEPT ![i] = chain[i + 1], ![i + 1] = chain[i]]

\* A chain that verifies stops verifying when a payload is edited anywhere, or
\* when an event that is not the last is removed or trades places.
TamperingIsDetected ==
  verify(file) =>
    /\ \A i \in 1..Len(file) : \A c \in Calls \ {file[i].payload} :
         ~verify(Edited(file, i, c))
    /\ \A i \in 1..Len(file) :
         i < Len(file) => ~verify(Without(file, i)) /\ ~verify(Swapped(file, i))

\* Claim of FilesystemAuditStore.ts:9 (the cache makes concurrent appends of
\* one process safe).
ConcurrentAppendsVerify == Cardinality(Engines) = 1 => verify(file)

\* Claim of FilesystemAuditStore.ts:10 (engines that append to one run in turn
\* keep the chain right, because the head is loaded again).
HandoverVerifies == OneAtATime => verify(file)
=============================================================================
