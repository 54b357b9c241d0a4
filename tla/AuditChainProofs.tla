-------------------------- MODULE AuditChainProofs --------------------------
(***************************************************************************)
(* What the audit chain guarantees for every number of engines, of appends *)
(* and of restarts: its types always; that verify accepts the chain and    *)
(* that acknowledged events stand, when appends are awaited one at a time  *)
(* and an engine that takes a run over has no stale head of it; and that   *)
(* verify notices an edit whenever it accepted the chain before.           *)
(***************************************************************************)
EXTENDS AuditChain, SequenceTheorems, TLAPS

TypeInv ==
  /\ TypeOK
  /\ \A c \in Calls : step[c] \in {"cache", "done"} => event[c] \in AuditEvent

\* getHead makes a proper cache entry of any chain.
LEMMA HeadIsEntry ==
  ASSUME NEW chain \in Seq(AuditEvent) PROVE HeadOf(chain) \in Entry
<1>1. CASE chain = <<>>
  BY <1>1 DEF HeadOf, Entry
<1>2. CASE chain # <<>>
  <2>1. Len(chain) \in 1..Len(chain)
    BY <1>2
  <2>2. chain[Len(chain)] \in AuditEvent
    BY <2>1
  <2> QED BY <1>2, <2>2 DEF HeadOf, Entry, AuditEvent
<1> QED BY <1>1, <1>2

\* The empty store is well typed.
LEMMA TypeInit == Init => TypeInv
BY DEF Init, TypeInv, TypeOK, InFlight

\* No step of an append, a failure, a restart or dispose breaks the types.
LEMMA TypeStep == TypeInv /\ [Next]_vars => TypeInv'
<1> SUFFICES ASSUME TypeInv, [Next]_vars PROVE TypeInv'
  OBVIOUS
<1> USE DEF TypeInv, TypeOK
<1>1. ASSUME NEW c \in Calls, NEW e \in Engines, Start(c, e) PROVE TypeInv'
  BY <1>1 DEF Start, InFlight
<1>2. ASSUME NEW c \in Calls, Load(c) PROVE TypeInv'
  BY <1>2, HeadIsEntry DEF Load, InFlight
<1>3. ASSUME NEW c \in Calls, CacheLoaded(c) PROVE TypeInv'
  BY <1>3 DEF CacheLoaded, InFlight
<1>4. ASSUME NEW c \in Calls, Write(c) PROVE TypeInv'
  <2>1. head[c].nextIndex \in Nat /\ head[c].lastHash \in Nat
    BY DEF Entry, NoEntry
  <2>2. ContentOf(c) \in Content
    BY <2>1 DEF ContentOf, Content
  <2>3. EventOf(c) \in AuditEvent
    BY <2>1 DEF EventOf, AuditEvent
  <2> QED BY <1>4, <2>2, <2>3 DEF Write, InFlight
<1>5. ASSUME NEW c \in Calls, Fails(c) PROVE TypeInv'
  BY <1>5 DEF Fails, InFlight
<1>6. ASSUME NEW c \in Calls, Finish(c) PROVE TypeInv'
  <2>1. head[c].nextIndex + 1 \in Nat
    BY DEF Entry, NoEntry
  <2>2. event[c].hash \in Nat
    BY <1>6 DEF Finish, AuditEvent
  <2>3. NextHead(c) \in Entry
    BY <2>1, <2>2 DEF NextHead, Entry
  <2> QED BY <1>6, <2>3 DEF Finish, InFlight
<1>7. ASSUME NEW e \in Engines, Restart(e) PROVE TypeInv'
  BY <1>7 DEF Restart, InFlight
<1>8. ASSUME NEW e \in Engines, dispose(e) PROVE TypeInv'
  BY <1>8 DEF dispose
<1>9. CASE UNCHANGED vars
  BY <1>9 DEF vars
<1> QED
  BY <1>1, <1>2, <1>3, <1>4, <1>5, <1>6, <1>7, <1>8, <1>9 DEF Next

(* The store keeps its types under any discipline of its callers: an entry of
   the cache is a head or absent, and a call that wrote has the event it
   wrote. *)
THEOREM TypeCorrect == Spec => []TypeOK
<1>1. TypeInv => TypeOK
  BY DEF TypeInv
<1> QED BY TypeInit, TypeStep, <1>1, PTL DEF Spec

------------------------------------------------------------------------------
(* Tampering                                                                 *)

\* Element i of what follows a sequence's first event.
LEMMA SecondPart ==
  ASSUME NEW S, NEW s \in Seq(S), NEW t \in Seq(S), Len(t) > 0
  PROVE  Len(s \o t) = Len(s) + Len(t) /\ (s \o t)[Len(s) + 1] = t[1]
<1>1. Len(s \o t) = Len(s) + Len(t)
  BY ConcatProperties
<1>2. Len(s) + 1 \in 1..(Len(s) + Len(t)) /\ ~(Len(s) + 1 <= Len(s))
  BY LenProperties
<1>3. (s \o t)[Len(s) + 1] = t[(Len(s) + 1) - Len(s)]
  BY <1>2, ConcatProperties
<1>4. (Len(s) + 1) - Len(s) = 1
  BY LenProperties
<1> QED BY <1>1, <1>3, <1>4

(* An edited payload, a removed event or two swapped events make verify reject
   a chain it accepted, whatever the chain and whoever wrote it: what
   AuditEventStore.ts:8 promises of an event in the middle. *)
THEOREM VerifyDetects ==
  ASSUME file \in Seq(AuditEvent) PROVE TamperingIsDetected
<1> SUFFICES ASSUME verify(file),
                    NEW i \in 1..Len(file)
             PROVE  /\ \A c \in Calls \ {file[i].payload} :
                         ~verify(Edited(file, i, c))
                    /\ i < Len(file) =>
                         ~verify(Without(file, i)) /\ ~verify(Swapped(file, i))
  BY DEF TamperingIsDetected
<1>1. file[i] \in AuditEvent /\ HashMatches(file, i)
  BY DEF verify
<1>2. ASSUME NEW c \in Calls, c # file[i].payload
      PROVE  ~verify(Edited(file, i, c))
  <2> DEFINE f == Edited(file, i, c)
  <2>1. Len(f) = Len(file) /\ f[i].payload = c /\ f[i].hash = file[i].hash
    BY <1>1 DEF Edited, AuditEvent
  <2>2. minted[file[i].hash].payload = file[i].payload
    BY <1>1 DEF HashMatches
  <2>3. HashMatches(f, i) => minted[f[i].hash].payload = c
    BY <2>1 DEF HashMatches
  <2>4. ~HashMatches(f, i)
    BY <1>2, <2>1, <2>2, <2>3
  <2> QED BY <2>1, <2>4 DEF verify
<1>3. ASSUME i < Len(file)
      PROVE  ~verify(Without(file, i)) /\ ~verify(Swapped(file, i))
  <2>1. file[i + 1].index = i
    BY <1>3 DEF verify
  <2>2. ~verify(Without(file, i))
    <3> DEFINE front == SubSeq(file, 1, i - 1)
               back == SubSeq(file, i + 1, Len(file))
    <3>1. front \in Seq(AuditEvent) /\ Len(front) = i - 1
      OBVIOUS
    <3>2. back \in Seq(AuditEvent) /\ Len(back) = Len(file) - i
      BY <1>3
    <3>3. back[1] = file[i + 1]
      BY <1>3, <3>2
    <3>4. Len(front \o back) = Len(file) - 1 /\ (front \o back)[i] = back[1]
      <4>1. Len(back) > 0
        BY <1>3, <3>2
      <4>2. /\ Len(front \o back) = Len(front) + Len(back)
            /\ (front \o back)[Len(front) + 1] = back[1]
        BY <3>1, <3>2, <4>1, SecondPart
      <4>3. Len(file) \in Nat /\ i \in Nat
        OBVIOUS
      <4> HIDE DEF front, back
      <4>4. Len(front) + 1 = i /\ Len(front) + Len(back) = Len(file) - 1
        BY <3>1, <3>2, <4>3
      <4> QED BY <4>2, <4>4
    <3>5. i \in 1..Len(front \o back) /\ (front \o back)[i].index # i - 1
      <4> HIDE DEF front, back
      <4> QED BY <1>3, <2>1, <3>3, <3>4
    <3>6. Without(file, i) = front \o back
      BY DEF Without
    <3>7. ~verify(front \o back)
      BY <3>5 DEF verify
    <3> QED BY <3>6, <3>7
  <2>3. ~verify(Swapped(file, i))
    <3>1. Len(Swapped(file, i)) = Len(file)
      BY DEF Swapped
    <3>2. Swapped(file, i)[i] = file[i + 1]
      BY <1>3 DEF Swapped
    <3>3. Swapped(file, i)[i].index # i - 1
      BY <2>1, <3>2
    <3> QED BY <3>1, <3>3 DEF verify
  <2> QED BY <2>2, <2>3
<1> QED BY <1>2, <1>3

\* The chain of a run shows any such change, even when callers overlap: if it
\* verifies at all, every edit, removal or exchange makes it stop to verify.
THEOREM TamperEvident == Spec => []TamperingIsDetected
<1>1. TypeOK => TamperingIsDetected
  BY VerifyDetects DEF TypeOK
<1> QED BY TypeCorrect, <1>1, PTL

------------------------------------------------------------------------------
(* Appends one at a time                                                     *)

Busy(c) == step[c] \in InFlight

\* One call in flight, on the engine that started last.
Alone ==
  /\ \A c, d \in Calls : Busy(c) /\ Busy(d) => c = d
  /\ \A c \in Calls : Busy(c) => by[c] = owner /\ owner \in Engines

\* The heads in use are the head of the file.
HeadsFresh ==
  /\ \A c \in Calls : step[c] \in {"loaded", "write"} => head[c] = HeadOf(file)
  /\ \A e \in Engines :
       /\ cache[e] # NoEntry /\ e = owner
       /\ \A c \in Calls : step[c] # "cache"
       => cache[e] = HeadOf(file)

\* A call that has not been resumed since its write wrote the last event.
LastWritten ==
  \A c \in Calls : step[c] = "cache" =>
    /\ Len(file) > 0 /\ file[Len(file)] = event[c]
    /\ head[c].nextIndex = Len(file) - 1

HashesMinted == \A i \in 1..Len(file) : file[i].hash \in 1..Len(minted)

\* Where the payloads of the chain come from, and where the events of the calls
\* went.
Accounted ==
  /\ \A i \in 1..Len(file) : step[file[i].payload] \in {"cache", "failed", "done"}
  /\ \A i, j \in 1..Len(file) : file[i].payload = file[j].payload => i = j
  /\ \A c \in Calls : step[c] \in {"cache", "done"} =>
       /\ event[c].index < Len(file)
       /\ file[event[c].index + 1] = event[c]
       /\ event[c].payload = c

ChainInv ==
  /\ TypeInv /\ Alone /\ HeadsFresh /\ LastWritten
  /\ HashesMinted /\ Accounted /\ ChainVerifies

Disciplined == OneAtATime /\ FreshStores

\* The empty chain satisfies the invariant.
LEMMA ChainInit == Init => ChainInv
BY TypeInit DEF Init, ChainInv, Alone, Busy, HeadsFresh, LastWritten,
   HashesMinted, Accounted, ChainVerifies, verify, InFlight

\* Steps that leave file and minted alone keep what is said of them.
LEMMA FileUntouched ==
  ASSUME ChainInv, UNCHANGED <<file, minted>>
  PROVE  HashesMinted' /\ ChainVerifies'
BY DEF ChainInv, HashesMinted, ChainVerifies, verify, HashMatches, PrevOf

\* A call that has not reached the write has no event in the file.
LEMMA NotYetWritten ==
  ASSUME ChainInv, NEW c \in Calls, step[c] \notin {"cache", "failed", "done"},
         NEW i \in 1..Len(file)
  PROVE  file[i].payload \in Calls /\ file[i].payload # c
<1>1. file[i] \in AuditEvent
  BY DEF ChainInv, TypeInv, TypeOK
<1>2. step[file[i].payload] \in {"cache", "failed", "done"}
  BY DEF ChainInv, Accounted
<1> QED BY <1>1, <1>2 DEF AuditEvent

\* getHead's answer from the cache is the true head, because the only engine
\* that may have one wrote last.
LEMMA StartStep ==
  ASSUME ChainInv, Disciplined, NEW c \in Calls, NEW e \in Engines, Start(c, e)
  PROVE  Alone' /\ HeadsFresh' /\ LastWritten' /\ Accounted'
<1> USE DEF ChainInv, TypeInv, TypeOK
<1>1. NoneInFlight /\ (cache[e] = NoEntry \/ owner = e)
  BY DEF Start, MayStart, Disciplined
<1>2. /\ step[c] = "idle" /\ by' = [by EXCEPT ![c] = e] /\ owner' = e
      /\ UNCHANGED <<file, minted, cache, event>>
      /\ \A d \in Calls \ {c} : step'[d] = step[d] /\ head'[d] = head[d]
      /\ step'[c] \in {"load", "write"}
      /\ step'[c] = "write" => cache[e] # NoEntry /\ head'[c] = cache[e]
  BY DEF Start
<1>3. Alone'
  BY <1>1, <1>2 DEF Alone, Busy, NoneInFlight
<1>4. cache[e] # NoEntry => cache[e] = HeadOf(file)
  BY <1>1 DEF HeadsFresh, NoneInFlight, InFlight
<1>5. HeadOf(file)' = HeadOf(file)
  BY <1>2 DEF HeadOf
<1>6. HeadsFresh'
  BY <1>1, <1>2, <1>4, <1>5 DEF HeadsFresh, NoneInFlight, InFlight
<1>7. LastWritten'
  BY <1>1, <1>2 DEF LastWritten, NoneInFlight, InFlight
<1>8. Accounted'
  <2>1. \A i \in 1..Len(file) : file[i].payload \in Calls /\ file[i].payload # c
    BY <1>2, NotYetWritten
  <2> QED BY <1>2, <2>1 DEF Accounted
<1> QED BY <1>3, <1>6, <1>7, <1>8

\* A load that nobody overlaps reads the true head.
LEMMA LoadStep ==
  ASSUME ChainInv, NEW c \in Calls, Load(c)
  PROVE  Alone' /\ HeadsFresh' /\ LastWritten' /\ Accounted'
<1> USE DEF ChainInv, TypeInv, TypeOK, Load
<1>1. HeadOf(file)' = HeadOf(file)
  BY DEF HeadOf
<1>2. Alone'
  BY DEF Alone, Busy, InFlight
<1>3. HeadsFresh'
  BY <1>1 DEF HeadsFresh
<1>4. LastWritten'
  BY DEF LastWritten
<1>5. Accounted'
  <2>1. \A i \in 1..Len(file) : file[i].payload \in Calls /\ file[i].payload # c
    BY NotYetWritten
  <2> QED BY <2>1 DEF Accounted
<1> QED BY <1>2, <1>3, <1>4, <1>5

\* Caching the loaded head keeps the cache true.
LEMMA CacheLoadedStep ==
  ASSUME ChainInv, NEW c \in Calls, CacheLoaded(c)
  PROVE  Alone' /\ HeadsFresh' /\ LastWritten' /\ Accounted'
<1> USE DEF ChainInv, TypeInv, TypeOK, CacheLoaded
<1>1. HeadOf(file)' = HeadOf(file)
  BY DEF HeadOf
<1>2. Alone'
  BY DEF Alone, Busy, InFlight
<1>3. by[c] = owner /\ owner \in Engines /\ head[c] = HeadOf(file)
  BY DEF Alone, Busy, InFlight, HeadsFresh
<1>4. HeadsFresh'
  BY <1>1, <1>3 DEF HeadsFresh
<1>5. LastWritten'
  BY DEF LastWritten
<1>6. Accounted'
  <2>1. \A i \in 1..Len(file) : file[i].payload \in Calls /\ file[i].payload # c
    BY NotYetWritten
  <2> QED BY <2>1 DEF Accounted
<1> QED BY <1>2, <1>4, <1>5, <1>6

\* An append on the true head extends a chain that verifies.
LEMMA WriteStep ==
  ASSUME ChainInv, NEW c \in Calls, Write(c)
  PROVE  ChainInv'
<1> USE DEF Write
<1>0. TypeInv'
  BY TypeStep DEF ChainInv, Next
<1>1. file \in Seq(AuditEvent) /\ minted \in Seq(Content)
  BY DEF ChainInv, TypeInv, TypeOK
<1>2. head[c] = HeadOf(file) /\ head[c] \in Entry
  BY <1>1, HeadIsEntry DEF ChainInv, HeadsFresh
<1> DEFINE ev == EventOf(c)
           n == Len(file)
<1>3. /\ ev.index = n /\ ev.prevHash = head[c].lastHash
      /\ ev.hash = Len(minted) + 1 /\ ev.payload = c
  BY <1>2 DEF EventOf, HeadOf
<1>4. ev \in AuditEvent /\ ContentOf(c) \in Content
  BY <1>2 DEF EventOf, ContentOf, AuditEvent, Content, Entry
<1>5. /\ Len(file') = n + 1 /\ file'[n + 1] = ev
      /\ \A i \in 1..n : file'[i] = file[i]
  BY <1>1, <1>4
<1>6. /\ Len(minted') = Len(minted) + 1
      /\ minted'[Len(minted) + 1] = ContentOf(c)
      /\ \A h \in 1..Len(minted) : minted'[h] = minted[h]
  BY <1>1, <1>4
<1>7. /\ step \in [Calls -> InFlight \cup {"idle", "failed", "done"}]
      /\ event \in [Calls -> AuditEvent \cup {NoAuditEvent}]
      /\ step[c] = "write" /\ step' = [step EXCEPT ![c] = "cache"]
      /\ event' = [event EXCEPT ![c] = ev]
  BY DEF ChainInv, TypeInv, TypeOK
<1>8. n \in Nat /\ Len(minted) \in Nat
  BY <1>1
<1>9. \A i \in 1..n : file[i].payload \in Calls /\ file[i].payload # c
  BY <1>7, NotYetWritten
<1> HIDE DEF ev, n, Write
<1>10. UNCHANGED <<cache, by, head, owner>>
  BY DEF Write
<1>11. Alone'
  BY <1>7, <1>10 DEF ChainInv, Alone, Busy, InFlight
<1>12. HeadsFresh'
  <2>1. \A d \in Calls : step[d] \in {"loaded", "write"} => d = c
    BY <1>7 DEF ChainInv, Alone, Busy, InFlight
  <2> QED BY <1>7, <1>10, <2>1 DEF HeadsFresh
<1>13. LastWritten'
  <2>1. \A d \in Calls : step[d] # "cache"
    BY <1>7 DEF ChainInv, Alone, Busy, InFlight
  <2>2. head[c].nextIndex = n
    BY <1>2 DEF HeadOf, n
  <2> QED BY <1>5, <1>7, <1>8, <1>10, <2>1, <2>2 DEF LastWritten
<1>14. HashesMinted'
  BY <1>3, <1>5, <1>6, <1>8 DEF ChainInv, HashesMinted, n
<1>15. Accounted'
  <2>1. \A i \in 1..Len(file') : step'[file'[i].payload] \in {"cache", "failed", "done"}
    <3>1. \A i \in 1..n : step[file[i].payload] \in {"cache", "failed", "done"}
      BY DEF ChainInv, Accounted, n
    <3> QED BY <1>3, <1>5, <1>7, <1>8, <1>9, <3>1
  <2>2. \A i, j \in 1..Len(file') : file'[i].payload = file'[j].payload => i = j
    <3>1. \A i, j \in 1..n : file[i].payload = file[j].payload => i = j
      BY DEF ChainInv, Accounted, n
    <3> QED BY <1>3, <1>5, <1>8, <1>9, <3>1
  <2>3. ASSUME NEW d \in Calls, step'[d] \in {"cache", "done"}
        PROVE  /\ event'[d].index < Len(file')
               /\ file'[event'[d].index + 1] = event'[d]
               /\ event'[d].payload = d
    <3>1. CASE d = c
      BY <1>3, <1>5, <1>7, <1>8, <3>1
    <3>2. CASE d # c
      <4>1. step[d] \in {"cache", "done"} /\ event'[d] = event[d]
        BY <1>7, <2>3, <3>2
      <4>2. /\ event[d].index < n /\ file[event[d].index + 1] = event[d]
            /\ event[d].payload = d
        BY <4>1 DEF ChainInv, Accounted, n
      <4>3. event[d].index \in Nat
        BY <4>1 DEF ChainInv, TypeInv, AuditEvent
      <4>4. event[d].index + 1 \in 1..n
        BY <1>8, <4>2, <4>3
      <4> QED BY <1>5, <1>8, <4>1, <4>2, <4>3, <4>4
    <3> QED BY <3>1, <3>2
  <2> QED BY <2>1, <2>2, <2>3 DEF Accounted
<1>16. ChainVerifies'
  <2> SUFFICES ASSUME NEW i \in 1..Len(file')
               PROVE  /\ file'[i].index = i - 1
                      /\ file'[i].prevHash = PrevOf(file, i)'
                      /\ HashMatches(file, i)'
    BY DEF ChainVerifies, verify
  <2>1. CASE i \in 1..n
    <3>1. /\ file[i].index = i - 1 /\ file[i].prevHash = PrevOf(file, i)
          /\ HashMatches(file, i)
      BY <2>1 DEF ChainInv, ChainVerifies, verify, n
    <3>2. PrevOf(file, i)' = PrevOf(file, i)
      BY <1>5, <1>8, <2>1 DEF PrevOf
    <3>3. file[i].hash \in 1..Len(minted)
      BY <2>1 DEF ChainInv, HashesMinted, n
    <3> QED BY <1>5, <1>6, <2>1, <3>1, <3>2, <3>3 DEF HashMatches
  <2>2. CASE i = n + 1
    <3>1. head[c].lastHash = PrevOf(file, i)'
      BY <1>2, <1>5, <1>8, <2>2 DEF HeadOf, PrevOf, n
    <3>2. minted'[file'[i].hash] = ContentOf(c)
      BY <1>3, <1>5, <1>6, <2>2
    <3>3. /\ ContentOf(c).prevHash = head[c].lastHash
          /\ ContentOf(c) = [prevHash |-> head[c].lastHash, index |-> n, payload |-> c]
      BY <1>2 DEF ContentOf, HeadOf, n
    <3>4. HashMatches(file, i)'
      BY <1>3, <1>5, <2>2, <3>1, <3>2, <3>3 DEF HashMatches
    <3> QED BY <1>3, <1>5, <1>8, <2>2, <3>1, <3>4
  <2> QED BY <1>5, <1>8, <2>1, <2>2
<1> QED
  BY <1>0, <1>11, <1>12, <1>13, <1>14, <1>15, <1>16 DEF ChainInv

\* A failed append leaves chain and cache as they were.
LEMMA FailsStep ==
  ASSUME ChainInv, NEW c \in Calls, Fails(c)
  PROVE  Alone' /\ HeadsFresh' /\ LastWritten' /\ Accounted'
<1> USE DEF ChainInv, TypeInv, TypeOK, Fails
<1>1. HeadOf(file)' = HeadOf(file)
  BY DEF HeadOf
<1>2. Alone'
  BY DEF Alone, Busy, InFlight
<1>3. \A d \in Calls : step[d] # "cache"
  BY DEF Alone, Busy, InFlight
<1>4. HeadsFresh'
  BY <1>1, <1>3 DEF HeadsFresh
<1>5. LastWritten'
  BY DEF LastWritten
<1>6. Accounted'
  <2>1. \A i \in 1..Len(file) : file[i].payload \in Calls /\ file[i].payload # c
    BY NotYetWritten
  <2> QED BY <2>1 DEF Accounted
<1> QED BY <1>2, <1>4, <1>5, <1>6

\* The new head stored after the write is the head of the chain.
LEMMA FinishStep ==
  ASSUME ChainInv, NEW c \in Calls, Finish(c)
  PROVE  Alone' /\ HeadsFresh' /\ LastWritten' /\ Accounted'
<1> USE DEF ChainInv, TypeInv, TypeOK, Finish
<1>1. HeadOf(file)' = HeadOf(file)
  BY DEF HeadOf
<1>2. Alone'
  BY DEF Alone, Busy, InFlight
<1>3. by[c] = owner /\ owner \in Engines
  BY DEF Alone, Busy, InFlight
<1>4. NextHead(c) = HeadOf(file)
  <2>1. /\ Len(file) > 0 /\ file[Len(file)] = event[c]
        /\ head[c].nextIndex = Len(file) - 1 /\ Len(file) \in Nat
    BY DEF LastWritten
  <2>2. head[c].nextIndex + 1 = Len(file) /\ file # <<>>
    BY <2>1
  <2> QED BY <2>1, <2>2 DEF NextHead, HeadOf
<1>5. HeadsFresh'
  BY <1>1, <1>3, <1>4 DEF HeadsFresh
<1>6. LastWritten'
  BY DEF LastWritten
<1>7. Accounted'
  <2>1. \A i \in 1..Len(file) : file[i].payload \in Calls
    <3> TAKE i \in 1..Len(file)
    <3>1. file[i] \in AuditEvent
      OBVIOUS
    <3> QED BY <3>1 DEF AuditEvent
  <2> QED BY <2>1 DEF Accounted
<1> QED BY <1>2, <1>5, <1>6, <1>7

\* A restart drops the cache and the calls, never the chain.
LEMMA RestartStep ==
  ASSUME ChainInv, NEW e \in Engines, Restart(e)
  PROVE  Alone' /\ HeadsFresh' /\ LastWritten' /\ Accounted'
<1> USE DEF ChainInv, TypeInv, TypeOK
<1>1. HeadOf(file)' = HeadOf(file)
  BY DEF HeadOf, Restart
<1>2. /\ cache' = [cache EXCEPT ![e] = NoEntry]
      /\ UNCHANGED <<file, by, head, event, owner>>
      /\ \A c \in Calls : \/ step'[c] = step[c]
                          \/ Busy(c) /\ step'[c] = "failed" /\ by[c] = e
      /\ \A c \in Calls : Busy(c) /\ by[c] = e => step'[c] = "failed"
  BY DEF Restart, Busy
<1>3. Alone'
  BY <1>2 DEF Alone, Busy, InFlight
<1>4. ASSUME NEW f \in Engines, cache'[f] # NoEntry, f = owner,
             \A c \in Calls : step'[c] # "cache"
      PROVE  cache'[f] = HeadOf(file)
  <2>1. f # e /\ cache'[f] = cache[f]
    BY <1>2, <1>4
  <2>2. \A c \in Calls : step[c] # "cache"
    BY <1>2, <1>4, <2>1 DEF Alone, Busy, InFlight
  <2> QED BY <1>4, <2>1, <2>2 DEF HeadsFresh
<1>5. HeadsFresh'
  BY <1>1, <1>2, <1>4 DEF HeadsFresh
<1>6. LastWritten'
  BY <1>2 DEF LastWritten
<1>7. Accounted'
  <2>1. \A i \in 1..Len(file) : file[i].payload \in Calls
    <3> TAKE i \in 1..Len(file)
    <3>1. file[i] \in AuditEvent
      OBVIOUS
    <3> QED BY <3>1 DEF AuditEvent
  <2> QED BY <1>2, <2>1 DEF Accounted
<1> QED BY <1>3, <1>5, <1>6, <1>7

\* An empty cache is never wrong.
LEMMA DisposeStep ==
  ASSUME ChainInv, NEW e \in Engines, dispose(e)
  PROVE  Alone' /\ HeadsFresh' /\ LastWritten' /\ Accounted'
<1> USE DEF ChainInv, TypeInv, TypeOK, dispose
<1>1. HeadOf(file)' = HeadOf(file)
  BY DEF HeadOf
<1>2. Alone' /\ LastWritten' /\ Accounted'
  BY DEF Alone, Busy, LastWritten, Accounted
<1>3. HeadsFresh'
  BY <1>1 DEF HeadsFresh
<1> QED BY <1>2, <1>3

\* Every step of disciplined callers keeps the invariant.
LEMMA ChainStep == ChainInv /\ Disciplined /\ [Next]_vars => ChainInv'
<1> SUFFICES ASSUME ChainInv, Disciplined, [Next]_vars PROVE ChainInv'
  OBVIOUS
<1>1. TypeInv'
  BY TypeStep DEF ChainInv
<1> DEFINE Rest == Alone' /\ HeadsFresh' /\ LastWritten' /\ Accounted'
<1>2. ASSUME Rest, UNCHANGED <<file, minted>> PROVE ChainInv'
  BY <1>1, <1>2, FileUntouched DEF ChainInv
<1>3. ASSUME NEW c \in Calls, NEW e \in Engines, Start(c, e) PROVE ChainInv'
  BY <1>2, <1>3, StartStep DEF Start
<1>4. ASSUME NEW c \in Calls, Load(c) PROVE ChainInv'
  BY <1>2, <1>4, LoadStep DEF Load
<1>5. ASSUME NEW c \in Calls, CacheLoaded(c) PROVE ChainInv'
  BY <1>2, <1>5, CacheLoadedStep DEF CacheLoaded
<1>6. ASSUME NEW c \in Calls, Write(c) PROVE ChainInv'
  BY <1>6, WriteStep
<1>7. ASSUME NEW c \in Calls, Fails(c) PROVE ChainInv'
  BY <1>2, <1>7, FailsStep DEF Fails
<1>8. ASSUME NEW c \in Calls, Finish(c) PROVE ChainInv'
  BY <1>2, <1>8, FinishStep DEF Finish
<1>9. ASSUME NEW e \in Engines, Restart(e) PROVE ChainInv'
  BY <1>2, <1>9, RestartStep DEF Restart
<1>10. ASSUME NEW e \in Engines, dispose(e) PROVE ChainInv'
  BY <1>2, <1>10, DisposeStep DEF dispose
<1>11. CASE UNCHANGED vars
  <2>1. HeadOf(file)' = HeadOf(file)
    BY <1>11 DEF vars, HeadOf
  <2>2. Rest
    BY <1>11, <2>1 DEF ChainInv, vars, Alone, Busy, HeadsFresh, LastWritten, Accounted
  <2> QED BY <1>2, <1>11, <2>2 DEF vars
<1> QED
  BY <1>3, <1>4, <1>5, <1>6, <1>7, <1>8, <1>9, <1>10, <1>11 DEF Next

\* The invariant holds of every reachable state.
LEMMA ChainAlways == ASSUME Disciplined PROVE Spec => []ChainInv
BY ChainInit, ChainStep, PTL DEF Spec

(* verify accepts the chain at every moment, whichever appends failed and
   whichever engines died in the middle of one, if appends to a run are awaited
   and an engine that takes the run over has nothing cached of it. *)
THEOREM ChainHolds == ASSUME Disciplined PROVE Spec => []ChainVerifies
<1>1. ChainInv => ChainVerifies
  BY DEF ChainInv
<1> QED BY ChainAlways, <1>1, PTL

(* Under the same discipline an append that returned gave its caller the event
   that stands at its index, and the payload is in the chain once. *)
THEOREM Acknowledged == ASSUME Disciplined PROVE Spec => []AcknowledgedStand
<1>1. ASSUME ChainInv PROVE AcknowledgedStand
  <2> SUFFICES ASSUME NEW c \in Calls, step[c] = "done"
               PROVE  /\ event[c].index < Len(file)
                      /\ file[event[c].index + 1] = event[c]
                      /\ \A i \in 1..Len(file) :
                           file[i].payload = c => i = event[c].index + 1
    BY DEF AcknowledgedStand
  <2>1. /\ event[c].index < Len(file) /\ file[event[c].index + 1] = event[c]
        /\ event[c].payload = c
    BY <1>1 DEF ChainInv, Accounted
  <2>2. event[c].index \in Nat /\ Len(file) \in Nat
    BY <1>1 DEF ChainInv, TypeInv, TypeOK, AuditEvent
  <2>3. event[c].index + 1 \in 1..Len(file)
    BY <2>1, <2>2
  <2> QED BY <1>1, <2>1, <2>3 DEF ChainInv, Accounted
<1> QED BY ChainAlways, <1>1, PTL
=============================================================================
