--------------------------- MODULE RunStoreProofs ---------------------------
(***************************************************************************)
(* Proofs about RunStore, for every value of its constants.                *)
(*                                                                         *)
(* Only, Replay, Within and Parts are computed from left to right; the     *)
(* first lemmas establish them as such (LeftToRight) and what an event     *)
(* appended to the log does to each, by induction over its length.  The    *)
(* inductive invariant is then                                             *)
(*                                                                         *)
(*   AttendedInv  a run.json that says running has somebody at work or a   *)
(*                failure behind it.                                       *)
(*   StoreTypes   the types, and which event may be under way where.       *)
(*   CutInv       with whole lines, no line lacks its newline.             *)
(*   AckedInv     what was acknowledged can be read in what is read back.  *)
(*   AuditInv     the audit chain follows the log, given what failed and   *)
(*                which event is in hand.                                  *)
(*   MatchInv     the log, the event under way included, tells the history *)
(*                as the loop has it, whatever phase it is in.             *)
(*   PairInv      the first loop's history is paired but for the answer it *)
(*                is working on.                                           *)
(*   StartsInv    what stands before a start in its log is paired.         *)
(***************************************************************************)
EXTENDS RunStore, SequenceTheorems, WellFoundedInduction, TLAPS

------------------------------------------------------------------------------
(* Induction over data.  The library's induction theorems take the predicate *)
(* as an operator; a set of naturals says the same.                          *)

\* Every nonempty set of naturals has a least element.
LEMMA Least ==
  ASSUME NEW T, T \subseteq Nat, T # {}
  PROVE  \E m \in T : \A k \in T : m <= k
<1> DEFINE R == {p \in Nat \X Nat : p[1] < p[2]}
<1>1. R = OpToRel(<, Nat)
  BY DEF OpToRel
<1>2. IsWellFoundedOn(R, Nat)
  BY <1>1, NatLessThanWellFounded
<1> HIDE DEF R
<1>3. PICK m \in T : \A k \in T : ~ (<<k, m>> \in R)
  BY <1>2, WFMin
<1>4. ASSUME NEW k \in T PROVE m <= k
  <2>1. m \in Nat /\ k \in Nat
    OBVIOUS
  <2>2. <<k, m>> \in R <=> k < m
    BY <2>1 DEF R
  <2> QED BY <1>3, <2>1, <2>2
<1> QED BY <1>4

\* A set of numbers that has 0, and each number up to n whose predecessor it
\* has, has every number up to n.
LEMMA UpTo ==
  ASSUME NEW n \in Nat, NEW T, 0 \in T,
         \A k \in 1..n : k - 1 \in T => k \in T
  PROVE  0..n \subseteq T
<1> DEFINE Missing == (0..n) \ T
<1> SUFFICES ASSUME Missing # {} PROVE FALSE
  OBVIOUS
<1>1. PICK m \in Missing : \A k \in Missing : m <= k
  <2>1. Missing \subseteq Nat
    OBVIOUS
  <2> HIDE DEF Missing
  <2> QED BY <2>1, Least
<1>2. m \in 1..n /\ m - 1 \in 0..n /\ m - 1 < m
  BY <1>1
<1>3. m - 1 \in T
  BY <1>1, <1>2
<1> QED BY <1>1, <1>2, <1>3

\* f holds what is computed from left to right over m elements: a value for each
\* prefix, that of the empty one given, each other from the one before.
Computes(f, m, base, step) ==
  f[0] = base /\ \A k \in 1..m : f[k] = step[<<f[k - 1], k>>]

\* What is computed from left to right exists.
LEMMA LeftToRight ==
  ASSUME NEW n \in Nat, NEW A, NEW base \in A, NEW step \in [A \X (1..n) -> A]
  PROVE  \E f \in [0..n -> A] : Computes(f, n, base, step)
<1> DEFINE T == {m \in 0..n : \E f \in [0..m -> A] : Computes(f, m, base, step)}
<1>1. 0 \in T
  <2> DEFINE f == [k \in 0..0 |-> base]
  <2>1. f \in [0..0 -> A] /\ Computes(f, 0, base, step)
    BY DEF Computes
  <2> HIDE DEF f
  <2> QED BY <2>1
<1>2. ASSUME NEW m \in 1..n, m - 1 \in T PROVE m \in T
  <2>1. PICK g \in [0..(m - 1) -> A] : Computes(g, m - 1, base, step)
    BY <1>2
  <2> DEFINE v == step[<<g[m - 1], m>>]
             f == [k \in 0..m |-> IF k < m THEN g[k] ELSE v]
  <2>2. v \in A
    OBVIOUS
  <2>3. f \in [0..m -> A]
    <3> HIDE DEF v
    <3> QED BY <2>2
  <2>4. f[0] = base
    BY <2>1 DEF Computes
  <2>5. ASSUME NEW k \in 1..m PROVE f[k] = step[<<f[k - 1], k>>]
    <3>1. f[k - 1] = g[k - 1]
      OBVIOUS
    <3>2. CASE k < m
      BY <2>1, <3>1, <3>2 DEF Computes
    <3>3. CASE k = m
      <4>1. f[m] = v
        OBVIOUS
      <4> QED BY <3>1, <3>3, <4>1
    <3> QED BY <3>2, <3>3
  <2> HIDE DEF f
  <2>6. Computes(f, m, base, step)
    BY <2>4, <2>5 DEF Computes
  <2> QED BY <2>3, <2>6
<1>3. 0..n \subseteq T
  <2> HIDE DEF T
  <2> QED BY <1>1, <1>2, UpTo
<1>4. n \in T
  <2> HIDE DEF T
  <2> QED BY <1>3
<1>5. \E f \in [0..n -> A] : Computes(f, n, base, step)
  BY <1>4
<1> QED BY <1>5

------------------------------------------------------------------------------
(* Only                                                                      *)

Picked(s, kinds, n) == IF s[n] \in kinds THEN <<s[n]>> ELSE <<>>

\* Only is computed from left to right.
LEMMA OnlyComputed ==
  ASSUME NEW S, NEW s \in Seq(S), NEW kinds
  PROVE  \E f \in [0..Len(s) -> Seq(kinds)] :
           /\ f[0] = <<>>
           /\ \A k \in 1..Len(s) : f[k] = f[k - 1] \o Picked(s, kinds, k)
           /\ Only(s, kinds) = f[Len(s)]
<1> DEFINE n == Len(s)
           A == Seq(kinds)
           step == [p \in A \X (1..n) |-> p[1] \o Picked(s, kinds, p[2])]
<1>0. n \in Nat
  OBVIOUS
<1>1. <<>> \in A
  OBVIOUS
<1>2. \A k \in 1..n : Picked(s, kinds, k) \in A
  BY DEF Picked
<1>3. step \in [A \X (1..n) -> A]
  <2>1. ASSUME NEW p \in A \X (1..n) PROVE p[1] \o Picked(s, kinds, p[2]) \in A
    <3>1. p[1] \in A /\ p[2] \in 1..n
      OBVIOUS
    <3>2. Picked(s, kinds, p[2]) \in A
      BY <1>2, <3>1
    <3> QED BY <3>1, <3>2
  <2> QED BY <2>1
<1> HIDE DEF step
<1>4. PICK f \in [0..n -> A] : Computes(f, n, <<>>, step)
  <2> HIDE DEF A, n
  <2> QED BY <1>0, <1>1, <1>3, LeftToRight
<1>5. f[0] = <<>>
  BY <1>4 DEF Computes
<1>6. ASSUME NEW k \in 1..n PROVE f[k] = f[k - 1] \o Picked(s, kinds, k)
  <2>1. <<f[k - 1], k>> \in A \X (1..n)
    <3>1. f[k - 1] \in A
      OBVIOUS
    <3> QED BY <3>1
  <2>2. f[k] = step[<<f[k - 1], k>>]
    BY <1>4 DEF Computes
  <2> QED BY <2>1, <2>2 DEF step
<1> DEFINE Def(only) == [k \in 0..n |->
                          IF k = 0 THEN <<>>
                          ELSE only[k - 1] \o (IF s[k] \in kinds THEN <<s[k]>> ELSE <<>>)]
           only == CHOOSE only : only = Def(only)
<1>7. f = Def(f)
  <2>1. \A k \in 0..n : f[k] = Def(f)[k]
    BY <1>5, <1>6 DEF Picked
  <2> QED BY <2>1
<1>8. only = Def(only)
  <2> HIDE DEF Def
  <2> QED BY <1>7
<1>9. Only(s, kinds) = only[n]
  BY DEF Only
<1> HIDE DEF only
<1>10. ASSUME NEW k \in 1..n PROVE only[k] = only[k - 1] \o Picked(s, kinds, k)
  <2>1. k \in 0..n /\ k # 0
    BY <1>0
  <2> QED BY <1>8, <2>1 DEF Picked
<1> DEFINE T == {k \in 0..n : only[k] = f[k]}
<1>11. 0..n \subseteq T
  <2>1. 0 \in T
    BY <1>0, <1>5, <1>8
  <2>2. ASSUME NEW k \in 1..n, k - 1 \in T PROVE k \in T
    <3>1. k \in 0..n /\ only[k - 1] = f[k - 1]
      BY <1>0, <2>2
    <3>2. only[k] = f[k]
      BY <1>6, <1>10, <3>1
    <3> QED BY <3>1, <3>2
  <2> HIDE DEF T, n
  <2> QED BY <1>0, <2>1, <2>2, UpTo
<1>12. only[n] = f[n]
  BY <1>0, <1>11
<1> QED BY <1>5, <1>6, <1>9, <1>12

\* Only keeps what is in kinds.
LEMMA OnlyTyped ==
  ASSUME NEW S, NEW s \in Seq(S), NEW kinds
  PROVE  Only(s, kinds) \in Seq(kinds)
<1>1. PICK f \in [0..Len(s) -> Seq(kinds)] : Only(s, kinds) = f[Len(s)]
  BY OnlyComputed
<1>2. Len(s) \in 0..Len(s)
  OBVIOUS
<1> QED BY <1>1, <1>2

\* Of nothing, nothing is kept.
LEMMA OnlyEmpty == ASSUME NEW kinds PROVE Only(<<>>, kinds) = <<>>
<1>1. <<>> \in Seq({}) /\ Len(<<>>) = 0
  OBVIOUS
<1>2. PICK f \in [0..Len(<<>>) -> Seq(kinds)] : f[0] = <<>> /\ Only(<<>>, kinds) = f[Len(<<>>)]
  BY <1>1, OnlyComputed
<1> QED BY <1>1, <1>2

\* An element behind the others is kept behind the others, or not at all.
LEMMA OnlyAppend ==
  ASSUME NEW S, NEW s \in Seq(S), NEW e \in S, NEW kinds
  PROVE  Only(Append(s, e), kinds)
           = IF e \in kinds THEN Append(Only(s, kinds), e) ELSE Only(s, kinds)
<1> DEFINE t == Append(s, e)
           n == Len(s)
<1>0. n \in Nat /\ t \in Seq(S) /\ Len(t) = n + 1 /\ t[n + 1] = e
        /\ \A k \in 1..n : t[k] = s[k]
  OBVIOUS
<1> HIDE DEF t
<1>1. PICK f \in [0..Len(s) -> Seq(kinds)] :
           /\ f[0] = <<>>
           /\ \A k \in 1..Len(s) : f[k] = f[k - 1] \o Picked(s, kinds, k)
           /\ Only(s, kinds) = f[Len(s)]
  BY OnlyComputed
<1>2. PICK g \in [0..Len(t) -> Seq(kinds)] :
           /\ g[0] = <<>>
           /\ \A k \in 1..Len(t) : g[k] = g[k - 1] \o Picked(t, kinds, k)
           /\ Only(t, kinds) = g[Len(t)]
  BY <1>0, OnlyComputed
<1> DEFINE T == {k \in 0..n : f[k] = g[k]}
<1>3. 0..n \subseteq T
  <2>1. 0 \in T
    BY <1>0, <1>1, <1>2
  <2>2. ASSUME NEW k \in 1..n, k - 1 \in T PROVE k \in T
    <3>1. Picked(s, kinds, k) = Picked(t, kinds, k) /\ k \in 1..Len(t)
      BY <1>0 DEF Picked
    <3>2. k \in 0..n /\ f[k - 1] = g[k - 1]
      BY <1>0, <2>2
    <3>3. f[k] = g[k]
      BY <1>1, <1>2, <3>1, <3>2
    <3> QED BY <3>2, <3>3
  <2> HIDE DEF T, n
  <2> QED BY <1>0, <2>1, <2>2, UpTo
<1>4. g[n] = Only(s, kinds) /\ g[n] \in Seq(kinds)
  BY <1>0, <1>1, <1>2, <1>3
<1>5. Only(t, kinds) = g[n] \o (IF e \in kinds THEN <<e>> ELSE <<>>)
  <2>1. n + 1 \in 1..Len(t) /\ (n + 1) - 1 = n
    BY <1>0
  <2>2. g[n + 1] = g[n] \o Picked(t, kinds, n + 1)
    BY <1>2, <2>1
  <2> QED BY <1>0, <1>2, <2>2 DEF Picked
<1>6. Only(s, kinds) \in Seq(kinds)
  BY <1>4
<1> HIDE DEF n
<1>7. CASE e \in kinds
  <2>1. Only(t, kinds) = Only(s, kinds) \o <<e>>
    BY <1>4, <1>5, <1>7
  <2> QED BY <1>6, <1>7, <2>1 DEF t
<1>8. CASE e \notin kinds
  <2>1. Only(t, kinds) = Only(s, kinds) \o <<>>
    BY <1>4, <1>5, <1>8
  <2> QED BY <1>6, <1>8, <2>1 DEF t
<1> QED BY <1>7, <1>8

\* What is in kinds already is kept as it is.
LEMMA OnlyAll ==
  ASSUME NEW kinds, NEW s \in Seq(kinds)
  PROVE  Only(s, kinds) = s
<1> DEFINE n == Len(s)
<1>0. n \in Nat
  OBVIOUS
<1>1. PICK f \in [0..Len(s) -> Seq(kinds)] :
           /\ f[0] = <<>>
           /\ \A k \in 1..Len(s) : f[k] = f[k - 1] \o Picked(s, kinds, k)
           /\ Only(s, kinds) = f[Len(s)]
  BY OnlyComputed
<1> DEFINE T == {k \in 0..n : f[k] = SubSeq(s, 1, k)}
<1>2. 0..n \subseteq T
  <2>1. 0 \in T
    BY <1>0, <1>1
  <2>2. ASSUME NEW k \in 1..n, k - 1 \in T PROVE k \in T
    <3>1. k \in 0..n /\ f[k - 1] = SubSeq(s, 1, k - 1)
      BY <1>0, <2>2
    <3>2. Picked(s, kinds, k) = <<s[k]>>
      BY DEF Picked
    <3>3. f[k] = SubSeq(s, 1, k - 1) \o <<s[k]>>
      BY <1>1, <3>1, <3>2
    <3>4. SubSeq(s, 1, k - 1) \o <<s[k]>> = SubSeq(s, 1, k)
      OBVIOUS
    <3> QED BY <3>1, <3>3, <3>4
  <2> HIDE DEF T, n
  <2> QED BY <1>0, <2>1, <2>2, UpTo
<1>3. f[n] = SubSeq(s, 1, n)
  BY <1>0, <1>2
<1> QED BY <1>1, <1>3

------------------------------------------------------------------------------
(* Replay                                                                    *)

Blank == [messages |-> <<>>, pending |-> <<>>]

\* What the rebuilding loop gathers: it never makes up the prompt.
Acc == [messages : Seq(Message \ {Prompt}), pending : Seq(Nat)]

\* Pending results become a message that is no prompt.
LEMMA FlushTyped ==
  ASSUME NEW acc \in Acc
  PROVE  Flush(acc) \in Acc /\ Flush(acc).pending = <<>>
<1>1. CASE acc.pending = <<>>
  BY <1>1 DEF Flush, Acc
<1>2. CASE acc.pending # <<>>
  <2>1. ToolResultMessage(acc.pending) \in Message \ {Prompt}
    BY <1>2 DEF Acc, ToolResultMessage, Message, Prompt
  <2>2. acc.messages \in Seq(Message \ {Prompt})
    BY DEF Acc
  <2>3. Append(acc.messages, ToolResultMessage(acc.pending)) \in Seq(Message \ {Prompt})
    BY <2>1, <2>2
  <2> QED BY <1>2, <2>3 DEF Flush, Acc
<1> QED BY <1>1, <1>2

\* One event more.
LEMMA FoldTyped ==
  ASSUME NEW acc \in Acc, NEW e \in Event
  PROVE  FoldEvent(acc, e) \in Acc
<1>0. /\ Flush(acc) \in Acc /\ Flush(acc).messages \in Seq(Message \ {Prompt})
      /\ acc.pending \in Seq(Nat) /\ acc.messages \in Seq(Message \ {Prompt})
      /\ e.ids \in Seq(Nat)
  BY FlushTyped DEF Acc, Event
<1>1. CASE e.type = "stream_request_start"
  BY <1>0, <1>1 DEF FoldEvent
<1>2. CASE e.type = "assistant_message"
  <2>1. AssistantMessage(e.ids) \in Message \ {Prompt}
    BY <1>0 DEF AssistantMessage, Message, Prompt
  <2>2. Append(Flush(acc).messages, AssistantMessage(e.ids)) \in Seq(Message \ {Prompt})
    BY <1>0, <2>1
  <2>3. FoldEvent(acc, e) = [messages |-> Append(Flush(acc).messages, AssistantMessage(e.ids)),
                             pending  |-> <<>>]
    BY <1>2 DEF FoldEvent
  <2> QED BY <2>2, <2>3 DEF Acc
<1>3. CASE e.type = "result"
  <2>1. acc.pending \o e.ids \in Seq(Nat)
    BY <1>0
  <2>2. FoldEvent(acc, e) = [acc EXCEPT !.pending = acc.pending \o e.ids]
    BY <1>3 DEF FoldEvent
  <2> QED BY <2>1, <2>2 DEF Acc
<1>4. CASE e.type \notin {"stream_request_start", "assistant_message", "result"}
  BY <1>4 DEF FoldEvent
<1> QED BY <1>1, <1>2, <1>3, <1>4

\* Replay is computed from left to right.
LEMMA ReplayComputed ==
  ASSUME NEW s \in Seq(Event)
  PROVE  \E f \in [0..Len(s) -> Acc] :
           /\ f[0] = Blank
           /\ \A k \in 1..Len(s) : f[k] = FoldEvent(f[k - 1], s[k])
           /\ Replay(s) = f[Len(s)]
<1> DEFINE n == Len(s)
           step == [p \in Acc \X (1..n) |-> FoldEvent(p[1], s[p[2]])]
<1>0. n \in Nat
  OBVIOUS
<1>1. Blank \in Acc
  <2>1. <<>> \in Seq(Message \ {Prompt}) /\ <<>> \in Seq(Nat)
    OBVIOUS
  <2> QED BY <2>1 DEF Blank, Acc
<1>3. step \in [Acc \X (1..n) -> Acc]
  <2>1. ASSUME NEW p \in Acc \X (1..n) PROVE FoldEvent(p[1], s[p[2]]) \in Acc
    <3>1. p[1] \in Acc /\ p[2] \in 1..n
      OBVIOUS
    <3>2. s[p[2]] \in Event
      BY <3>1
    <3> QED BY <3>1, <3>2, FoldTyped
  <2> QED BY <2>1
<1> HIDE DEF step
<1>4. PICK f \in [0..n -> Acc] : Computes(f, n, Blank, step)
  <2> HIDE DEF n
  <2> QED BY <1>0, <1>1, <1>3, LeftToRight
<1>5. f[0] = Blank
  BY <1>4 DEF Computes
<1>6. ASSUME NEW k \in 1..n PROVE f[k] = FoldEvent(f[k - 1], s[k])
  <2>1. <<f[k - 1], k>> \in Acc \X (1..n)
    <3>1. f[k - 1] \in Acc
      OBVIOUS
    <3> QED BY <3>1
  <2>2. f[k] = step[<<f[k - 1], k>>]
    BY <1>4 DEF Computes
  <2> QED BY <2>1, <2>2 DEF step
<1> DEFINE Def(acc) == [k \in 0..n |-> IF k = 0 THEN [messages |-> <<>>, pending |-> <<>>]
                                       ELSE FoldEvent(acc[k - 1], s[k])]
           acc == CHOOSE acc : acc = Def(acc)
<1>7. f = Def(f)
  <2>1. \A k \in 0..n : f[k] = Def(f)[k]
    BY <1>5, <1>6 DEF Blank
  <2> QED BY <2>1
<1>8. acc = Def(acc)
  <2> HIDE DEF Def
  <2> QED BY <1>7
<1>9. Replay(s) = acc[n]
  BY DEF Replay
<1> HIDE DEF acc
<1>10. ASSUME NEW k \in 1..n PROVE acc[k] = FoldEvent(acc[k - 1], s[k])
  <2>1. k \in 0..n /\ k # 0
    BY <1>0
  <2> QED BY <1>8, <2>1
<1> DEFINE T == {k \in 0..n : acc[k] = f[k]}
<1>11. 0..n \subseteq T
  <2>1. 0 \in T
    BY <1>0, <1>5, <1>8 DEF Blank
  <2>2. ASSUME NEW k \in 1..n, k - 1 \in T PROVE k \in T
    <3>1. k \in 0..n /\ acc[k - 1] = f[k - 1]
      BY <1>0, <2>2
    <3>2. acc[k] = f[k]
      BY <1>6, <1>10, <3>1
    <3> QED BY <3>1, <3>2
  <2> HIDE DEF T, n
  <2> QED BY <1>0, <2>1, <2>2, UpTo
<1>12. acc[n] = f[n]
  BY <1>0, <1>11
<1> QED BY <1>5, <1>6, <1>9, <1>12

\* What is rebuilt are messages, none of them the prompt.
LEMMA ReplayTyped == ASSUME NEW s \in Seq(Event) PROVE Replay(s) \in Acc
<1>1. PICK f \in [0..Len(s) -> Acc] : Replay(s) = f[Len(s)]
  BY ReplayComputed
<1>2. Len(s) \in 0..Len(s)
  OBVIOUS
<1> QED BY <1>1, <1>2

\* Nothing is rebuilt from an empty log.
LEMMA ReplayEmpty == Replay(<<>>) = Blank
<1>1. <<>> \in Seq(Event) /\ Len(<<>>) = 0
  OBVIOUS
<1>2. PICK f \in [0..Len(<<>>) -> Acc] : f[0] = Blank /\ Replay(<<>>) = f[Len(<<>>)]
  BY <1>1, ReplayComputed
<1> QED BY <1>1, <1>2

\* A further event is replayed on what the others left.
LEMMA ReplayAppend ==
  ASSUME NEW s \in Seq(Event), NEW e \in Event
  PROVE  Replay(Append(s, e)) = FoldEvent(Replay(s), e)
<1> DEFINE t == Append(s, e)
           n == Len(s)
<1>0. n \in Nat /\ t \in Seq(Event) /\ Len(t) = n + 1 /\ t[n + 1] = e
        /\ \A k \in 1..n : t[k] = s[k]
  OBVIOUS
<1> HIDE DEF t
<1>1. PICK f \in [0..Len(s) -> Acc] :
           /\ f[0] = Blank
           /\ \A k \in 1..Len(s) : f[k] = FoldEvent(f[k - 1], s[k])
           /\ Replay(s) = f[Len(s)]
  BY ReplayComputed
<1>2. PICK g \in [0..Len(t) -> Acc] :
           /\ g[0] = Blank
           /\ \A k \in 1..Len(t) : g[k] = FoldEvent(g[k - 1], t[k])
           /\ Replay(t) = g[Len(t)]
  BY <1>0, ReplayComputed
<1> DEFINE T == {k \in 0..n : f[k] = g[k]}
<1>3. 0..n \subseteq T
  <2>1. 0 \in T
    BY <1>0, <1>1, <1>2
  <2>2. ASSUME NEW k \in 1..n, k - 1 \in T PROVE k \in T
    <3>1. k \in 1..Len(t) /\ t[k] = s[k]
      BY <1>0
    <3>2. k \in 0..n /\ f[k - 1] = g[k - 1]
      BY <1>0, <2>2
    <3>3. f[k] = g[k]
      BY <1>1, <1>2, <3>1, <3>2
    <3> QED BY <3>2, <3>3
  <2> HIDE DEF T, n
  <2> QED BY <1>0, <2>1, <2>2, UpTo
<1>4. g[n] = Replay(s)
  BY <1>0, <1>1, <1>2, <1>3
<1>5. n + 1 \in 1..Len(t) /\ (n + 1) - 1 = n
  BY <1>0
<1>6. g[n + 1] = FoldEvent(g[n], e)
  BY <1>0, <1>2, <1>5
<1> QED BY <1>0, <1>2, <1>4, <1>6 DEF t

------------------------------------------------------------------------------
(* Within                                                                    *)

\* How far s has been read in t, one place of t further.
Advance(s, t, k, n) == IF k < Len(s) /\ s[k + 1] = t[n] THEN k + 1 ELSE k

\* Within is computed from left to right.
LEMMA WithinComputed ==
  ASSUME NEW S, NEW s \in Seq(S), NEW t \in Seq(S)
  PROVE  \E f \in [0..Len(t) -> 0..Len(s)] :
           /\ f[0] = 0
           /\ \A k \in 1..Len(t) : f[k] = Advance(s, t, f[k - 1], k)
           /\ Within(s, t) <=> f[Len(t)] = Len(s)
<1> DEFINE n == Len(t)
           A == 0..Len(s)
           step == [p \in A \X (1..n) |-> Advance(s, t, p[1], p[2])]
<1>0. n \in Nat /\ Len(s) \in Nat
  OBVIOUS
<1>1. 0 \in A
  BY <1>0
<1>3. step \in [A \X (1..n) -> A]
  <2>1. ASSUME NEW p \in A \X (1..n) PROVE Advance(s, t, p[1], p[2]) \in A
    <3>1. p[1] \in A /\ p[2] \in 1..n
      OBVIOUS
    <3> QED BY <1>0, <3>1 DEF Advance
  <2> QED BY <2>1
<1> HIDE DEF step
<1>4. PICK f \in [0..n -> A] : Computes(f, n, 0, step)
  <2> HIDE DEF n, A
  <2> QED BY <1>0, <1>1, <1>3, LeftToRight
<1>5. f[0] = 0
  BY <1>4 DEF Computes
<1>6. ASSUME NEW k \in 1..n PROVE f[k] = Advance(s, t, f[k - 1], k)
  <2>1. <<f[k - 1], k>> \in A \X (1..n)
    <3>1. f[k - 1] \in A
      OBVIOUS
    <3> QED BY <3>1
  <2>2. f[k] = step[<<f[k - 1], k>>]
    BY <1>4 DEF Computes
  <2> QED BY <2>1, <2>2 DEF step
<1> DEFINE Def(found) == [k \in 0..n |->
                           IF k = 0 THEN 0
                           ELSE IF found[k - 1] < Len(s) /\ s[found[k - 1] + 1] = t[k]
                                THEN found[k - 1] + 1 ELSE found[k - 1]]
           found == CHOOSE found : found = Def(found)
<1>7. f = Def(f)
  <2>1. \A k \in 0..n : f[k] = Def(f)[k]
    BY <1>5, <1>6 DEF Advance
  <2> QED BY <2>1
<1>8. found = Def(found)
  <2> HIDE DEF Def
  <2> QED BY <1>7
<1>9. Within(s, t) <=> found[n] = Len(s)
  BY DEF Within
<1> HIDE DEF found
<1>10. ASSUME NEW k \in 1..n PROVE found[k] = Advance(s, t, found[k - 1], k)
  <2>1. k \in 0..n /\ k # 0
    BY <1>0
  <2> QED BY <1>8, <2>1 DEF Advance
<1> DEFINE T == {k \in 0..n : found[k] = f[k]}
<1>11. 0..n \subseteq T
  <2>1. 0 \in T
    BY <1>0, <1>5, <1>8
  <2>2. ASSUME NEW k \in 1..n, k - 1 \in T PROVE k \in T
    <3>1. k \in 0..n /\ found[k - 1] = f[k - 1]
      BY <1>0, <2>2
    <3>2. found[k] = f[k]
      BY <1>6, <1>10, <3>1
    <3> QED BY <3>1, <3>2
  <2> HIDE DEF T, n
  <2> QED BY <1>0, <2>1, <2>2, UpTo
<1>12. found[n] = f[n]
  BY <1>0, <1>11
<1> QED BY <1>5, <1>6, <1>9, <1>12

\* A sequence can be read in itself.
LEMMA WithinSelf ==
  ASSUME NEW S, NEW s \in Seq(S)
  PROVE  Within(s, s)
<1> DEFINE n == Len(s)
<1>0. n \in Nat
  OBVIOUS
<1>1. PICK f \in [0..Len(s) -> 0..Len(s)] :
           /\ f[0] = 0
           /\ \A k \in 1..Len(s) : f[k] = Advance(s, s, f[k - 1], k)
           /\ Within(s, s) <=> f[Len(s)] = Len(s)
  BY WithinComputed
<1> DEFINE T == {k \in 0..n : f[k] = k}
<1>2. 0..n \subseteq T
  <2>1. 0 \in T
    BY <1>0, <1>1
  <2>2. ASSUME NEW k \in 1..n, k - 1 \in T PROVE k \in T
    <3>1. k \in 0..n /\ f[k - 1] = k - 1
      BY <1>0, <2>2
    <3>2. f[k] = k
      BY <1>0, <1>1, <3>1 DEF Advance
    <3> QED BY <3>1, <3>2
  <2> HIDE DEF T, n
  <2> QED BY <1>0, <2>1, <2>2, UpTo
<1>3. f[n] = n
  BY <1>0, <1>2
<1> QED BY <1>1, <1>3

\* What can be read in t can be read in anything longer.
LEMMA WithinLonger ==
  ASSUME NEW S, NEW s \in Seq(S), NEW t \in Seq(S), NEW e \in S, Within(s, t)
  PROVE  Within(s, Append(t, e))
<1> DEFINE u == Append(t, e)
           n == Len(t)
<1>0. n \in Nat /\ u \in Seq(S) /\ Len(u) = n + 1 /\ \A k \in 1..n : u[k] = t[k]
  OBVIOUS
<1> HIDE DEF u
<1>1. PICK f \in [0..Len(t) -> 0..Len(s)] :
           /\ f[0] = 0
           /\ \A k \in 1..Len(t) : f[k] = Advance(s, t, f[k - 1], k)
           /\ Within(s, t) <=> f[Len(t)] = Len(s)
  BY WithinComputed
<1>2. PICK g \in [0..Len(u) -> 0..Len(s)] :
           /\ g[0] = 0
           /\ \A k \in 1..Len(u) : g[k] = Advance(s, u, g[k - 1], k)
           /\ Within(s, u) <=> g[Len(u)] = Len(s)
  BY <1>0, WithinComputed
<1> DEFINE T == {k \in 0..n : f[k] = g[k]}
<1>3. 0..n \subseteq T
  <2>1. 0 \in T
    BY <1>0, <1>1, <1>2
  <2>2. ASSUME NEW k \in 1..n, k - 1 \in T PROVE k \in T
    <3>1. k \in 1..Len(u) /\ u[k] = t[k]
      BY <1>0
    <3>2. k \in 0..n /\ f[k - 1] = g[k - 1]
      BY <1>0, <2>2
    <3>3. f[k] = g[k]
      BY <1>1, <1>2, <3>1, <3>2 DEF Advance
    <3> QED BY <3>2, <3>3
  <2> HIDE DEF T, n
  <2> QED BY <1>0, <2>1, <2>2, UpTo
<1>4. g[n] = Len(s)
  BY <1>0, <1>1, <1>3
<1>5. n + 1 \in 1..Len(u) /\ (n + 1) - 1 = n
  BY <1>0
<1>6. g[n + 1] = Advance(s, u, g[n], n + 1)
  BY <1>2, <1>5
<1>7. Advance(s, u, Len(s), n + 1) = Len(s)
  BY DEF Advance
<1> QED BY <1>0, <1>2, <1>4, <1>6, <1>7 DEF u

\* An element appended to both is read behind the others.
LEMMA WithinBoth ==
  ASSUME NEW S, NEW s \in Seq(S), NEW t \in Seq(S), NEW e \in S, Within(s, t)
  PROVE  Within(Append(s, e), Append(t, e))
<1> DEFINE r == Append(s, e)
           u == Append(t, e)
           m == Len(s)
           n == Len(t)
<1>0. /\ n \in Nat /\ u \in Seq(S) /\ Len(u) = n + 1 /\ u[n + 1] = e
      /\ \A k \in 1..n : u[k] = t[k]
      /\ m \in Nat /\ r \in Seq(S) /\ Len(r) = m + 1 /\ r[m + 1] = e
      /\ \A k \in 1..m : r[k] = s[k]
  OBVIOUS
<1> HIDE DEF r, u
<1>1. PICK f \in [0..Len(t) -> 0..Len(s)] :
           /\ f[0] = 0
           /\ \A k \in 1..Len(t) : f[k] = Advance(s, t, f[k - 1], k)
           /\ Within(s, t) <=> f[Len(t)] = Len(s)
  BY WithinComputed
<1>2. PICK g \in [0..Len(u) -> 0..Len(r)] :
           /\ g[0] = 0
           /\ \A k \in 1..Len(u) : g[k] = Advance(r, u, g[k - 1], k)
           /\ Within(r, u) <=> g[Len(u)] = Len(r)
  BY <1>0, WithinComputed
<1> DEFINE T == {k \in 0..n : g[k] = f[k] \/ (f[k] = m /\ g[k] = m + 1)}
<1>3. 0..n \subseteq T
  <2>1. 0 \in T
    BY <1>0, <1>1, <1>2
  <2>2. ASSUME NEW k \in 1..n, k - 1 \in T PROVE k \in T
    <3>1. k \in 1..Len(u) /\ u[k] = t[k] /\ k \in 0..n /\ k - 1 \in 0..n
      BY <1>0
    <3>2. f[k] = Advance(s, t, f[k - 1], k) /\ g[k] = Advance(r, u, g[k - 1], k)
      BY <1>1, <1>2, <3>1
    <3>3. f[k - 1] \in 0..m
      BY <1>1, <3>1
    <3>4. CASE f[k - 1] < m /\ g[k - 1] = f[k - 1]
      <4>0. f[k - 1] + 1 \in 1..m /\ f[k - 1] < Len(r)
        BY <1>0, <3>3, <3>4
      <4>1. r[g[k - 1] + 1] = s[f[k - 1] + 1] /\ g[k - 1] < Len(r)
        BY <1>0, <3>4, <4>0
      <4> QED BY <3>1, <3>2, <3>4, <4>1 DEF Advance
    <3>5. CASE f[k - 1] = m
      <4>1. f[k] = m
        BY <3>2, <3>5 DEF Advance
      <4>2. g[k - 1] = m \/ g[k - 1] = m + 1
        BY <2>2, <3>5
      <4>3. g[k] = m \/ g[k] = m + 1
        BY <1>0, <3>2, <4>2 DEF Advance
      <4> QED BY <3>1, <4>1, <4>3
    <3> QED BY <1>0, <2>2, <3>3, <3>4, <3>5
  <2> HIDE DEF T, n
  <2> QED BY <1>0, <2>1, <2>2, UpTo
<1>4. f[n] = m /\ (g[n] = m \/ g[n] = m + 1)
  BY <1>0, <1>1, <1>3
<1>5. n + 1 \in 1..Len(u) /\ (n + 1) - 1 = n
  BY <1>0
<1>6. g[n + 1] = Advance(r, u, g[n], n + 1)
  BY <1>2, <1>5
<1>7. g[n + 1] = m + 1
  BY <1>0, <1>4, <1>6 DEF Advance
<1> QED BY <1>0, <1>2, <1>7 DEF r, u

------------------------------------------------------------------------------
(* Parts and Follows                                                         *)

\* The parts ps of a sequence, once e stands behind it.
Longer(ps, e) == ps \cup {Append(p, e) : p \in ps}

\* Parts is computed from left to right.
LEMMA PartsComputed ==
  ASSUME NEW S, NEW s \in Seq(S)
  PROVE  \E f \in [0..Len(s) -> SUBSET Seq(S)] :
           /\ f[0] = {<<>>}
           /\ \A k \in 1..Len(s) : f[k] = Longer(f[k - 1], s[k])
           /\ Parts(s) = f[Len(s)]
<1> DEFINE n == Len(s)
           A == SUBSET Seq(S)
           step == [p \in A \X (1..n) |-> Longer(p[1], s[p[2]])]
<1>0. n \in Nat
  OBVIOUS
<1>1. {<<>>} \in A
  OBVIOUS
<1>2. ASSUME NEW ps \in A, NEW k \in 1..n PROVE Longer(ps, s[k]) \in A
  <2>1. s[k] \in S
    OBVIOUS
  <2>2. \A p \in ps : Append(p, s[k]) \in Seq(S)
    BY <2>1
  <2> QED BY <2>2 DEF Longer
<1>3. step \in [A \X (1..n) -> A]
  <2>1. ASSUME NEW p \in A \X (1..n) PROVE Longer(p[1], s[p[2]]) \in A
    <3>1. p[1] \in A /\ p[2] \in 1..n
      OBVIOUS
    <3> HIDE DEF A, n
    <3> QED BY <1>2, <3>1
  <2> QED BY <2>1
<1> HIDE DEF step
<1>4. PICK f \in [0..n -> A] : Computes(f, n, {<<>>}, step)
  <2> HIDE DEF A, n
  <2> QED BY <1>0, <1>1, <1>3, LeftToRight
<1>5. f[0] = {<<>>}
  BY <1>4 DEF Computes
<1>6. ASSUME NEW k \in 1..n PROVE f[k] = Longer(f[k - 1], s[k])
  <2>1. <<f[k - 1], k>> \in A \X (1..n)
    <3>1. f[k - 1] \in A
      OBVIOUS
    <3> QED BY <3>1
  <2>2. f[k] = step[<<f[k - 1], k>>]
    BY <1>4 DEF Computes
  <2> QED BY <2>1, <2>2 DEF step
<1> DEFINE Def(parts) == [k \in 0..n |->
                           IF k = 0 THEN {<<>>}
                           ELSE parts[k - 1] \cup {Append(p, s[k]) : p \in parts[k - 1]}]
           parts == CHOOSE parts : parts = Def(parts)
<1>7. f = Def(f)
  <2>1. \A k \in 0..n : f[k] = Def(f)[k]
    BY <1>5, <1>6 DEF Longer
  <2> QED BY <2>1
<1>8. parts = Def(parts)
  <2> HIDE DEF Def
  <2> QED BY <1>7
<1>9. Parts(s) = parts[n]
  BY DEF Parts
<1> HIDE DEF parts
<1>10. ASSUME NEW k \in 1..n PROVE parts[k] = Longer(parts[k - 1], s[k])
  <2>1. k \in 0..n /\ k # 0
    BY <1>0
  <2> QED BY <1>8, <2>1 DEF Longer
<1> DEFINE T == {k \in 0..n : parts[k] = f[k]}
<1>11. 0..n \subseteq T
  <2>1. 0 \in T
    BY <1>0, <1>5, <1>8
  <2>2. ASSUME NEW k \in 1..n, k - 1 \in T PROVE k \in T
    <3>1. k \in 0..n /\ parts[k - 1] = f[k - 1]
      BY <1>0, <2>2
    <3>2. parts[k] = f[k]
      BY <1>6, <1>10, <3>1
    <3> QED BY <3>1, <3>2
  <2> HIDE DEF T, n
  <2> QED BY <1>0, <2>1, <2>2, UpTo
<1>12. parts[n] = f[n]
  BY <1>0, <1>11
<1> QED BY <1>5, <1>6, <1>9, <1>12

\* The parts of a sequence are sequences of the same elements.
LEMMA PartsTyped == ASSUME NEW S, NEW s \in Seq(S) PROVE Parts(s) \subseteq Seq(S)
<1>1. PICK f \in [0..Len(s) -> SUBSET Seq(S)] : Parts(s) = f[Len(s)]
  BY PartsComputed
<1>2. Len(s) \in 0..Len(s)
  OBVIOUS
<1> QED BY <1>1, <1>2

\* Nothing can be read in the empty sequence.
LEMMA PartsEmpty == Parts(<<>>) = {<<>>}
<1>1. <<>> \in Seq({}) /\ Len(<<>>) = 0
  OBVIOUS
<1>2. PICK f \in [0..Len(<<>>) -> SUBSET Seq({})] :
         f[0] = {<<>>} /\ Parts(<<>>) = f[Len(<<>>)]
  BY <1>1, PartsComputed
<1> QED BY <1>1, <1>2

\* With an element behind the others, the parts are those of before, with the
\* element and without.
LEMMA PartsAppend ==
  ASSUME NEW S, NEW s \in Seq(S), NEW e \in S
  PROVE  Parts(Append(s, e)) = Longer(Parts(s), e)
<1> DEFINE t == Append(s, e)
           n == Len(s)
<1>0. n \in Nat /\ t \in Seq(S) /\ Len(t) = n + 1 /\ t[n + 1] = e
        /\ \A k \in 1..n : t[k] = s[k]
  OBVIOUS
<1> HIDE DEF t
<1>1. PICK f \in [0..Len(s) -> SUBSET Seq(S)] :
           /\ f[0] = {<<>>}
           /\ \A k \in 1..Len(s) : f[k] = Longer(f[k - 1], s[k])
           /\ Parts(s) = f[Len(s)]
  BY PartsComputed
<1>2. PICK g \in [0..Len(t) -> SUBSET Seq(S)] :
           /\ g[0] = {<<>>}
           /\ \A k \in 1..Len(t) : g[k] = Longer(g[k - 1], t[k])
           /\ Parts(t) = g[Len(t)]
  BY <1>0, PartsComputed
<1> DEFINE T == {k \in 0..n : f[k] = g[k]}
<1>3. 0..n \subseteq T
  <2>1. 0 \in T
    <3>1. f[0] = {<<>>} /\ g[0] = {<<>>}
      BY <1>1, <1>2
    <3>2. 0 \in 0..n
      BY <1>0
    <3> QED BY <3>1, <3>2
  <2>2. ASSUME NEW k \in 1..n, k - 1 \in T PROVE k \in T
    <3>1. s[k] = t[k] /\ k \in 1..Len(t)
      BY <1>0
    <3>2. k \in 0..n /\ f[k - 1] = g[k - 1]
      BY <1>0, <2>2
    <3>3. f[k] = g[k]
      BY <1>1, <1>2, <3>1, <3>2
    <3> QED BY <3>2, <3>3
  <2> HIDE DEF T, n
  <2> QED BY <1>0, <2>1, <2>2, UpTo
<1>4. g[n] = Parts(s)
  BY <1>0, <1>1, <1>2, <1>3
<1>5. n + 1 \in 1..Len(t) /\ (n + 1) - 1 = n
  BY <1>0
<1>6. g[n + 1] = Longer(g[n], e)
  BY <1>0, <1>2, <1>5
<1> QED BY <1>0, <1>2, <1>4, <1>6 DEF t

\* What follows t leaves out one more of t when t has one more behind it.
LEMMA FollowsLonger ==
  ASSUME NEW S, NEW s \in Seq(S), NEW t \in Seq(S), NEW e \in S,
         NEW m \in Int, NEW w \in Int, Follows(s, t, m, w)
  PROVE  Follows(s, Append(t, e), m, w + 1)
<1>1. PICK both \in Parts(s) \cap Parts(t) :
         /\ Len(s) - Len(both) <= m
         /\ (Len(s) - Len(both)) + (Len(t) - Len(both)) <= w
  BY DEF Follows
<1>2. both \in Parts(Append(t, e))
  BY <1>1, PartsAppend DEF Longer
<1>3. both \in Seq(S)
  BY <1>1, PartsTyped
<1>4. Len(s) \in Nat /\ Len(t) \in Nat /\ Len(both) \in Nat /\ Len(Append(t, e)) = Len(t) + 1
  BY <1>3
<1>5. (Len(s) - Len(both)) + (Len(Append(t, e)) - Len(both)) <= w + 1
  BY <1>1, <1>4
<1> QED BY <1>1, <1>2, <1>5 DEF Follows

\* It is one more ahead when it has itself one more behind it.
LEMMA FollowsAhead ==
  ASSUME NEW S, NEW s \in Seq(S), NEW t \in Seq(S), NEW e \in S,
         NEW m \in Int, NEW w \in Int, Follows(s, t, m, w)
  PROVE  Follows(Append(s, e), t, m + 1, w + 1)
<1>1. PICK both \in Parts(s) \cap Parts(t) :
         /\ Len(s) - Len(both) <= m
         /\ (Len(s) - Len(both)) + (Len(t) - Len(both)) <= w
  BY DEF Follows
<1>2. both \in Parts(Append(s, e))
  BY <1>1, PartsAppend DEF Longer
<1>3. both \in Seq(S)
  BY <1>1, PartsTyped
<1>4. Len(s) \in Nat /\ Len(t) \in Nat /\ Len(both) \in Nat /\ Len(Append(s, e)) = Len(s) + 1
  BY <1>3
<1>5. /\ Len(Append(s, e)) - Len(both) <= m + 1
      /\ (Len(Append(s, e)) - Len(both)) + (Len(t) - Len(both)) <= w + 1
  BY <1>1, <1>4
<1> QED BY <1>1, <1>2, <1>5 DEF Follows

\* It follows as before when both have the same element behind them.
LEMMA FollowsBoth ==
  ASSUME NEW S, NEW s \in Seq(S), NEW t \in Seq(S), NEW e \in S,
         NEW m \in Int, NEW w \in Int, Follows(s, t, m, w)
  PROVE  Follows(Append(s, e), Append(t, e), m, w)
<1>1. PICK both \in Parts(s) \cap Parts(t) :
         /\ Len(s) - Len(both) <= m
         /\ (Len(s) - Len(both)) + (Len(t) - Len(both)) <= w
  BY DEF Follows
<1> DEFINE more == Append(both, e)
<1>2. more \in Parts(Append(s, e)) \cap Parts(Append(t, e))
  <2>1. both \in Parts(s) /\ both \in Parts(t)
    BY <1>1
  <2>2. more \in Longer(Parts(s), e) /\ more \in Longer(Parts(t), e)
    BY <2>1 DEF Longer
  <2>3. Parts(Append(s, e)) = Longer(Parts(s), e) /\ Parts(Append(t, e)) = Longer(Parts(t), e)
    BY PartsAppend
  <2> QED BY <2>2, <2>3
<1>3. both \in Seq(S)
  BY <1>1, PartsTyped
<1>4. /\ Len(s) \in Nat /\ Len(t) \in Nat /\ Len(both) \in Nat /\ Len(more) = Len(both) + 1
      /\ Len(Append(s, e)) = Len(s) + 1 /\ Len(Append(t, e)) = Len(t) + 1
  BY <1>3
<1> HIDE DEF more
<1>5. /\ Len(Append(s, e)) - Len(more) <= m
      /\ (Len(Append(s, e)) - Len(more)) + (Len(Append(t, e)) - Len(more)) <= w
  BY <1>1, <1>4
<1> QED BY <1>2, <1>5 DEF Follows

\* Whatever bounds it keeps, it keeps wider ones.
LEMMA FollowsLoosely ==
  ASSUME NEW S, NEW s \in Seq(S), NEW t \in Seq(S),
         NEW m \in Int, NEW w \in Int, Follows(s, t, m, w),
         NEW n \in Int, NEW x \in Int, m <= n, w <= x
  PROVE  Follows(s, t, n, x)
<1>1. PICK both \in Parts(s) \cap Parts(t) :
         /\ Len(s) - Len(both) <= m
         /\ (Len(s) - Len(both)) + (Len(t) - Len(both)) <= w
  BY DEF Follows
<1>2. both \in Seq(S)
  BY <1>1, PartsTyped
<1>3. Len(s) \in Nat /\ Len(t) \in Nat /\ Len(both) \in Nat
  BY <1>2
<1>4. Len(s) - Len(both) <= n /\ (Len(s) - Len(both)) + (Len(t) - Len(both)) <= x
  BY <1>1, <1>3
<1> QED BY <1>1, <1>4 DEF Follows

------------------------------------------------------------------------------
(* The log                                                                   *)

Line == Event \cup {Torn}
LogFile == [lines : Seq(Line), cut : BOOLEAN]

\* A torn line is no event.
LEMMA TornIsNoEvent == Torn \notin Event
BY DEF Torn, Event, EventType

\* The front of a sequence, and the element behind it.
LEMMA FrontLast ==
  ASSUME NEW S, NEW s \in Seq(S), s # <<>>
  PROVE  /\ Front(s) \in Seq(S) /\ s[Len(s)] \in S
         /\ s = Append(Front(s), s[Len(s)])
<1>1. Len(s) \in Nat \ {0}
  OBVIOUS
<1>2. Front(s) = SubSeq(s, 1, Len(s) - 1)
  BY DEF Front
<1>3. SubSeq(s, 1, Len(s) - 1) \in Seq(S) /\ s[Len(s)] \in S
  BY <1>1
<1>4. s = Append(SubSeq(s, 1, Len(s) - 1), s[Len(s)])
  BY <1>1
<1> QED BY <1>2, <1>3, <1>4

\* What is read back from a log is events.
LEMMA EventsTyped ==
  ASSUME NEW l \in LogFile
  PROVE  Events(l) \in Seq(Event)
<1>1. l.lines \in Seq(Line)
  BY DEF LogFile
<1> QED BY <1>1, OnlyTyped DEF Events

\* The file stays a file, however far the write gets.
LEMMA WrittenTyped ==
  ASSUME NEW l \in LogFile, NEW e \in Event, NEW extent \in Extent
  PROVE  Written(l, e, extent) \in LogFile
<1> DEFINE line == IF l.cut \/ extent = "part" THEN Torn ELSE e
           kept == IF l.cut THEN Front(l.lines) ELSE l.lines
<1>1. line \in Line
  BY DEF Line
<1>2. kept \in Seq(Line)
  <2>1. l.lines \in Seq(Line)
    BY DEF LogFile
  <2>2. CASE l.lines = <<>>
    <3>1. Front(<<>>) = <<>>
      BY DEF Front
    <3> QED BY <2>1, <2>2, <3>1
  <2>3. CASE l.lines # <<>>
    BY <2>1, <2>3, FrontLast
  <2> QED BY <2>2, <2>3
<1>3. Append(kept, line) \in Seq(Line)
  BY <1>1, <1>2
<1> HIDE DEF line, kept
<1>4. [lines |-> Append(kept, line), cut |-> extent # "all"] \in LogFile
  BY <1>3 DEF LogFile
<1> QED BY <1>4 DEF Written, line, kept

\* A write behind a whole line adds its event, when enough of it gets there.
LEMMA WrittenBehind ==
  ASSUME NEW l \in LogFile, NEW e \in Event, NEW extent \in Extent, ~l.cut
  PROVE  /\ extent \in {"noeol", "all"} =>
              /\ Written(l, e, extent).lines = Append(l.lines, e)
              /\ Events(Written(l, e, extent)) = Append(Events(l), e)
         /\ extent \in {"none", "part"} => Events(Written(l, e, extent)) = Events(l)
<1>0. l.lines \in Seq(Line) /\ e \in Line /\ Torn \in Line
  BY DEF LogFile, Line
<1>1. CASE extent \in {"noeol", "all"}
  <2>1. Written(l, e, extent).lines = Append(l.lines, e)
    BY <1>1 DEF Written
  <2>2. Only(Append(l.lines, e), Event) = Append(Only(l.lines, Event), e)
    BY <1>0, OnlyAppend
  <2> QED BY <1>1, <2>1, <2>2 DEF Events
<1>2. CASE extent = "none"
  BY <1>2 DEF Written
<1>3. CASE extent = "part"
  <2>1. Written(l, e, extent).lines = Append(l.lines, Torn)
    BY <1>3 DEF Written
  <2>2. Only(Append(l.lines, Torn), Event) = Only(l.lines, Event)
    BY <1>0, OnlyAppend, TornIsNoEvent
  <2> QED BY <1>3, <2>1, <2>2 DEF Events
<1> QED BY <1>1, <1>2, <1>3 DEF Extent

\* However a write ends and whatever is before it, it changes what is read back
\* at the end only, and by one event at most.
LEMMA WrittenAtEnd ==
  ASSUME NEW l \in LogFile, NEW e \in Event, NEW extent \in Extent
  PROVE  LET before == Events(l)
             after  == Events(Written(l, e, extent))
         IN  \/ after = before
             \/ after = Append(before, e)
             \/ \E x \in Event : before = Append(after, x)
<1>1. CASE ~l.cut
  BY <1>1, WrittenBehind DEF Extent
<1>2. CASE extent = "none"
  BY <1>2 DEF Written
<1>3. CASE l.cut /\ extent # "none"
  <2>0. l.lines \in Seq(Line) /\ Torn \in Line
    BY DEF LogFile, Line
  <2>1. Written(l, e, extent).lines = Append(Front(l.lines), Torn)
    BY <1>3 DEF Written
  <2>2. CASE l.lines = <<>>
    <3>1. Front(<<>>) = <<>>
      BY DEF Front
    <3>2. Only(Append(l.lines, Torn), Event) = Only(l.lines, Event)
      BY <2>0, OnlyAppend, TornIsNoEvent
    <3> QED BY <2>1, <2>2, <3>1, <3>2 DEF Events
  <2>3. CASE l.lines # <<>>
    <3> DEFINE x == l.lines[Len(l.lines)]
               f == Front(l.lines)
    <3>1. f \in Seq(Line) /\ x \in Line /\ l.lines = Append(f, x)
      BY <2>0, <2>3, FrontLast
    <3> HIDE DEF x, f
    <3>2. Only(Append(f, Torn), Event) = Only(f, Event)
      BY <2>0, <3>1, OnlyAppend, TornIsNoEvent
    <3>3. Only(l.lines, Event) = IF x \in Event THEN Append(Only(f, Event), x) ELSE Only(f, Event)
      BY <3>1, OnlyAppend
    <3>4. Events(Written(l, e, extent)) = Only(f, Event)
      BY <2>1, <3>2 DEF Events, f
    <3> QED BY <3>3, <3>4 DEF Events
  <2> QED BY <2>2, <2>3
<1> QED BY <1>1, <1>2, <1>3

------------------------------------------------------------------------------
(* Checkpoints                                                               *)

\* The least of a set of numbers.
LEMMA MinIsLeast ==
  ASSUME NEW T, T \subseteq Nat, T # {}
  PROVE  Min(T) \in T /\ \A k \in T : Min(T) <= k
<1>1. \E m \in T : \A k \in T : m <= k
  BY Least
<1> QED BY <1>1 DEF Min

\* A cutoff lies within the log; when a later turn has begun, it is the place
\* right before the first start of one.
LEMMA CutoffWithin ==
  ASSUME NEW s \in Seq(Event), NEW t
  PROVE  /\ Cutoff(s, t) \in 0..Len(s)
         /\ StartsAfter(s, t) = {} => Cutoff(s, t) = Len(s)
         /\ StartsAfter(s, t) # {} =>
              /\ Cutoff(s, t) + 1 \in StartsAfter(s, t)
              /\ \A k \in StartsAfter(s, t) : Cutoff(s, t) < k
<1>0. Len(s) \in Nat /\ StartsAfter(s, t) \subseteq 1..Len(s)
  BY DEF StartsAfter
<1>1. CASE StartsAfter(s, t) = {}
  BY <1>0, <1>1 DEF Cutoff
<1>2. CASE StartsAfter(s, t) # {}
  <2> DEFINE c == Min(StartsAfter(s, t))
  <2>1. c \in StartsAfter(s, t) /\ \A k \in StartsAfter(s, t) : c <= k
    BY <1>0, <1>2, MinIsLeast
  <2>2. Cutoff(s, t) = c - 1
    BY <1>2 DEF Cutoff
  <2> HIDE DEF c
  <2> QED BY <1>0, <1>2, <2>1, <2>2
<1> QED BY <1>1, <1>2

\* Appending does not move the cutoff of a turn that was followed by another,
\* and what stands before it is what stood there.
LEMMA CutoffStays ==
  ASSUME NEW s \in Seq(Event), NEW e \in Event, NEW t, StartsAfter(s, t) # {}
  PROVE  /\ Cutoff(Append(s, e), t) = Cutoff(s, t)
         /\ Checkpoint(Append(s, e), t) = Checkpoint(s, t)
<1> DEFINE u == Append(s, e)
           c == Cutoff(s, t)
           d == Cutoff(u, t)
<1>0. /\ Len(s) \in Nat /\ u \in Seq(Event) /\ Len(u) = Len(s) + 1
      /\ \A k \in 1..Len(s) : u[k] = s[k]
  OBVIOUS
<1> HIDE DEF u
<1>1. StartsAfter(s, t) \subseteq 1..Len(s) /\ StartsAfter(u, t) \subseteq 1..Len(u)
  BY DEF StartsAfter
<1>2. \A k \in 1..Len(s) : k \in StartsAfter(u, t) <=> k \in StartsAfter(s, t)
  BY <1>0 DEF StartsAfter
<1>3. c + 1 \in StartsAfter(s, t) /\ c \in 0..Len(s) /\ \A k \in StartsAfter(s, t) : c < k
  BY CutoffWithin
<1>4. c + 1 \in StartsAfter(u, t)
  BY <1>1, <1>2, <1>3
<1>5. d + 1 \in StartsAfter(u, t) /\ d \in 0..Len(u) /\ \A k \in StartsAfter(u, t) : d < k
  BY <1>0, <1>4, CutoffWithin
<1> HIDE DEF c, d
<1>6. d < c + 1
  BY <1>4, <1>5
<1>7. d + 1 \in StartsAfter(s, t)
  BY <1>0, <1>1, <1>2, <1>3, <1>5, <1>6
<1>8. c = d
  BY <1>0, <1>3, <1>5, <1>6, <1>7
<1>9. SubSeq(u, 1, c) = SubSeq(s, 1, c)
  BY <1>0, <1>3
<1> QED BY <1>8, <1>9 DEF Checkpoint, c, d, u

\* Nor does taking the last event away, when it was the only start of a later turn.
LEMMA CheckpointStays ==
  ASSUME NEW s \in Seq(Event), NEW x \in Event, NEW t, StartsAfter(Append(s, x), t) # {}
  PROVE  Checkpoint(s, t) = Checkpoint(Append(s, x), t)
<1>1. CASE StartsAfter(s, t) # {}
  BY <1>1, CutoffStays
<1>2. CASE StartsAfter(s, t) = {}
  <2> DEFINE u == Append(s, x)
             d == Cutoff(u, t)
  <2>0. /\ Len(s) \in Nat /\ u \in Seq(Event) /\ Len(u) = Len(s) + 1
        /\ \A k \in 1..Len(s) : u[k] = s[k]
    OBVIOUS
  <2>1. d + 1 \in StartsAfter(u, t) /\ d \in 0..Len(u)
    BY <2>0, CutoffWithin
  <2>2. SubSeq(u, 1, Len(s)) = s /\ SubSeq(s, 1, Len(s)) = s
    OBVIOUS
  <2> HIDE DEF u
  <2>3. d + 1 \in 1..Len(u) /\ d + 1 \notin 1..Len(s)
    BY <1>2, <2>0, <2>1 DEF StartsAfter
  <2>4. d = Len(s)
    BY <2>0, <2>1, <2>3
  <2>5. Cutoff(s, t) = Len(s)
    BY <1>2 DEF Cutoff
  <2> QED BY <2>2, <2>4, <2>5 DEF Checkpoint, u
<1> QED BY <1>1, <1>2

------------------------------------------------------------------------------
(* Runs are attended                                                        *)

Failures == faults \in Nat /\ lost \in Nat

AttendedInv == Failures /\ RunningIsAttended

\* However a loop ended, the status written for it is not running.
LEMMA EndedIsNotRunning ==
  ASSUME NEW r
  PROVE  mapReasonToStatus(r) \in RunStatus \ {"running", "pending"}
BY DEF mapReasonToStatus, RunStatus

\* Nothing has failed at first, and the wrapper stands before its first step.
LEMMA AttendedInit == Init => AttendedInv
BY DEF Init, AttendedInv, Failures, RunningIsAttended

\* A step that counts a failure accounts for whatever run.json says.
LEMMA FailureCounts ==
  ASSUME Failures', faults' > 0 \/ lost' > 0
  PROVE  AttendedInv'
BY DEF AttendedInv, RunningIsAttended

\* A step after which somebody is at work, or no failure and no status changed.
LEMMA AttendedStays ==
  ASSUME AttendedInv, Failures', faults' >= faults, lost' >= lost,
         \/ wpc' # "off"
         \/ status' # "running"
         \/ wpc = "off" /\ UNCHANGED status
  PROVE  AttendedInv'
BY DEF Failures, AttendedInv, RunningIsAttended

\* No step leaves a running run unattended without a failure.
LEMMA AttendedStep == AttendedInv /\ [Next]_vars => AttendedInv'
<1> SUFFICES ASSUME AttendedInv, [Next]_vars PROVE AttendedInv'
  OBVIOUS
<1> USE DEF loopVars, diskVars, pastVars
<1>0. Failures /\ faults \in Nat /\ lost \in Nat
  BY DEF AttendedInv, Failures
<1>1. ASSUME Fault, UNCHANGED lost PROVE AttendedInv'
  <2>1. faults' = faults + 1 /\ lost' = lost
    BY <1>1 DEF Fault
  <2> QED BY <1>0, <2>1, FailureCounts DEF Failures
<1>2. ASSUME LoseGenerator, UNCHANGED faults PROVE AttendedInv'
  <2>1. lost' = lost + 1 /\ faults' = faults
    BY <1>2 DEF LoseGenerator
  <2> QED BY <1>0, <2>1, FailureCounts DEF Failures
<1>3. ASSUME UNCHANGED <<faults, lost>>,
             \/ wpc' # "off"
             \/ status' # "running"
             \/ wpc = "off" /\ UNCHANGED status
      PROVE  AttendedInv'
  BY <1>0, <1>3, AttendedStays DEF Failures
<1>4. CASE OpenFails
  BY <1>1, <1>4 DEF OpenFails
<1>5. CASE AppendFails
  BY <1>1, <1>5 DEF AppendFails
<1>6. CASE CallerAbandons \/ Crash
  BY <1>2, <1>6 DEF CallerAbandons, Crash
<1>7. CASE AuditAppend
  <2>1. wpc' # "off" /\ UNCHANGED lost
    BY <1>7 DEF AuditAppend
  <2> QED BY <1>1, <1>3, <1>7, <2>1 DEF AuditAppend
<1>8. CASE Seal
  <2>1. CASE Fault
    BY <1>1, <1>8, <2>1 DEF Seal
  <2>2. CASE status' = mapReasonToStatus(reason) /\ UNCHANGED faults
    <3>1. status' # "running"
      BY <2>2, EndedIsNotRunning
    <3> QED BY <1>3, <1>8, <2>2, <3>1 DEF Seal
  <2> QED BY <1>8, <2>1, <2>2 DEF Seal
<1>9. CASE \/ Open \/ Inner \/ AppendEvent \/ Complained \/ Deliver
           \/ CallerReturns \/ InnerDone
  <2>1. UNCHANGED <<faults, lost>> /\ wpc' # "off"
    BY <1>9 DEF Open, Inner, AppendEvent, AfterAppend, Complained, Deliver,
       CallerReturns, InnerDone
  <2> QED BY <1>3, <2>1
<1>10. CASE Resume \/ \E t \in Checkpoints : ResumeFromCheckpoint(t)
  <2>1. UNCHANGED <<faults, lost>> /\ wpc' # "off"
    BY <1>10 DEF Resume, ResumeFromCheckpoint, RestartFrom
  <2> QED BY <1>3, <2>1
<1>11. CASE UNCHANGED vars
  BY <1>3, <1>11 DEF vars, AttendedInv, Failures, RunningIsAttended
<1> QED
  BY <1>4, <1>5, <1>6, <1>7, <1>8, <1>9, <1>10, <1>11 DEF Next

\* However many loops, failures and resumes: a run left running in run.json means
\* that the process died, a write of the status failed, or the caller walked
\* away from the generator.
THEOREM RunsAreAttended == Spec => []RunningIsAttended
<1>1. AttendedInv => RunningIsAttended
  BY DEF AttendedInv
<1> QED BY <1>1, AttendedInit, AttendedStep, PTL DEF Spec

------------------------------------------------------------------------------
(* Types                                                                     *)

\* An event under way is one; a generator that is gone has none, nor has one that
\* has not begun.
OutInv ==
  /\ wpc \in {"complain", "audit", "auditComplain", "deliver"} => out # NoEvent
  /\ wpc \in {"off", "open"} => phase = "idle" /\ out = NoEvent
  /\ out.type = "stream_request_start" => phase = "requested"
  /\ wpc = "audit" => shouldAudit(out)
  /\ resumes = 0 => ~branched

StoreTypes == TypeOK /\ OutInv

\* The inner generator: what its variables hold and which event it is about.
LoopTypes ==
  /\ phase \in {"idle", "requested", "answered", "tools", "ending", "over"}
  /\ turn \in 0..maxTurns
  /\ uses \in Seq(Nat) /\ answered \in 0..Len(uses) /\ issued \in Nat
  /\ messages \in Seq(Message)
  /\ reason \in ExitReason \cup {"none"}
  /\ out \in Event \cup {NoEvent}
  /\ out.type = "stream_request_start" => phase = "requested"

\* A notice is an event, and so is one about a block.
LEMMA EventMade ==
  ASSUME NEW t \in EventType, NEW ids \in Seq(Nat), NEW n \in Nat
  PROVE  Ev(t, ids, n) \in Event /\ Ev(t, ids, n).type = t
BY DEF Ev, Event

\* LoopProtocol has the names of LoopEvents for its own; they mean the same.
LEMMA SameNames ==
  /\ \A t, ids, n : Loop!Ev(t, ids, n) = Ev(t, ids, n)
  /\ \A t : Loop!Notice(t) = Notice(t)
  /\ \A ids : Loop!AssistantMessage(ids) = AssistantMessage(ids)
  /\ \A ids : Loop!ToolResultMessage(ids) = ToolResultMessage(ids)
  /\ Loop!NoEvent = NoEvent /\ Loop!Prompt = Prompt
  /\ Loop!ExitReason = ExitReason
  /\ Loop!Quiet <=> out = NoEvent
BY DEF Loop!Ev, Ev, Loop!Notice, Notice, Loop!AssistantMessage, AssistantMessage,
   Loop!ToolResultMessage, ToolResultMessage, Loop!NoEvent, NoEvent, Loop!Prompt, Prompt,
   Loop!ExitReason, ExitReason, Loop!StopReason, StopReason, Loop!Quiet

\* What a step of the inner generator does: it begins a turn, answers with n
\* blocks, says something that is not part of the history, gives a result,
\* ends the turn, or comes to its end.
Begins ==
  /\ phase = "idle" /\ phase' = "requested" /\ turn < maxTurns /\ turn' = turn + 1
  /\ out' = Ev("stream_request_start", <<>>, turn + 1)
  /\ UNCHANGED <<uses, answered, issued, messages, reason>>

Answers(new) ==
  /\ phase = "requested" /\ phase' = "answered"
  /\ new \in Seq(Nat) /\ uses' = new /\ answered' = 0
  /\ issued' = issued + Len(new)
  /\ messages' = Append(messages, AssistantMessage(new))
  /\ out' = Ev("assistant_message", new, 0)
  /\ UNCHANGED <<turn, reason>>

Tells ==
  /\ \E t \in {"usage_update", "started", "progress", "governance_decision", "error"},
        ids \in Seq(Nat), n \in Nat : out' = Ev(t, ids, n)
  /\ \/ phase' = phase /\ phase \in {"tools", "ending"}
     \/ phase = "answered" /\ phase' = "tools"
     \/ phase' = "ending"
  /\ reason' \in {reason, "error"}
  /\ UNCHANGED <<turn, uses, answered, issued, messages>>

Results ==
  /\ phase = "tools" /\ answered < Len(uses) /\ answered' = answered + 1
  /\ out' = Ev("result", <<uses[answered + 1]>>, 0)
  /\ UNCHANGED <<phase, turn, uses, issued, messages, reason>>

TurnEnds ==
  /\ phase = "tools" /\ uses # <<>> /\ answered = Len(uses)
  /\ messages' = Append(messages, ToolResultMessage(uses))
  /\ phase' \in {"idle", "ending"} /\ reason' \in {reason, "aborted"}
  /\ UNCHANGED <<turn, uses, answered, issued, out>>

Ends ==
  /\ phase' \in {"ending", "over"} /\ reason' \in ExitReason \cup {reason}
  /\ UNCHANGED <<turn, uses, answered, issued, messages, out>>

\* The steps of the inner generator are these.
LEMMA InnerActs ==
  ASSUME LoopTypes, Inner
  PROVE  /\ wpc = "pull" /\ out = NoEvent
         /\ \/ Begins \/ (\E new \in Seq(Nat) : Answers(new)) \/ Tells \/ Results
            \/ TurnEnds \/ Ends
<1>0. wpc = "pull" /\ out = NoEvent /\ <<>> \in Seq(Nat) /\ turn \in Nat
  BY BoundsAreNat DEF Inner, LoopTypes
<1> USE SameNames DEF Loop!turnState
<1>1. CASE Loop!BeginTurn
  BY <1>0, <1>1 DEF Loop!BeginTurn, Begins
<1>2. ASSUME NEW n \in 0..MaxBlocks, Loop!Answer(n) PROVE \E new \in Seq(Nat) : Answers(new)
  <2> DEFINE new == [k \in 1..n |-> issued + k]
  <2>1. new \in Seq(Nat) /\ Len(new) = n
    <3>1. n \in Nat /\ issued \in Nat
      BY BoundsAreNat DEF LoopTypes
    <3> QED BY <3>1
  <2>2. /\ phase = "requested" /\ phase' = "answered" /\ uses' = new /\ answered' = 0
        /\ issued' = issued + n
        /\ messages' = Append(messages, AssistantMessage(new))
        /\ out' = Ev("assistant_message", new, 0) /\ UNCHANGED <<turn, reason>>
    BY <1>2 DEF Loop!Answer
  <2> HIDE DEF new
  <2>3. Answers(new)
    BY <2>1, <2>2 DEF Answers
  <2> QED BY <2>1, <2>3
<1>3. CASE Loop!Usage(turn)
  BY <1>0, <1>3 DEF Loop!Usage, Tells
<1>4. CASE Loop!Result
  BY <1>0, <1>4 DEF Loop!Result, Results
<1>5. CASE Loop!About
  <2>1. answered < Len(uses) /\ UNCHANGED <<phase, turn, uses, answered, issued, messages, reason>>
          /\ phase = "tools"
    BY <1>5 DEF Loop!About
  <2>2. PICK t \in {"started", "progress"} : out' = Ev(t, <<uses[answered + 1]>>, 0)
    BY <1>5 DEF Loop!About
  <2>3. answered \in Nat /\ answered + 1 \in 1..Len(uses) /\ uses \in Seq(Nat)
    BY <2>1 DEF LoopTypes
  <2>4. <<uses[answered + 1]>> \in Seq(Nat)
    BY <2>3
  <2>5. Tells
    BY <2>1, <2>2, <2>4 DEF Tells
  <2> QED BY <1>0, <2>5
<1>6. CASE Loop!Remark
  <2>1. PICK t \in {"governance_decision", "error"} : out' = Notice(t)
    BY <1>6 DEF Loop!Remark
  <2>2. out' = Ev(t, <<>>, 0)
    BY <2>1 DEF Notice
  <2> QED BY <1>0, <1>6, <2>2 DEF Loop!Remark, Tells
<1>7. CASE Loop!TurnDone
  BY <1>0, <1>7 DEF Loop!TurnDone, TurnEnds
<1>8. CASE Loop!Fail
  <2>1. out' = Ev("error", <<>>, 0)
    BY <1>8 DEF Loop!Fail, Notice
  <2> QED BY <1>0, <1>8, <2>1 DEF Loop!Fail, Tells
<1>9. CASE Loop!Close /\ reason' \in Reasons
  BY <1>0, <1>9, ReasonsAreExits DEF Loop!Close, Ends
<1>10. CASE Loop!Over
  BY <1>0, <1>10 DEF Loop!Over, Ends
<1> QED BY <1>0, <1>1, <1>2, <1>3, <1>4, <1>5, <1>6, <1>7, <1>8, <1>9, <1>10 DEF Inner

\* A step of the inner generator keeps the types of its variables.
LEMMA InnerTypes ==
  ASSUME LoopTypes, Inner
  PROVE  LoopTypes'
<1> USE BoundsAreNat
<1>0. /\ NoEvent.type = "none" /\ <<>> \in Seq(Nat) /\ out = NoEvent
      /\ turn \in 0..maxTurns /\ turn \in Nat /\ uses \in Seq(Nat) /\ Len(uses) \in Nat
      /\ answered \in 0..Len(uses)
      /\ issued \in Nat /\ messages \in Seq(Message) /\ reason \in ExitReason \cup {"none"}
      /\ phase \in {"idle", "requested", "answered", "tools", "ending", "over"}
  BY InnerActs DEF NoEvent, LoopTypes
<1>1. CASE Begins
  <2>1. "stream_request_start" \in EventType /\ turn + 1 \in Nat
    BY <1>0 DEF EventType
  <2>2. out' \in Event
    BY <1>0, <1>1, <2>1, EventMade DEF Begins
  <2> QED BY <1>0, <1>1, <2>2 DEF Begins, LoopTypes
<1>2. ASSUME NEW new \in Seq(Nat), Answers(new) PROVE LoopTypes'
  <2>1. "assistant_message" \in EventType /\ 0 \in Nat
    BY DEF EventType
  <2>2. out' \in Event /\ out'.type = "assistant_message"
    BY <1>2, <2>1, EventMade DEF Answers
  <2>3. AssistantMessage(new) \in Message
    BY <1>0 DEF AssistantMessage, Message
  <2>4. messages' \in Seq(Message)
    BY <1>0, <1>2, <2>3 DEF Answers
  <2>5. issued' \in Nat /\ Len(new) \in Nat
    BY <1>0, <1>2 DEF Answers
  <2> QED BY <1>0, <1>2, <2>2, <2>4, <2>5 DEF Answers, LoopTypes
<1>3. CASE Tells
  <2>1. PICK t \in {"usage_update", "started", "progress", "governance_decision", "error"},
             ids \in Seq(Nat), n \in Nat : out' = Ev(t, ids, n)
    BY <1>3 DEF Tells
  <2>2. t \in EventType
    BY DEF EventType
  <2>3. out' \in Event /\ out'.type = t
    BY <2>1, <2>2, EventMade
  <2> QED BY <1>0, <1>3, <2>3 DEF Tells, LoopTypes, ExitReason
<1>4. CASE Results
  <2>1. answered + 1 \in 1..Len(uses)
    BY <1>0, <1>4 DEF Results
  <2>2. <<uses[answered + 1]>> \in Seq(Nat)
    BY <1>0, <2>1
  <2>3. "result" \in EventType /\ 0 \in Nat
    BY DEF EventType
  <2>4. out' \in Event /\ out'.type = "result"
    BY <1>4, <2>2, <2>3, EventMade DEF Results
  <2> QED BY <1>0, <1>4, <2>1, <2>4 DEF Results, LoopTypes
<1>5. CASE TurnEnds
  <2>1. ToolResultMessage(uses) \in Message
    BY <1>0 DEF ToolResultMessage, Message
  <2>2. messages' \in Seq(Message)
    BY <1>0, <1>5, <2>1 DEF TurnEnds
  <2> QED BY <1>0, <1>5, <2>2 DEF TurnEnds, LoopTypes, ExitReason
<1>6. CASE Ends
  BY <1>0, <1>6 DEF Ends, LoopTypes
<1> QED BY <1>1, <1>2, <1>3, <1>4, <1>5, <1>6, InnerActs

\* A generator that is gone left nothing that has no type.
LEMMA GoneTypes ==
  ASSUME Gone, issued \in Nat, issued' = issued
  PROVE  LoopTypes' /\ wpc' = "off" /\ phase' = "idle" /\ out' = NoEvent
<1>1. <<>> \in Seq(Nat) /\ <<>> \in Seq(Message) /\ Len(<<>>) = 0 /\ NoEvent.type = "none"
  BY DEF NoEvent
<1>2. /\ phase' = "idle" /\ turn' = 0 /\ uses' = <<>> /\ answered' = 0
      /\ messages' = <<>> /\ reason' = "none" /\ out' = NoEvent /\ wpc' = "off"
  BY DEF Gone
<1> QED BY <1>1, <1>2, BoundsAreNat DEF LoopTypes

\* The disk and the history variables.
DiskTypes ==
  /\ status \in RunStatus \cup {"none"}
  /\ log \in LogFile
  /\ audit \in Seq(Event) /\ acked \in Seq(Event)

CountTypes ==
  /\ faults \in 0..MaxFailures /\ lost \in 0..(MaxFailures - faults)
  /\ resumes \in 0..MaxResumes /\ branched \in BOOLEAN
  /\ resumes = 0 => ~branched

WrapperTypes ==
  /\ wpc \in {"off", "open", "pull", "complain", "audit", "auditComplain",
              "deliver", "seal"}
  /\ wpc \in {"complain", "audit", "auditComplain", "deliver"} => out # NoEvent
  /\ wpc \in {"off", "open"} => phase = "idle" /\ out = NoEvent
  /\ wpc = "audit" => shouldAudit(out)

\* The types fall into those of the loop, the disk, the counters and the wrapper.
LEMMA TypesSplit == StoreTypes <=> LoopTypes /\ DiskTypes /\ CountTypes /\ WrapperTypes
BY DEF StoreTypes, TypeOK, OutInv, LoopTypes, DiskTypes, CountTypes, WrapperTypes, LogFile, Line

\* A failure is counted within the limit.
LEMMA FailureTypes ==
  ASSUME CountTypes, UNCHANGED <<resumes, branched>>,
         \/ Fault /\ UNCHANGED lost
         \/ LoseGenerator /\ UNCHANGED faults
         \/ UNCHANGED <<faults, lost>>
  PROVE  CountTypes'
BY BoundsAreNat DEF CountTypes, Fault, LoseGenerator, FailuresLeft

\* At first everything has its type.
LEMMA StoreTypesInit == Init => StoreTypes
<1> SUFFICES ASSUME Init PROVE StoreTypes
  OBVIOUS
<1>1. <<>> \in Seq(Nat) /\ <<>> \in Seq(Event) /\ <<>> \in Seq(Line) /\ Len(<<>>) = 0
        /\ NoEvent.type = "none"
  BY DEF NoEvent
<1>2. <<Prompt>> \in Seq(Message)
  <2>1. Prompt \in Message
    BY <1>1 DEF Prompt, Message
  <2> QED BY <2>1
<1>3. LoopTypes
  BY <1>1, <1>2, BoundsAreNat DEF Init, Loop!Init, LoopTypes, Loop!NoEvent, NoEvent, Loop!Prompt, Prompt
<1>4. DiskTypes
  BY <1>1 DEF Init, DiskTypes, EmptyLog, LogFile, RunStatus
<1>5. CountTypes
  <2>1. faults = 0 /\ lost = 0 /\ resumes = 0 /\ branched = FALSE
    BY DEF Init
  <2>2. MaxFailures \in Nat /\ MaxResumes \in Nat
    BY BoundsAreNat
  <2>3. lost \in 0..(MaxFailures - faults)
    BY <2>1, <2>2
  <2>4. faults \in 0..MaxFailures /\ resumes \in 0..MaxResumes
    BY <2>1, <2>2
  <2>5. branched \in BOOLEAN /\ ~branched
    BY <2>1
  <2> QED BY <2>3, <2>4, <2>5 DEF CountTypes
<1>6. WrapperTypes
  BY DEF Init, WrapperTypes, Loop!Init, Loop!NoEvent, NoEvent
<1> QED BY <1>3, <1>4, <1>5, <1>6, TypesSplit

\* What is rebuilt is a history, without the prompt.
LEMMA RebuildTyped ==
  ASSUME NEW s \in Seq(Event)
  PROVE  Rebuild(s) \in Seq(Message \ {Prompt}) /\ Rebuild(s) \in Seq(Message)
<1>1. Replay(s) \in Acc
  BY ReplayTyped
<1>2. Flush(Replay(s)) \in Acc
  BY <1>1, FlushTyped
<1>3. Rebuild(s) \in Seq(Message \ {Prompt})
  BY <1>2 DEF Rebuild, Acc
<1> QED BY <1>3

\* What the audit chain takes next.
LEMMA AfterAppendTyped == AfterAppend \in {"audit", "deliver"} /\ (AfterAppend = "audit" => shouldAudit(out))
BY DEF AfterAppend

\* Variables that do not change keep their types.
LEMMA LoopTypesStay ==
  ASSUME LoopTypes, UNCHANGED <<loopVars, issued>>
  PROVE  LoopTypes'
BY DEF LoopTypes, loopVars

\* So do the files.
LEMMA DiskTypesStay ==
  ASSUME DiskTypes, UNCHANGED <<diskVars, acked>>
  PROVE  DiskTypes'
BY DEF DiskTypes, diskVars

\* Every step keeps the types.
LEMMA StoreTypesStep == StoreTypes /\ [Next]_vars => StoreTypes'
<1> SUFFICES ASSUME StoreTypes, [Next]_vars PROVE StoreTypes'
  OBVIOUS
<1>0. LoopTypes /\ DiskTypes /\ CountTypes /\ WrapperTypes
  BY TypesSplit
<1>a. log \in LogFile /\ audit \in Seq(Event) /\ acked \in Seq(Event)
      /\ status \in RunStatus \cup {"none"}
  BY <1>0 DEF DiskTypes
<1>b. "all" \in Extent /\ Tears \subseteq Extent
  BY TearsAreExtents DEF Extent
<1>c. issued \in Nat /\ out \in Event \cup {NoEvent}
  BY <1>0 DEF LoopTypes
<1>d. Readback \in Seq(Event)
  BY <1>a, EventsTyped DEF Readback
<1>e. ASSUME LoopTypes', DiskTypes', CountTypes', WrapperTypes' PROVE StoreTypes'
  BY <1>e, TypesSplit, PTL
<1> USE DEF loopVars, diskVars, pastVars
<1>1. CASE Open
  <2>1. LoopTypes' /\ CountTypes' /\ WrapperTypes'
    BY <1>0, <1>1, LoopTypesStay, FailureTypes DEF Open, WrapperTypes
  <2>2. DiskTypes'
    BY <1>a, <1>1 DEF Open, DiskTypes, RunStatus
  <2> QED BY <1>e, <2>1, <2>2
<1>2. CASE OpenFails
  <2>1. LoopTypes' /\ wpc' = "off" /\ phase' = "idle" /\ out' = NoEvent
    BY <1>c, <1>2, GoneTypes DEF OpenFails
  <2>2. CountTypes'
    BY <1>0, <1>2, FailureTypes DEF OpenFails
  <2>3. DiskTypes'
    BY <1>a, <1>2 DEF OpenFails, DiskTypes, RunStatus
  <2> QED BY <1>e, <2>1, <2>2, <2>3 DEF WrapperTypes
<1>3. CASE Inner
  <2>1. LoopTypes'
    BY <1>0, <1>3, InnerTypes
  <2>2. CountTypes' /\ DiskTypes' /\ WrapperTypes'
    BY <1>0, <1>3, FailureTypes, DiskTypesStay DEF Inner, WrapperTypes
  <2> QED BY <1>e, <2>1, <2>2
<1>4. CASE AppendEvent
  <2>1. LoopTypes' /\ CountTypes'
    BY <1>0, <1>4, LoopTypesStay, FailureTypes DEF AppendEvent
  <2>2. WrapperTypes'
    BY <1>4, AfterAppendTyped DEF AppendEvent, WrapperTypes, shouldAudit
  <2>3. out \in Event
    BY <1>c, <1>4 DEF AppendEvent
  <2>4. log' \in LogFile /\ acked' \in Seq(Event)
    BY <1>a, <1>b, <1>4, <2>3, WrittenTyped DEF AppendEvent
  <2>5. DiskTypes'
    BY <1>a, <1>4, <2>4 DEF AppendEvent, DiskTypes
  <2> QED BY <1>e, <2>1, <2>2, <2>5
<1>5. CASE AppendFails
  <2>1. LoopTypes' /\ CountTypes' /\ WrapperTypes'
    BY <1>0, <1>5, LoopTypesStay, FailureTypes DEF AppendFails, WrapperTypes
  <2>3. out \in Event
    BY <1>c, <1>5 DEF AppendFails
  <2>4. log' \in LogFile
    BY <1>a, <1>b, <1>5, <2>3, WrittenTyped DEF AppendFails
  <2>5. DiskTypes'
    BY <1>a, <1>5, <2>4 DEF AppendFails, DiskTypes
  <2> QED BY <1>e, <2>1, <2>5
<1>6. CASE Complained
  <2>1. LoopTypes' /\ CountTypes' /\ DiskTypes'
    BY <1>0, <1>6, LoopTypesStay, FailureTypes, DiskTypesStay DEF Complained
  <2>2. WrapperTypes'
    BY <1>0, <1>6, AfterAppendTyped DEF Complained, WrapperTypes, shouldAudit
  <2> QED BY <1>e, <2>1, <2>2
<1>7. CASE AuditAppend
  <2>1. LoopTypes' /\ CountTypes' /\ WrapperTypes'
    BY <1>0, <1>7, LoopTypesStay, FailureTypes DEF AuditAppend, WrapperTypes
  <2>2. out \in Event
    BY <1>0, <1>c, <1>7 DEF AuditAppend, WrapperTypes
  <2>3. audit' \in Seq(Event)
    BY <1>a, <1>7, <2>2 DEF AuditAppend
  <2>4. DiskTypes'
    BY <1>a, <1>7, <2>3 DEF AuditAppend, DiskTypes
  <2> QED BY <1>e, <2>1, <2>4
<1>8. CASE Deliver
  <2>1. LoopTypes'
    BY <1>0, <1>8, SameNames DEF Deliver, Loop!Take, Loop!turnState, LoopTypes, NoEvent
  <2>2. CountTypes' /\ DiskTypes' /\ WrapperTypes'
    BY <1>0, <1>8, FailureTypes, DiskTypesStay DEF Deliver, WrapperTypes
  <2> QED BY <1>e, <2>1, <2>2
<1>9. CASE CallerReturns
  <2>1. LoopTypes'
    BY <1>0, <1>9 DEF CallerReturns, LoopTypes, NoEvent
  <2>2. CountTypes' /\ DiskTypes' /\ WrapperTypes'
    BY <1>0, <1>9, FailureTypes, DiskTypesStay DEF CallerReturns, WrapperTypes
  <2> QED BY <1>e, <2>1, <2>2
<1>10. CASE CallerAbandons
  <2>1. LoopTypes' /\ wpc' = "off" /\ phase' = "idle" /\ out' = NoEvent
    BY <1>c, <1>10, GoneTypes DEF CallerAbandons, LoseGenerator
  <2>2. CountTypes' /\ DiskTypes'
    BY <1>0, <1>10, FailureTypes, DiskTypesStay DEF CallerAbandons
  <2> QED BY <1>e, <2>1, <2>2 DEF WrapperTypes
<1>11. CASE InnerDone
  BY <1>e, <1>0, <1>11, LoopTypesStay, FailureTypes, DiskTypesStay DEF InnerDone, WrapperTypes
<1>12. CASE Seal
  <2>1. LoopTypes' /\ wpc' = "off" /\ phase' = "idle" /\ out' = NoEvent
    BY <1>c, <1>12, GoneTypes DEF Seal
  <2>2. CountTypes'
    BY <1>0, <1>12, FailureTypes DEF Seal
  <2>3. DiskTypes'
    <3>1. status' \in RunStatus \cup {"none"}
      BY <1>a, <1>12, EndedIsNotRunning DEF Seal
    <3> QED BY <1>a, <1>12, <3>1 DEF Seal, DiskTypes
  <2> QED BY <1>e, <2>1, <2>2, <2>3 DEF WrapperTypes
<1>13. CASE Crash
  <2>1. LoopTypes' /\ wpc' = "off" /\ phase' = "idle" /\ out' = NoEvent
    BY <1>c, <1>13, GoneTypes DEF Crash, LoseGenerator
  <2>2. CountTypes'
    BY <1>0, <1>13, FailureTypes DEF Crash
  <2>3. log' \in LogFile
    <3>1. CASE wpc = "pull" /\ out # NoEvent
      BY <1>a, <1>b, <1>c, <1>13, <3>1, WrittenTyped DEF Crash
    <3> QED BY <1>a, <1>13, <3>1 DEF Crash
  <2>4. DiskTypes'
    BY <1>a, <1>13, <2>3 DEF Crash, DiskTypes
  <2> QED BY <1>e, <2>1, <2>2, <2>4 DEF WrapperTypes
<1>14. ASSUME NEW events \in Seq(Event), wpc = "off", RestartFrom(events), branched' \in BOOLEAN
       PROVE  StoreTypes'
  <2>1. messages' \in Seq(Message)
    BY <1>14, RebuildTyped DEF RestartFrom
  <2>2. LoopTypes'
    BY <1>0, <1>14, <2>1 DEF RestartFrom, LoopTypes
  <2>3. DiskTypes' /\ WrapperTypes'
    BY <1>0, <1>14, DiskTypesStay DEF RestartFrom, WrapperTypes
  <2>4. resumes' \in 0..MaxResumes /\ resumes' # 0
    BY <1>0, <1>14, BoundsAreNat DEF RestartFrom, CountTypes
  <2>5. UNCHANGED <<faults, lost>> /\ faults \in 0..MaxFailures /\ lost \in 0..(MaxFailures - faults)
    BY <1>0, <1>14 DEF RestartFrom, CountTypes
  <2>6. CountTypes'
    BY <1>14, <2>4, <2>5 DEF CountTypes
  <2> QED BY <1>e, <2>2, <2>3, <2>6
<1>15. CASE Resume
  <2>1. branched' \in BOOLEAN
    BY <1>0, <1>15 DEF Resume, CountTypes
  <2> QED BY <1>d, <1>14, <1>15, <2>1 DEF Resume
<1>16. ASSUME NEW t \in Checkpoints, ResumeFromCheckpoint(t) PROVE StoreTypes'
  <2>1. branched' \in BOOLEAN
    BY <1>0, <1>16 DEF ResumeFromCheckpoint, CountTypes
  <2>2. Cutoff(Readback, t) \in 0..Len(Readback)
    BY <1>d, CutoffWithin
  <2>3. SubSeq(Readback, 1, Cutoff(Readback, t)) \in Seq(Event)
    BY <1>d, <2>2
  <2> QED BY <1>14, <1>16, <2>1, <2>3 DEF ResumeFromCheckpoint
<1>17. CASE UNCHANGED vars
  BY <1>e, <1>0, <1>17, LoopTypesStay, FailureTypes, DiskTypesStay DEF vars, WrapperTypes
<1> QED
  BY <1>1, <1>2, <1>3, <1>4, <1>5, <1>6, <1>7, <1>8, <1>9, <1>10, <1>11, <1>12, <1>13,
     <1>15, <1>16, <1>17 DEF Next

\* Every variable keeps its type: in particular run.json never holds anything
\* but a RunStatus, and what a resume starts from is a history.
THEOREM RunStoreTypeCorrect == Spec => []TypeOK
<1>1. StoreTypes => TypeOK
  BY DEF StoreTypes
<1> QED BY <1>1, StoreTypesInit, StoreTypesStep, PTL DEF Spec

------------------------------------------------------------------------------
(* Sealed checkpoints                                                        *)

\* The log changes by the write of the event under way only.
LEMMA LogSteps ==
  ASSUME StoreTypes, [Next]_vars
  PROVE  \/ log' = log
         \/ /\ wpc = "pull" /\ out # NoEvent /\ out \in Event
            /\ \E extent \in Extent : log' = Written(log, out, extent)
<1>1. out \in Event \cup {NoEvent} /\ "all" \in Extent /\ Tears \subseteq Extent
  BY TearsAreExtents DEF StoreTypes, TypeOK, Extent
<1> USE DEF diskVars, loopVars
<1>2. CASE AppendEvent \/ AppendFails \/ Crash
  BY <1>1, <1>2 DEF AppendEvent, AppendFails, Crash
<1>3. CASE UNCHANGED vars
  BY <1>3 DEF vars
<1>4. CASE \/ Open \/ OpenFails \/ Inner \/ Complained \/ AuditAppend \/ Deliver
           \/ CallerReturns \/ CallerAbandons \/ InnerDone \/ Seal \/ Resume
           \/ \E t \in Checkpoints : ResumeFromCheckpoint(t)
  BY <1>4 DEF Open, OpenFails, Inner, Complained, AuditAppend, Deliver, CallerReturns,
     CallerAbandons, InnerDone, Seal, Resume, ResumeFromCheckpoint, RestartFrom
<1> QED BY <1>2, <1>3, <1>4 DEF Next

\* A write changes no checkpoint that a later turn has sealed.
LEMMA WrittenKeepsSealed ==
  ASSUME NEW l \in LogFile, NEW e \in Event, NEW extent \in Extent, NEW t,
         Sealed(Events(l), t)
  PROVE  Checkpoint(Events(Written(l, e, extent)), t) = Checkpoint(Events(l), t)
<1> DEFINE before == Events(l)
           after  == Events(Written(l, e, extent))
<1>1. before \in Seq(Event) /\ after \in Seq(Event)
  BY EventsTyped, WrittenTyped
<1>2. StartsAfter(before, t) # {}
  BY DEF Sealed
<1>3. \/ after = before \/ after = Append(before, e)
      \/ \E x \in Event : before = Append(after, x)
  BY WrittenAtEnd
<1> HIDE DEF before, after
<1>4. ASSUME after = Append(before, e)
      PROVE  Checkpoint(after, t) = Checkpoint(before, t)
  BY <1>1, <1>2, <1>4, CutoffStays
<1>5. ASSUME NEW x \in Event, before = Append(after, x)
      PROVE  Checkpoint(after, t) = Checkpoint(before, t)
  BY <1>1, <1>2, <1>5, CheckpointStays
<1>6. Checkpoint(after, t) = Checkpoint(before, t)
  BY <1>3, <1>4, <1>5
<1> QED BY <1>6 DEF before, after

\* However the writes end, torn lines and swallowed ones included, and whoever
\* appends: once a turn is followed by another in the log, what a resume from
\* its checkpoint rebuilds never changes.
THEOREM SealedCheckpointsAreFixtures == Spec => SealedCheckpointIsStable
<1>1. ASSUME StoreTypes, [Next]_vars, log' # log
      PROVE  \A t \in 1..maxTurns : Sealed(Readback, t) =>
               Checkpoint(Events(log'), t) = Checkpoint(Readback, t)
  <2>1. log \in LogFile
    BY <1>1, TypesSplit DEF DiskTypes
  <2>2. PICK extent \in Extent : out \in Event /\ log' = Written(log, out, extent)
    BY <1>1, LogSteps
  <2> QED BY <2>1, <2>2, WrittenKeepsSealed DEF Readback
<1>2. StoreTypes /\ [Next]_vars =>
        [log' # log =>
           LET before == Readback
               after  == Events(log')
           IN  \A t \in 1..maxTurns :
                 Sealed(before, t) => Checkpoint(after, t) = Checkpoint(before, t)]_vars
  BY <1>1
<1> QED BY <1>2, StoreTypesInit, StoreTypesStep, PTL DEF Spec, SealedCheckpointIsStable

------------------------------------------------------------------------------
(* Whole lines                                                               *)

\* No append stops inside a line: it reaches the file, newline and all, or not
\* at all.
WholeLines == Tears \subseteq {"none", "all"}

CutInv == WholeLines => ~log.cut

\* Then a step that touches the log puts the event under way behind the others,
\* and no event counts as acknowledged that was not put there.
LEMMA WholeSteps ==
  ASSUME StoreTypes, CutInv, WholeLines, [Next]_vars
  PROVE  \/ log' = log /\ acked' = acked
         \/ /\ out \in Event /\ ~log'.cut
            /\ wpc = "pull" /\ out # NoEvent
            /\ log'.lines = Append(log.lines, out)
            /\ Readback' = Append(Readback, out)
            /\ acked' \in {acked, Append(acked, out)}
<1>1. out \in Event \cup {NoEvent} /\ log \in LogFile /\ ~log.cut
  BY TypesSplit DEF LoopTypes, DiskTypes, CutInv
<1> USE DEF diskVars, loopVars, pastVars
<1>2. ASSUME wpc = "pull", out # NoEvent, log' = Written(log, out, "all"),
             acked' \in {acked, Append(acked, out)}
      PROVE  /\ out \in Event /\ ~log'.cut
             /\ wpc = "pull" /\ out # NoEvent
             /\ log'.lines = Append(log.lines, out)
             /\ Readback' = Append(Readback, out)
             /\ acked' \in {acked, Append(acked, out)}
  <2>1. out \in Event
    BY <1>1, <1>2
  <2>2. /\ log'.lines = Append(log.lines, out)
        /\ Events(log') = Append(Events(log), out)
    BY <1>1, <1>2, <2>1, WrittenBehind DEF Extent
  <2>3. ~log'.cut
    BY <1>2 DEF Written
  <2> QED BY <1>2, <2>1, <2>2, <2>3 DEF Readback
<1>3. Written(log, out, "none") = log
  BY DEF Written
<1>4. CASE AppendEvent
  BY <1>2, <1>4 DEF AppendEvent
<1>5. CASE AppendFails
  <2>1. PICK extent \in Tears : log' = Written(log, out, extent)
    BY <1>5 DEF AppendFails
  <2>2. extent = "none" \/ extent = "all"
    BY DEF WholeLines
  <2> QED BY <1>2, <1>3, <1>5, <2>1, <2>2 DEF AppendFails
<1>6. CASE Crash
  <2>1. CASE wpc = "pull" /\ out # NoEvent
    <3>1. PICK extent \in Tears \cup {"all"} : log' = Written(log, out, extent)
      BY <1>6, <2>1 DEF Crash
    <3>2. extent = "none" \/ extent = "all"
      BY DEF WholeLines
    <3> QED BY <1>2, <1>3, <1>6, <2>1, <3>1, <3>2 DEF Crash
  <2> QED BY <1>6, <2>1 DEF Crash
<1>7. CASE \/ Open \/ OpenFails \/ Inner \/ Complained \/ AuditAppend \/ Deliver
           \/ CallerReturns \/ CallerAbandons \/ InnerDone \/ Seal \/ Resume
           \/ \E t \in Checkpoints : ResumeFromCheckpoint(t)
  BY <1>7 DEF Open, OpenFails, Inner, Complained, AuditAppend, Deliver, CallerReturns,
     CallerAbandons, InnerDone, Seal, Resume, ResumeFromCheckpoint, RestartFrom
<1>8. CASE UNCHANGED vars
  BY <1>8 DEF vars
<1> QED BY <1>4, <1>5, <1>6, <1>7, <1>8 DEF Next

\* What was acknowledged can be read in what is read back.
AckedInv == WholeLines => Within(acked, Readback)

\* Nothing is read back from an empty log.
LEMMA EmptyReadback == Init => Readback = <<>> /\ log.lines = <<>> /\ ~log.cut
BY OnlyEmpty DEF Init, Readback, Events, EmptyLog

\* At first nothing is acknowledged.
LEMMA AckedInit == Init => CutInv /\ AckedInv
<1>1. <<>> \in Seq(Event)
  OBVIOUS
<1> QED BY <1>1, WithinSelf, EmptyReadback DEF Init, CutInv, AckedInv

\* Every step keeps it.
LEMMA AckedStep ==
  ASSUME StoreTypes, CutInv, AckedInv, [Next]_vars
  PROVE  CutInv' /\ AckedInv'
<1> SUFFICES ASSUME WholeLines PROVE ~log'.cut /\ Within(acked', Readback')
  BY DEF CutInv, AckedInv, WholeLines
<1>0. log \in LogFile /\ acked \in Seq(Event) /\ ~log.cut /\ Within(acked, Readback)
  BY TypesSplit DEF DiskTypes, CutInv, AckedInv
<1>1. Readback \in Seq(Event)
  BY <1>0, EventsTyped DEF Readback
<1>2. CASE log' = log /\ acked' = acked
  BY <1>0, <1>2 DEF Readback
<1>3. CASE /\ out \in Event /\ ~log'.cut
           /\ Readback' = Append(Readback, out)
           /\ acked' \in {acked, Append(acked, out)}
  BY <1>0, <1>1, <1>3, WithinBoth, WithinLonger
<1> QED BY <1>2, <1>3, WholeSteps

\* However many loops, crashes, failures and resumes: as long as no append stops
\* inside a line, every event whose append was acknowledged is read back, in order.
THEOREM AckedAreReadBack == ASSUME WholeLines PROVE Spec => []AckedEventsReadBack
<1> DEFINE IInv == StoreTypes /\ CutInv /\ AckedInv
<1>1. Init => IInv
  BY StoreTypesInit, AckedInit
<1>2. IInv /\ [Next]_vars => IInv'
  BY StoreTypesStep, AckedStep
<1>3. IInv => AckedEventsReadBack
  BY DEF AckedInv, AckedEventsReadBack
<1> QED BY <1>1, <1>2, <1>3, PTL DEF Spec

------------------------------------------------------------------------------
(* The audit chain                                                           *)

\* What a log has that is audited.
Due(l) == Only(l.lines, Audited)

\* The log ends with e, audited, and the chain follows what stands before it.
Behind(l, chain, e, ahead, apart) ==
  \E d \in Seq(Event) : Due(l) = Append(d, e) /\ Follows(chain, d, ahead, apart)

\* The audit chain follows what is due.  While an event is in hand that the chain
\* will get, either the log has it already, or its append failed and the chain may
\* yet lead by one more.
Chained(ahead, apart) ==
  /\ wpc = "audit" =>
       \/ Behind(log, audit, out, ahead, apart)
       \/ Follows(audit, Due(log), ahead - 1, apart - 1)
  /\ wpc = "complain" =>
       \/ shouldAudit(out) /\ Behind(log, audit, out, ahead, apart - 1)
       \/ Follows(audit, Due(log), ahead - 1, apart - 1)
  /\ wpc \notin {"audit", "complain"} => Follows(audit, Due(log), ahead, apart)

AuditInv == WholeLines => Chained(faults, faults + lost)

\* What is due is a sequence of events.
LEMMA DueTyped == ASSUME NEW l \in LogFile PROVE Due(l) \in Seq(Event)
<1>1. l.lines \in Seq(Line)
  BY DEF LogFile
<1>2. Due(l) \in Seq(Audited)
  BY <1>1, OnlyTyped DEF Due
<1> QED BY <1>2 DEF Audited

\* The chain follows the log and its last event when it follows what is before it.
LEMMA BehindFollows ==
  ASSUME NEW l, NEW chain \in Seq(Event), NEW e \in Event, NEW m \in Int, NEW w \in Int,
         Behind(l, chain, e, m, w)
  PROVE  /\ Follows(chain, Due(l), m, w + 1)
         /\ Follows(Append(chain, e), Due(l), m, w)
<1>1. PICK d \in Seq(Event) : Due(l) = Append(d, e) /\ Follows(chain, d, m, w)
  BY DEF Behind
<1>2. Follows(chain, Append(d, e), m, w + 1)
  BY <1>1, FollowsLonger
<1>3. Follows(Append(chain, e), Append(d, e), m, w)
  BY <1>1, FollowsBoth
<1> QED BY <1>1, <1>2, <1>3

\* The types these proofs use.
LEMMA AuditTypes ==
  ASSUME StoreTypes
  PROVE  /\ faults \in Nat /\ lost \in Nat /\ audit \in Seq(Event)
         /\ log \in LogFile /\ Due(log) \in Seq(Event)
         /\ out \in Event \cup {NoEvent}
         /\ wpc \in {"complain", "audit", "auditComplain", "deliver"} => out \in Event
         /\ wpc = "audit" => shouldAudit(out)
<1>1. /\ faults \in Nat /\ lost \in Nat /\ audit \in Seq(Event)
      /\ log \in LogFile /\ out \in Event \cup {NoEvent}
      /\ wpc \in {"complain", "audit", "auditComplain", "deliver"} => out # NoEvent
      /\ wpc = "audit" => shouldAudit(out)
  BY TypesSplit, BoundsAreNat DEF LoopTypes, DiskTypes, CountTypes, WrapperTypes
<1> QED BY <1>1, DueTyped

\* Wherever the wrapper is, the chain follows the log within what failed, and the
\* event in flight.
LEMMA AuditSlack ==
  ASSUME WholeLines, StoreTypes, AuditInv
  PROVE  Follows(audit, Due(log), faults, faults + lost + (IF wpc = "audit" THEN 1 ELSE 0))
<1>0. /\ faults \in Nat /\ lost \in Nat /\ audit \in Seq(Event)
      /\ log \in LogFile /\ Due(log) \in Seq(Event)
      /\ wpc \in {"complain", "audit"} => out \in Event
  BY AuditTypes
<1> DEFINE x == faults + lost
           more == IF wpc = "audit" THEN 1 ELSE 0
<1>1. /\ x \in Int /\ more \in Int /\ 0 <= more /\ faults - 1 \in Int /\ x - 1 \in Int
      /\ faults - 1 <= faults /\ x - 1 <= x + more /\ x <= x + more /\ (x - 1) + 1 = x
      /\ x + 1 \in Int /\ x + more \in Int
  BY <1>0
<1>2. wpc = "audit" => more = 1
  OBVIOUS
<1>3. Chained(faults, x)
  BY DEF AuditInv
<1> HIDE DEF x, more
<1>4. CASE wpc = "audit" /\ Behind(log, audit, out, faults, x)
  <2>1. Follows(audit, Due(log), faults, x + more)
    BY <1>0, <1>1, <1>2, <1>4, BehindFollows
  <2> QED BY <2>1 DEF x, more
<1>5. CASE wpc = "complain" /\ Behind(log, audit, out, faults, x - 1)
  <2>1. Follows(audit, Due(log), faults, (x - 1) + 1)
    BY <1>0, <1>1, <1>5, BehindFollows
  <2> QED BY <1>0, <1>1, <2>1, FollowsLoosely DEF x, more
<1>6. CASE Follows(audit, Due(log), faults - 1, x - 1)
  <2>1. Follows(audit, Due(log), faults, x + more)
    BY <1>0, <1>1, <1>6, FollowsLoosely
  <2> QED BY <2>1 DEF x, more
<1>7. CASE Follows(audit, Due(log), faults, x)
  <2>1. Follows(audit, Due(log), faults, x + more)
    BY <1>0, <1>1, <1>7, FollowsLoosely
  <2> QED BY <2>1 DEF x, more
<1>8. \/ wpc = "audit" /\ Behind(log, audit, out, faults, x)
      \/ wpc = "complain" /\ Behind(log, audit, out, faults, x - 1)
      \/ Follows(audit, Due(log), faults - 1, x - 1)
      \/ Follows(audit, Due(log), faults, x)
  BY <1>3, Zenon DEF Chained
<1> QED BY <1>4, <1>5, <1>6, <1>7, <1>8

\* At first nothing is due.
LEMMA AuditInit == Init => AuditInv
<1> SUFFICES ASSUME Init PROVE AuditInv
  OBVIOUS
<1>1. Due(log) = <<>>
  BY EmptyReadback, OnlyEmpty DEF Due
<1>2. wpc = "open" /\ audit = <<>> /\ lost = 0 /\ faults = 0
  BY DEF Init
<1>3. <<>> \in Parts(<<>>) /\ Len(<<>>) = 0
  BY PartsEmpty
<1>4. Follows(<<>>, <<>>, 0, 0 + 0)
  BY <1>3 DEF Follows
<1> QED BY <1>1, <1>2, <1>4 DEF AuditInv, Chained

\* The event an append put in the file is due when it is audited.
LEMMA AppendedIsDue ==
  ASSUME NEW l \in LogFile, NEW m, NEW e \in Event, m.lines = Append(l.lines, e)
  PROVE  Due(m) = IF shouldAudit(e) THEN Append(Due(l), e) ELSE Due(l)
<1>1. l.lines \in Seq(Line) /\ e \in Line
  BY DEF LogFile, Line
<1>2. e \in Audited <=> shouldAudit(e)
  BY DEF Audited
<1>3. Only(Append(l.lines, e), Audited)
        = IF e \in Audited THEN Append(Only(l.lines, Audited), e) ELSE Only(l.lines, Audited)
  BY <1>1, OnlyAppend
<1> QED BY <1>2, <1>3 DEF Due

\* A step counts at most one failed call and one lost generator.
LEMMA StepCounts ==
  ASSUME [Next]_vars
  PROVE  /\ faults' = faults \/ Fault
         /\ lost' \in {lost, lost + 1}
<1> USE DEF diskVars, loopVars, pastVars
<1>1. CASE OpenFails \/ AppendFails \/ AuditAppend \/ Seal
  BY <1>1 DEF OpenFails, AppendFails, AuditAppend, Seal
<1>2. CASE \/ Open \/ Inner \/ AppendEvent \/ Complained \/ Deliver \/ CallerReturns
           \/ CallerAbandons \/ InnerDone \/ Crash \/ Resume
           \/ \E t \in Checkpoints : ResumeFromCheckpoint(t)
  BY <1>2 DEF Open, Inner, AppendEvent, Complained, Deliver, CallerReturns, CallerAbandons,
     InnerDone, Crash, Resume, ResumeFromCheckpoint, RestartFrom, LoseGenerator
<1>3. CASE UNCHANGED vars
  BY <1>3 DEF vars
<1> QED BY <1>1, <1>2, <1>3 DEF Next

\* A step that leaves the log and the chain alone, from where nothing is in hand
\* that the chain will get to where nothing is, keeps it.
LEMMA AuditAtRest ==
  ASSUME WholeLines, StoreTypes, AuditInv, UNCHANGED <<log, audit>>,
         faults' \in {faults, faults + 1}, lost' \in {lost, lost + 1},
         wpc = "audit" => lost' = lost + 1 \/ faults' = faults + 1,
         wpc' \notin {"audit", "complain"}
  PROVE  AuditInv'
<1> DEFINE b == IF wpc = "audit" THEN 1 ELSE 0
           f == faults'
           g == lost'
<1>0. faults \in Nat /\ lost \in Nat /\ audit \in Seq(Event) /\ Due(log) \in Seq(Event)
  BY AuditTypes
<1>1. Follows(audit, Due(log), faults, faults + lost + b)
  BY AuditSlack
<1>2. f \in {faults, faults + 1} /\ g \in {lost, lost + 1}
        /\ (b = 0 \/ (b = 1 /\ (g = lost + 1 \/ f = faults + 1)))
  OBVIOUS
<1> HIDE DEF b, f, g
<1>3. /\ f \in Int /\ f + g \in Int /\ faults + lost + b \in Int
      /\ faults <= f /\ faults + lost + b <= f + g
  BY <1>0, <1>2
<1>4. Follows(audit, Due(log), f, f + g)
  BY <1>0, <1>1, <1>3, FollowsLoosely
<1>5. Follows(audit', Due(log'), faults', faults' + lost')
  BY <1>4 DEF f, g
<1> QED BY <1>5 DEF AuditInv, Chained

\* Every step keeps it.
LEMMA AuditStep ==
  ASSUME StoreTypes, CutInv, AuditInv, [Next]_vars
  PROVE  AuditInv'
<1> SUFFICES ASSUME WholeLines PROVE AuditInv'
  BY DEF AuditInv, WholeLines
<1>0. /\ faults \in Nat /\ lost \in Nat /\ audit \in Seq(Event)
      /\ log \in LogFile /\ Due(log) \in Seq(Event) /\ out \in Event \cup {NoEvent}
      /\ wpc \in {"complain", "audit", "auditComplain", "deliver"} => out \in Event
      /\ wpc = "audit" => shouldAudit(out)
  BY AuditTypes
<1>c. faults' \in {faults, faults + 1} /\ lost' \in {lost, lost + 1}
  BY StepCounts DEF Fault
<1> DEFINE x == faults + lost
<1>n. /\ faults \in Int /\ x \in Int /\ faults - 1 \in Int /\ x - 1 \in Int
      /\ x + 1 \in Int /\ (faults - 1) + 1 = faults /\ (x - 1) + 1 = x
      /\ faults - 1 <= faults /\ x - 1 <= x /\ faults <= faults
  BY <1>0
<1>e. Chained(faults, x)
  BY DEF AuditInv
<1> HIDE DEF x
<1>b. /\ wpc = "audit" =>
           \/ Behind(log, audit, out, faults, x)
           \/ Follows(audit, Due(log), faults - 1, x - 1)
      /\ wpc = "complain" =>
           \/ shouldAudit(out) /\ Behind(log, audit, out, faults, x - 1)
           \/ Follows(audit, Due(log), faults - 1, x - 1)
      /\ wpc \notin {"audit", "complain"} => Follows(audit, Due(log), faults, x)
  BY <1>e, Zenon DEF Chained
<1> USE DEF diskVars, loopVars, pastVars
<1>1. CASE AppendEvent
  <2>1. log'.lines = Append(log.lines, out) /\ out \in Event
    BY <1>0, <1>1, WrittenBehind DEF AppendEvent, Extent, CutInv
  <2>2. Due(log') = IF shouldAudit(out) THEN Append(Due(log), out) ELSE Due(log)
    BY <1>0, <2>1, AppendedIsDue
  <2>3. /\ UNCHANGED <<audit, faults, lost, out>>
        /\ wpc' = IF shouldAudit(out) THEN "audit" ELSE "deliver"
    BY <1>1 DEF AppendEvent, AfterAppend
  <2>4. Follows(audit, Due(log), faults, x)
    BY <1>1, <1>b DEF AppendEvent
  <2>5. CASE shouldAudit(out)
    <3>1. Behind(log', audit, out, faults, x)
      BY <1>0, <2>2, <2>4, <2>5 DEF Behind
    <3> QED BY <2>3, <2>5, <3>1 DEF AuditInv, Chained, x
  <2>6. CASE ~shouldAudit(out)
    BY <2>2, <2>3, <2>4, <2>6 DEF AuditInv, Chained, x
  <2> QED BY <2>5, <2>6
<1>2. CASE AppendFails
  <2>1. /\ wpc = "pull" /\ out \in Event /\ wpc' = "complain"
        /\ faults' = faults + 1 /\ UNCHANGED <<audit, lost, out>>
    BY <1>0, <1>2 DEF AppendFails, Fault
  <2>2. Follows(audit, Due(log), faults, x)
    BY <1>b, <2>1
  <2>3. log' = log \/ log'.lines = Append(log.lines, out)
    BY WholeSteps
  <2>n. /\ faults' - 1 = faults /\ (faults' + lost') - 1 = x
        /\ faults + 1 \in Int /\ faults <= faults + 1 /\ x <= x
    BY <1>0, <2>1 DEF x
  <2>4. CASE Due(log') = Due(log)
    <3>1. Follows(audit', Due(log'), faults' - 1, (faults' + lost') - 1)
      BY <2>1, <2>2, <2>4, <2>n
    <3> QED BY <2>1, <3>1 DEF AuditInv, Chained
  <2>5. CASE log'.lines = Append(log.lines, out) /\ shouldAudit(out)
    <3>1. Due(log') = Append(Due(log), out)
      BY <1>0, <2>1, <2>5, AppendedIsDue
    <3>2. Follows(audit, Due(log), faults + 1, x)
      BY <1>0, <1>n, <2>2, <2>n, FollowsLoosely
    <3>3. Behind(log', audit, out, faults + 1, x)
      BY <1>0, <3>1, <3>2 DEF Behind
    <3>4. Behind(log', audit', out', faults', (faults' + lost') - 1)
      BY <2>1, <2>n, <3>3
    <3> QED BY <2>1, <2>5, <3>4 DEF AuditInv, Chained
  <2>6. log'.lines = Append(log.lines, out) /\ ~shouldAudit(out) => Due(log') = Due(log)
    BY <1>0, <2>1, AppendedIsDue
  <2> QED BY <2>3, <2>4, <2>5, <2>6
<1>3. CASE Complained /\ wpc = "complain"
  <2>1. /\ UNCHANGED <<log, audit, faults, lost, out>> /\ out \in Event
        /\ wpc' = IF shouldAudit(out) THEN "audit" ELSE "deliver"
    BY <1>0, <1>3 DEF Complained, AfterAppend
  <2>2. CASE ~shouldAudit(out)
    <3>1. Follows(audit, Due(log), faults - 1, x - 1)
      BY <1>3, <1>b, <2>2
    <3>2. Follows(audit, Due(log), faults, x)
      BY <1>0, <1>n, <3>1, FollowsLoosely
    <3> QED BY <2>1, <2>2, <3>2 DEF AuditInv, Chained, x
  <2>3. CASE shouldAudit(out) /\ Behind(log, audit, out, faults, x - 1)
    <3>1. PICK d \in Seq(Event) : Due(log) = Append(d, out) /\ Follows(audit, d, faults, x - 1)
      BY <2>3 DEF Behind
    <3>2. Follows(audit, d, faults, x)
      BY <1>0, <1>n, <3>1, FollowsLoosely
    <3>3. Behind(log, audit, out, faults, x)
      BY <3>1, <3>2 DEF Behind
    <3> QED BY <2>1, <2>3, <3>3 DEF AuditInv, Chained, x
  <2>4. CASE shouldAudit(out) /\ Follows(audit, Due(log), faults - 1, x - 1)
    BY <2>1, <2>4 DEF AuditInv, Chained, x
  <2> QED BY <1>3, <1>b, <2>2, <2>3, <2>4
<1>4. CASE AuditAppend
  <2>1. /\ wpc = "audit" /\ out \in Event /\ UNCHANGED <<log, lost, out>>
        /\ wpc' \in {"deliver", "auditComplain"}
    BY <1>0, <1>4 DEF AuditAppend
  <2>2. CASE audit' = Append(audit, out) /\ faults' = faults
    <3>1. CASE Behind(log, audit, out, faults, x)
      <4>1. Follows(Append(audit, out), Due(log), faults, x)
        BY <1>0, <1>n, <2>1, <3>1, BehindFollows
      <4> QED BY <2>1, <2>2, <4>1 DEF AuditInv, Chained, x
    <3>2. CASE Follows(audit, Due(log), faults - 1, x - 1)
      <4>1. Follows(Append(audit, out), Due(log), (faults - 1) + 1, (x - 1) + 1)
        BY <1>0, <1>n, <2>1, <3>2, FollowsAhead
      <4>2. Follows(Append(audit, out), Due(log), faults, x)
        BY <1>n, <4>1
      <4> QED BY <2>1, <2>2, <4>2 DEF AuditInv, Chained, x
    <3> QED BY <1>b, <2>1, <3>1, <3>2
  <2>3. CASE audit' = audit /\ faults' = faults + 1
    BY <1>c, <2>1, <2>3, AuditAtRest
  <2> QED BY <1>4, <2>2, <2>3 DEF AuditAppend, Fault
<1>5. CASE Crash
  <2>1. wpc' = "off" /\ lost' = lost + 1 /\ UNCHANGED <<audit, faults>>
    BY <1>5 DEF Crash, LoseGenerator, Gone
  <2>2. CASE log' = log
    BY <1>c, <2>1, <2>2, AuditAtRest
  <2>3. CASE log'.lines = Append(log.lines, out) /\ wpc = "pull" /\ out \in Event
    <3>1. Follows(audit, Due(log), faults, x)
      BY <1>b, <2>3
    <3>2. Due(log') \in {Due(log), Append(Due(log), out)}
      BY <1>0, <2>3, AppendedIsDue
    <3>3. /\ Follows(audit, Due(log), faults, x + 1)
          /\ Follows(audit, Append(Due(log), out), faults, x + 1)
      <4>1. x <= x + 1
        BY <1>n
      <4> QED BY <1>0, <1>n, <2>3, <3>1, <4>1, FollowsLoosely, FollowsLonger
    <3>4. faults' + lost' = x + 1
      BY <1>0, <2>1 DEF x
    <3>5. Follows(audit', Due(log'), faults', faults' + lost')
      BY <2>1, <3>2, <3>3, <3>4
    <3> QED BY <2>1, <3>5 DEF AuditInv, Chained
  <2> QED BY <1>5, <2>2, <2>3, WholeSteps
<1>6. CASE \/ Open \/ OpenFails \/ Inner \/ (Complained /\ wpc # "complain") \/ Deliver
           \/ CallerReturns \/ CallerAbandons \/ InnerDone \/ Seal \/ Resume
           \/ \E t \in Checkpoints : ResumeFromCheckpoint(t)
  <2>1. wpc # "audit" /\ wpc' \notin {"audit", "complain"} /\ UNCHANGED <<log, audit>>
    BY <1>6 DEF Open, OpenFails, Inner, Complained, Deliver, CallerReturns, CallerAbandons,
       InnerDone, Yielding, LoseGenerator, Seal, Gone, Resume, ResumeFromCheckpoint, RestartFrom
  <2> QED BY <1>c, <2>1, AuditAtRest
<1>7. CASE UNCHANGED vars
  <2>1. Chained(faults, faults + lost)'
    BY <1>e, <1>7 DEF vars, Chained, x
  <2> QED BY <2>1 DEF AuditInv
<1> QED BY <1>1, <1>2, <1>3, <1>4, <1>5, <1>6, <1>7 DEF Next

\* However many loops, crashes, failed calls and resumes: as long as no append
\* stops inside a line, the audit chain follows the log in its order, leads it by
\* one event per failed call at most, and differs from it by one per failed call,
\* one per lost generator and the event in flight.
THEOREM AuditFollowsForAll == ASSUME WholeLines PROVE Spec => []AuditFollowsTheLog
<1> DEFINE IInv == StoreTypes /\ CutInv /\ AckedInv /\ AuditInv
<1>1. Init => IInv
  BY StoreTypesInit, AckedInit, AuditInit
<1>2. IInv /\ [Next]_vars => IInv'
  BY StoreTypesStep, AckedStep, AuditStep
<1>3. IInv => AuditFollowsTheLog
  BY AuditSlack DEF AuditFollowsTheLog, Due
<1> QED BY <1>1, <1>2, <1>3, PTL DEF Spec

------------------------------------------------------------------------------
(* What the log tells of the history                                         *)

\* A generator at work, in a run whose log is known to tell all of its history.
Working == wpc \notin {"off", "seal"}
Tracked == faults = 0 /\ ~branched /\ (WholeLines \/ resumes = 0)

\* What the log tells, the event under way included.
Told ==
  IF wpc = "pull" /\ out # NoEvent THEN FoldEvent(Replay(Readback), out)
  ELSE Replay(Readback)

\* That is the history as the loop has it, whatever phase it is in: the results
\* given so far wait in pending until the turn is done.
Matches(acc) ==
  /\ phase = "idle" => Flush(acc).messages = Logged(messages)
  /\ phase \in {"requested", "answered", "tools"} => acc.messages = Logged(messages)
  /\ phase = "requested" => acc.pending = <<>>
  /\ phase \in {"answered", "tools"} => acc.pending = SubSeq(uses, 1, answered)

MatchInv == Tracked /\ Working => ~log.cut /\ Matches(Told)

\* A message is logged behind the others, unless it is the prompt.
LEMMA LoggedAppend ==
  ASSUME NEW msgs \in Seq(Message), NEW m \in Message
  PROVE  /\ Logged(msgs) \in Seq(Message \ {Prompt})
         /\ m # Prompt => Logged(Append(msgs, m)) = Append(Logged(msgs), m)
<1> DEFINE told == Message \ {Prompt}
<1>1. Only(msgs, told) \in Seq(told)
  BY OnlyTyped
<1>2. Only(Append(msgs, m), told)
        = IF m \in told THEN Append(Only(msgs, told), m) ELSE Only(msgs, told)
  <2> HIDE DEF told
  <2> QED BY OnlyAppend
<1> QED BY <1>1, <1>2 DEF Logged

\* The messages a loop adds are none of them the prompt.
LEMMA NoPrompt ==
  ASSUME NEW ids \in Seq(Nat)
  PROVE  /\ AssistantMessage(ids) \in Message /\ AssistantMessage(ids) # Prompt
         /\ ToolResultMessage(ids) \in Message
         /\ ids # <<>> => ToolResultMessage(ids) # Prompt
BY DEF AssistantMessage, ToolResultMessage, Message, Prompt

\* At first neither the log nor the history tells anything.
LEMMA LoggedInit == Init => Logged(messages) = <<>>
<1> SUFFICES ASSUME Init PROVE Logged(messages) = <<>>
  OBVIOUS
<1>1. messages = <<Prompt>>
  BY SameNames DEF Init, Loop!Init
<1>2. <<>> \in Seq({Prompt}) /\ <<Prompt>> = Append(<<>>, Prompt)
  OBVIOUS
<1>3. Only(<<Prompt>>, Message \ {Prompt}) = Only(<<>>, Message \ {Prompt})
  <2> DEFINE told == Message \ {Prompt}
  <2>1. Prompt \notin told /\ Prompt \in {Prompt}
    OBVIOUS
  <2> HIDE DEF told
  <2>2. Only(Append(<<>>, Prompt), told)
          = IF Prompt \in told THEN Append(Only(<<>>, told), Prompt) ELSE Only(<<>>, told)
    BY <1>2, <2>1, OnlyAppend
  <2>3. Only(<<Prompt>>, told) = Only(<<>>, told)
    BY <1>2, <2>1, <2>2
  <2> QED BY <2>3 DEF told
<1> QED BY <1>1, <1>3, OnlyEmpty DEF Logged

\* So they agree.
LEMMA MatchInit == Init => MatchInv
<1> SUFFICES ASSUME Init PROVE ~log.cut /\ Matches(Told)
  BY DEF MatchInv
<1>1. ~log.cut /\ Readback = <<>> /\ Logged(messages) = <<>>
  BY EmptyReadback, LoggedInit
<1>2. phase = "idle" /\ wpc = "open"
  BY DEF Init, Loop!Init
<1>3. Told = Blank
  BY <1>1, <1>2, ReplayEmpty DEF Told
<1> QED BY <1>1, <1>2, <1>3 DEF Matches, Blank, Flush

\* An event that is said and not yet in the log is told; NoEvent tells nothing.
LEMMA InnerTells ==
  ASSUME StoreTypes, Inner
  PROVE  /\ Told = Replay(Readback) /\ Readback \in Seq(Event) /\ Told \in Acc
         /\ Told' = IF out' # NoEvent THEN FoldEvent(Told, out') ELSE Told
<1>1. wpc = "pull" /\ out = NoEvent /\ UNCHANGED <<wpc, log>>
  BY DEF Inner, diskVars
<1>2. log \in LogFile
  BY TypesSplit DEF DiskTypes
<1>3. Readback \in Seq(Event) /\ Readback' = Readback
  BY <1>1, <1>2, EventsTyped DEF Readback
<1> QED BY <1>1, <1>3, ReplayTyped DEF Told

\* A step of the inner generator changes the history and what is told of it alike.
LEMMA InnerMatches ==
  ASSUME StoreTypes, Inner, Matches(Told)
  PROVE  Matches(Told)'
<1> DEFINE acc == Told
<1>0. /\ acc \in Acc /\ acc.messages \in Seq(Message \ {Prompt}) /\ acc.pending \in Seq(Nat)
      /\ Told' = IF out' # NoEvent THEN FoldEvent(acc, out') ELSE acc
  BY InnerTells DEF Acc
<1>1. /\ uses \in Seq(Nat) /\ answered \in 0..Len(uses) /\ messages \in Seq(Message)
      /\ phase \in {"idle", "requested", "answered", "tools", "ending", "over"}
      /\ out = NoEvent /\ Len(uses) \in Nat
  BY TypesSplit, InnerActs DEF LoopTypes
<1>2. /\ phase = "idle" => Flush(acc).messages = Logged(messages)
      /\ phase \in {"requested", "answered", "tools"} => acc.messages = Logged(messages)
      /\ phase = "requested" => acc.pending = <<>>
      /\ phase \in {"answered", "tools"} => acc.pending = SubSeq(uses, 1, answered)
  BY DEF Matches
<1>3. \A t, ids, n : t # "none" => Ev(t, ids, n) # NoEvent
  BY DEF Ev, NoEvent
<1>a. Matches(Told)' <=>
        /\ phase' = "idle" => Flush(Told').messages = Logged(messages')
        /\ phase' \in {"requested", "answered", "tools"} => Told'.messages = Logged(messages')
        /\ phase' = "requested" => Told'.pending = <<>>
        /\ phase' \in {"answered", "tools"} => Told'.pending = SubSeq(uses', 1, answered')
  BY DEF Matches
<1> HIDE DEF acc
<1>4. CASE Begins
  <2>1. out' = Ev("stream_request_start", <<>>, turn + 1) /\ out' # NoEvent
    BY <1>3, <1>4 DEF Begins
  <2>2. Told' = Flush(acc)
    BY <1>0, <2>1 DEF FoldEvent, Ev
  <2>3. Flush(acc).pending = <<>>
    BY <1>0, FlushTyped
  <2> QED BY <1>2, <1>4, <1>a, <2>2, <2>3 DEF Begins
<1>5. ASSUME NEW new \in Seq(Nat), Answers(new) PROVE Matches(Told)'
  <2>1. out' = Ev("assistant_message", new, 0) /\ out' # NoEvent
    BY <1>3, <1>5 DEF Answers
  <2>2. Flush(acc).messages = acc.messages
    BY <1>2, <1>5 DEF Answers, Flush
  <2>3. Told' = [messages |-> Append(acc.messages, AssistantMessage(new)), pending |-> <<>>]
    BY <1>0, <2>1, <2>2 DEF FoldEvent, Ev
  <2>4. Logged(messages') = Append(Logged(messages), AssistantMessage(new))
    BY <1>1, <1>5, NoPrompt, LoggedAppend DEF Answers
  <2>5. SubSeq(new, 1, 0) = <<>>
    OBVIOUS
  <2> QED BY <1>2, <1>5, <1>a, <2>3, <2>4, <2>5 DEF Answers
<1>6. CASE Tells
  <2>1. PICK t \in {"usage_update", "started", "progress", "governance_decision", "error"},
             ids \in Seq(Nat), n \in Nat : out' = Ev(t, ids, n)
    BY <1>6 DEF Tells
  <2>2. Told' = acc
    BY <1>0, <1>3, <2>1 DEF FoldEvent, Ev
  <2>3. /\ UNCHANGED <<uses, answered, messages>>
        /\ \/ phase' \in {"tools", "ending"} /\ phase \in {"tools", "ending"} /\ phase' = phase
           \/ phase' = "tools" /\ phase = "answered"
           \/ phase' = "ending"
    BY <1>6 DEF Tells
  <2> QED BY <1>2, <1>a, <2>2, <2>3
<1>7. CASE Results
  <2>1. out' = Ev("result", <<uses[answered + 1]>>, 0) /\ out' # NoEvent
    BY <1>3, <1>7 DEF Results
  <2>2. Told' = [acc EXCEPT !.pending = acc.pending \o <<uses[answered + 1]>>]
    BY <1>0, <2>1 DEF FoldEvent, Ev
  <2>3. acc.pending = SubSeq(uses, 1, answered)
    BY <1>2, <1>7 DEF Results
  <2>4. SubSeq(uses, 1, answered) \o <<uses[answered + 1]>> = SubSeq(uses, 1, answered + 1)
    <3>1. answered \in Nat /\ answered + 1 \in 1..Len(uses)
      BY <1>1, <1>7 DEF Results
    <3> QED BY <1>1, <3>1
  <2>5. Told'.pending = SubSeq(uses, 1, answered + 1) /\ Told'.messages = acc.messages
    BY <1>0, <2>2, <2>3, <2>4 DEF Acc
  <2> QED BY <1>2, <1>7, <1>a, <2>5 DEF Results
<1>8. CASE TurnEnds
  <2>1. Told' = acc
    BY <1>0, <1>1, <1>8 DEF TurnEnds
  <2>2. acc.pending = uses /\ acc.messages = Logged(messages)
    <3>1. SubSeq(uses, 1, Len(uses)) = uses
      BY <1>1
    <3> QED BY <1>2, <1>8, <3>1 DEF TurnEnds
  <2>3. Flush(acc).messages = Append(Logged(messages), ToolResultMessage(uses))
    BY <1>8, <2>2 DEF TurnEnds, Flush
  <2>4. Logged(messages') = Append(Logged(messages), ToolResultMessage(uses))
    BY <1>1, <1>8, NoPrompt, LoggedAppend DEF TurnEnds
  <2> QED BY <1>8, <1>a, <2>1, <2>3, <2>4 DEF TurnEnds
<1>9. CASE Ends
  BY <1>9, <1>a DEF Ends
<1>10. LoopTypes
  BY TypesSplit
<1> QED BY <1>4, <1>5, <1>6, <1>7, <1>8, <1>9, <1>10, InnerActs

\* A run that is still tracked was tracked before.
LEMMA TrackedBefore ==
  ASSUME StoreTypes, [Next]_vars
  PROVE  /\ faults' = 0 => faults = 0 /\ ~Fault
         /\ resumes' = 0 => resumes = 0 /\ UNCHANGED branched
         /\ ~branched' => ~branched
<1>0. faults \in Nat /\ resumes \in Nat /\ branched \in BOOLEAN
  BY TypesSplit, BoundsAreNat DEF CountTypes
<1> USE DEF diskVars, loopVars, pastVars
<1>1. faults' = 0 => faults = 0 /\ ~Fault
  <2>1. faults' = faults \/ Fault
    BY StepCounts
  <2>2. Fault => faults' = faults + 1
    BY DEF Fault
  <2> QED BY <1>0, <2>1, <2>2
<1>2. \/ UNCHANGED <<resumes, branched>>
      \/ resumes' = resumes + 1 /\ \E b \in BOOLEAN : (branched' <=> branched \/ b)
  <2>1. CASE \/ Open \/ OpenFails \/ Inner \/ AppendEvent \/ AppendFails \/ Complained
             \/ AuditAppend \/ Deliver \/ CallerReturns \/ CallerAbandons \/ InnerDone
             \/ Seal \/ Crash
    BY <2>1 DEF Open, OpenFails, Inner, AppendEvent, AppendFails, Complained, AuditAppend,
       Deliver, CallerReturns, CallerAbandons, InnerDone, Seal, Crash
  <2>2. CASE Resume
    BY <2>2 DEF Resume, RestartFrom
  <2>3. ASSUME NEW t \in Checkpoints, ResumeFromCheckpoint(t)
        PROVE  resumes' = resumes + 1 /\ \E b \in BOOLEAN : (branched' <=> branched \/ b)
    <3>1. branched' = (branched \/ Cutoff(Readback, t) < Len(Readback))
      BY <2>3 DEF ResumeFromCheckpoint
    <3>2. resumes' = resumes + 1
      BY <2>3 DEF ResumeFromCheckpoint, RestartFrom
    <3> QED BY <3>1, <3>2
  <2>4. CASE UNCHANGED vars
    BY <2>4 DEF vars
  <2> QED BY <2>1, <2>2, <2>3, <2>4 DEF Next
<1>3. resumes' = 0 => resumes = 0 /\ UNCHANGED branched
  BY <1>0, <1>2
<1>4. ~branched' => ~branched
  BY <1>2
<1> QED BY <1>1, <1>3, <1>4

\* A step of the wrapper that leaves the loop and the log alone tells as before.
LEMMA MatchStays ==
  ASSUME Matches(Told), ~log.cut, UNCHANGED <<phase, uses, answered, messages, log>>,
         ~(wpc = "pull" /\ out # NoEvent), ~(wpc' = "pull" /\ out' # NoEvent)
  PROVE  ~log'.cut /\ Matches(Told)'
<1>1. Told' = Told
  BY DEF Told, Readback
<1> QED BY <1>1 DEF Matches

\* An append puts in the log what was told already.
LEMMA AppendTells ==
  ASSUME StoreTypes, wpc = "pull", out # NoEvent, ~log.cut,
         log' = Written(log, out, "all"), wpc' # "pull"
  PROVE  ~log'.cut /\ Readback' = Append(Readback, out) /\ Told' = Told
<1>1. log \in LogFile /\ out \in Event
  BY TypesSplit DEF DiskTypes, LoopTypes
<1>2. Readback \in Seq(Event)
  BY <1>1, EventsTyped DEF Readback
<1>3. Events(log') = Append(Events(log), out)
  BY <1>1, WrittenBehind DEF Extent
<1>4. Readback' = Append(Readback, out)
  BY <1>3 DEF Readback
<1>5. Replay(Append(Readback, out)) = FoldEvent(Replay(Readback), out)
  BY <1>1, <1>2, ReplayAppend
<1>6. ~log'.cut
  BY DEF Written
<1> QED BY <1>4, <1>5, <1>6 DEF Told

\* A loop that starts from all that can be read back has the history it tells.
LEMMA RestartMatches ==
  ASSUME StoreTypes, wpc = "off", ~log.cut, RestartFrom(Readback)
  PROVE  ~log'.cut /\ Matches(Told)'
<1>1. log \in LogFile /\ phase = "idle"
  BY TypesSplit DEF DiskTypes, WrapperTypes
<1>2. Readback \in Seq(Event)
  BY <1>1, EventsTyped DEF Readback
<1>3. /\ messages' = Rebuild(Readback) /\ wpc' = "open" /\ phase' = "idle" /\ log' = log
  BY <1>1 DEF RestartFrom, diskVars
<1>4. Told' = Replay(Readback)
  BY <1>3 DEF Told, Readback
<1>5. Logged(messages') = messages'
  <2>1. messages' \in Seq(Message \ {Prompt})
    BY <1>2, <1>3, RebuildTyped
  <2> QED BY <2>1, OnlyAll DEF Logged
<1> QED BY <1>3, <1>4, <1>5 DEF Matches, Rebuild

\* Every step keeps the log and the history together.
LEMMA MatchStep ==
  ASSUME StoreTypes, CutInv, MatchInv, [Next]_vars
  PROVE  MatchInv'
<1> SUFFICES ASSUME Tracked', Working' PROVE ~log'.cut /\ Matches(Told)'
  BY DEF MatchInv
<1>0. Tracked /\ ~Fault /\ faults' = 0 /\ (WholeLines \/ resumes' = 0) /\ ~branched'
  BY TrackedBefore DEF Tracked, WholeLines
<1>1. Working => ~log.cut /\ Matches(Told)
  BY <1>0 DEF MatchInv
<1>2. wpc' \notin {"off", "seal"}
  BY DEF Working
<1>3. wpc \in {"off", "open"} => phase = "idle" /\ out = NoEvent
  BY TypesSplit DEF WrapperTypes
<1> USE DEF diskVars, loopVars, pastVars
<1>4. CASE Open
  <2>1. /\ wpc = "open" /\ out = NoEvent /\ out' = NoEvent /\ Working
        /\ UNCHANGED <<phase, uses, answered, messages, log>>
    BY <1>3, <1>4 DEF Open, Working
  <2> QED BY <1>1, <2>1, MatchStays
<1>5. CASE Inner
  <2>1. Working /\ UNCHANGED log
    BY <1>5 DEF Inner, Working
  <2> QED BY <1>1, <1>5, <2>1, InnerMatches
<1>6. CASE AppendEvent
  <2>1. /\ Working /\ wpc = "pull" /\ out # NoEvent /\ log' = Written(log, out, "all")
        /\ wpc' # "pull" /\ UNCHANGED <<phase, uses, answered, messages>>
    BY <1>6, AfterAppendTyped DEF AppendEvent, Working
  <2>2. ~log'.cut /\ Told' = Told
    BY <1>1, <2>1, AppendTells
  <2> QED BY <1>1, <2>1, <2>2 DEF Matches
<1>7. CASE Complained \/ AuditAppend
  <2>1. /\ wpc # "pull" /\ wpc' # "pull" /\ Working
        /\ UNCHANGED <<phase, uses, answered, messages, log>>
    BY <1>0, <1>7, AfterAppendTyped DEF Complained, AuditAppend, Working
  <2> QED BY <1>1, <2>1, MatchStays
<1>8. CASE Deliver
  <2>1. /\ wpc = "deliver" /\ out' = NoEvent /\ Working
        /\ UNCHANGED <<phase, uses, answered, messages, log>>
    BY <1>8, SameNames DEF Deliver, Loop!Take, Loop!turnState, Working
  <2> QED BY <1>1, <2>1, MatchStays
<1>9. CASE OpenFails \/ CallerReturns \/ CallerAbandons \/ InnerDone \/ Seal \/ Crash
  BY <1>2, <1>9 DEF OpenFails, CallerReturns, CallerAbandons, InnerDone, Seal, Crash,
     LoseGenerator, Gone
<1>10. CASE AppendFails
  BY <1>0, <1>10 DEF AppendFails
<1>11. ASSUME resumes' = resumes + 1 PROVE ~log.cut
  <2>1. resumes' # 0
    BY <1>11, TypesSplit DEF CountTypes
  <2> QED BY <1>0, <2>1 DEF CutInv
<1>12. CASE Resume
  BY <1>11, <1>12, RestartMatches DEF Resume, RestartFrom
<1>13. ASSUME NEW t \in Checkpoints, ResumeFromCheckpoint(t)
       PROVE  ~log'.cut /\ Matches(Told)'
  <2>0. log \in LogFile
    BY TypesSplit DEF DiskTypes
  <2>1. Readback \in Seq(Event)
    BY <2>0, EventsTyped DEF Readback
  <2>2. Cutoff(Readback, t) \in 0..Len(Readback)
    BY <2>1, CutoffWithin
  <2>3. ~(Cutoff(Readback, t) < Len(Readback))
    BY <1>0, <1>13 DEF ResumeFromCheckpoint
  <2>4. Cutoff(Readback, t) = Len(Readback)
    BY <2>1, <2>2, <2>3
  <2>5. SubSeq(Readback, 1, Cutoff(Readback, t)) = Readback
    BY <2>1, <2>4
  <2>6. wpc = "off" /\ RestartFrom(Readback)
    BY <1>13, <2>5 DEF ResumeFromCheckpoint
  <2>7. resumes' = resumes + 1
    BY <2>6 DEF RestartFrom
  <2> QED BY <1>11, <2>6, <2>7, RestartMatches
<1>14. CASE UNCHANGED vars
  <2>1. Working /\ Told' = Told
    BY <1>2, <1>14 DEF Working, Told, Readback, vars
  <2> QED BY <1>1, <1>14, <2>1 DEF Matches, vars
<1> QED
  BY <1>4, <1>5, <1>6, <1>7, <1>8, <1>9, <1>10, <1>12, <1>13, <1>14 DEF Next

\* However many loops, crashes and resumes from the end of the log, and however
\* long the history: as long as no append stops inside a line and no call fails,
\* what a resume would rebuild from the log at a request is the history that
\* request is made with.
THEOREM HistoryIsLogged == ASSUME WholeLines PROVE Spec => []LiveHistoryIsLogged
<1> DEFINE IInv == StoreTypes /\ CutInv /\ AckedInv /\ MatchInv
<1>1. Init => IInv
  BY StoreTypesInit, AckedInit, MatchInit
<1>2. IInv /\ [Next]_vars => IInv'
  BY StoreTypesStep, AckedStep, MatchStep
<1>3. IInv => LiveHistoryIsLogged
  <2> SUFFICES ASSUME IInv, Requesting, faults = 0, ~branched
               PROVE  Rebuild(Readback) = Logged(messages)
    BY DEF LiveHistoryIsLogged
  <2>1. wpc = "pull" /\ phase = "requested" /\ out = NoEvent
    BY DEF Requesting
  <2>2. Matches(Told) /\ Told = Replay(Readback)
    BY <2>1 DEF MatchInv, Tracked, Working, Told
  <2> QED BY <2>1, <2>2 DEF Matches, Rebuild, Flush
<1> QED BY <1>1, <1>2, <1>3, PTL DEF Spec

------------------------------------------------------------------------------
(* Sealed checkpoints of the first loop are paired                           *)

\* The first loop's history is paired, but for the answer it is working on.
PairInv ==
  resumes = 0 /\ Working =>
    /\ phase \in {"idle", "requested"} => Paired(Logged(messages))
    /\ phase \in {"answered", "tools"} =>
         \E h \in Seq(Message) :
           Paired(h) /\ Logged(messages) = Append(h, AssistantMessage(uses))

\* So is what stands before a start of a turn in its log.
StartsInv ==
  resumes = 0 /\ faults = 0 =>
    \A i \in 1..Len(Readback) :
      Readback[i].type = "stream_request_start" =>
        Paired(Rebuild(SubSeq(Readback, 1, i - 1)))

\* An answer and the results of all its blocks keep a history paired.
LEMMA PairedTurn ==
  ASSUME NEW h \in Seq(Message), Paired(h), NEW ids \in Seq(Nat)
  PROVE  Paired(Append(Append(h, AssistantMessage(ids)), ToolResultMessage(ids)))
<1> DEFINE a == AssistantMessage(ids)
           r == ToolResultMessage(ids)
           n == Len(h)
           u == Append(Append(h, a), r)
<1>1. a \in Message /\ r \in Message
  BY NoPrompt
<1>2. /\ a.uses = ids /\ a.results = <<>> /\ r.uses = <<>> /\ r.results = ids
  BY DEF AssistantMessage, ToolResultMessage
<1> HIDE DEF a, r
<1>3. /\ n \in Nat /\ Len(u) = n + 2 /\ u[n + 1] = a /\ u[n + 2] = r
      /\ \A i \in 1..n : u[i] = h[i]
  BY <1>1
<1> HIDE DEF u
<1>4. ASSUME NEW i \in 1..Len(u) PROVE AnsweredAt(u, i)
  <2>1. CASE i < n
    <3>1. i \in 1..n /\ i + 1 \in 1..n
      BY <1>3, <2>1
    <3>2. AnsweredAt(h, i)
      BY <3>1 DEF Paired
    <3>3. u[i] = h[i] /\ u[i + 1] = h[i + 1] /\ i < Len(u)
      BY <1>3, <3>1
    <3> QED BY <2>1, <3>2, <3>3 DEF AnsweredAt
  <2>2. CASE i = n
    <3>1. i \in 1..n /\ AnsweredAt(h, i)
      BY <1>3, <2>2 DEF Paired
    <3>2. h[i].uses = <<>>
      BY <2>2, <3>1 DEF AnsweredAt
    <3>3. u[i] = h[i] /\ u[i + 1] = a /\ i < Len(u)
      BY <1>3, <2>2, <3>1
    <3> QED BY <1>2, <3>2, <3>3 DEF AnsweredAt
  <2>3. CASE i = n + 1
    <3>1. u[i] = a /\ u[i + 1] = r /\ i < Len(u)
      BY <1>3, <2>3
    <3> QED BY <1>2, <3>1 DEF AnsweredAt
  <2>4. CASE i = n + 2
    <3>1. u[i] = r /\ ~(i < Len(u))
      BY <1>3, <2>4
    <3> QED BY <1>2, <3>1 DEF AnsweredAt
  <2> QED BY <1>3, <2>1, <2>2, <2>3, <2>4
<1>5. Paired(u)
  BY <1>4 DEF Paired
<1> QED BY <1>5 DEF u, a, r

\* At first there is nothing to pair.
LEMMA PairInit == Init => PairInv /\ StartsInv
<1> SUFFICES ASSUME Init PROVE PairInv /\ StartsInv
  OBVIOUS
<1>1. Logged(messages) = <<>> /\ Readback = <<>> /\ phase = "idle"
  BY LoggedInit, EmptyReadback DEF Init, Loop!Init
<1>2. Paired(<<>>)
  BY DEF Paired
<1> QED BY <1>1, <1>2 DEF PairInv, StartsInv

\* A step of the inner generator keeps the history paired.
LEMMA InnerPairs ==
  ASSUME StoreTypes, PairInv, Inner
  PROVE  PairInv'
<1>0. LoopTypes /\ Working /\ resumes' = resumes
  BY TypesSplit DEF Inner, Working, pastVars
<1>1. uses \in Seq(Nat) /\ messages \in Seq(Message)
  BY <1>0 DEF LoopTypes
<1> SUFFICES ASSUME resumes = 0
             PROVE  /\ phase' \in {"idle", "requested"} => Paired(Logged(messages'))
                    /\ phase' \in {"answered", "tools"} =>
                         \E h \in Seq(Message) :
                           Paired(h) /\ Logged(messages') = Append(h, AssistantMessage(uses'))
  BY <1>0 DEF PairInv
<1>2. /\ phase \in {"idle", "requested"} => Paired(Logged(messages))
      /\ phase \in {"answered", "tools"} =>
           \E h \in Seq(Message) :
             Paired(h) /\ Logged(messages) = Append(h, AssistantMessage(uses))
  BY <1>0 DEF PairInv
<1>3. CASE Begins
  BY <1>2, <1>3 DEF Begins
<1>4. ASSUME NEW new \in Seq(Nat), Answers(new)
      PROVE  /\ phase' = "answered" /\ Paired(Logged(messages)) /\ Logged(messages) \in Seq(Message)
             /\ Logged(messages') = Append(Logged(messages), AssistantMessage(uses'))
  <2>1. Logged(messages) \in Seq(Message)
    <3>1. Logged(messages) \in Seq(Message \ {Prompt})
      BY <1>1, NoPrompt, LoggedAppend
    <3> QED BY <3>1
  <2> QED BY <1>1, <1>2, <1>4, <2>1, NoPrompt, LoggedAppend DEF Answers
<1>5. CASE Tells \/ Results
  BY <1>2, <1>5 DEF Tells, Results
<1>6. CASE TurnEnds
  <2>1. PICK h \in Seq(Message) : Paired(h) /\ Logged(messages) = Append(h, AssistantMessage(uses))
    BY <1>2, <1>6 DEF TurnEnds
  <2>2. Logged(messages') = Append(Logged(messages), ToolResultMessage(uses))
    BY <1>1, <1>6, NoPrompt, LoggedAppend DEF TurnEnds
  <2>3. Paired(Logged(messages'))
    BY <1>1, <2>1, <2>2, PairedTurn
  <2> QED BY <1>6, <2>3 DEF TurnEnds
<1>7. CASE Ends
  BY <1>7 DEF Ends
<1> QED BY <1>0, <1>3, <1>4, <1>5, <1>6, <1>7, InnerActs

\* Every step keeps the first loop's history paired.
LEMMA PairStep ==
  ASSUME StoreTypes, PairInv, [Next]_vars
  PROVE  PairInv'
<1> USE DEF diskVars, loopVars, pastVars
<1>0. resumes \in Nat
  BY TypesSplit DEF CountTypes
<1>1. CASE Inner
  BY <1>1, InnerPairs
<1>2. CASE \/ Open \/ AppendEvent \/ AppendFails \/ Complained \/ AuditAppend \/ Deliver
           \/ UNCHANGED vars
  <2>1. UNCHANGED <<phase, uses, messages, resumes>> /\ (Working' => Working)
    BY <1>2 DEF Open, AppendEvent, AppendFails, Complained, AuditAppend, Deliver, Loop!Take,
       Loop!turnState, Working, vars
  <2> QED BY <2>1 DEF PairInv
<1>3. CASE OpenFails \/ CallerReturns \/ CallerAbandons \/ InnerDone \/ Seal \/ Crash
  <2>1. ~Working'
    BY <1>3 DEF OpenFails, CallerReturns, CallerAbandons, InnerDone, Seal, Crash,
       LoseGenerator, Gone, Working
  <2> QED BY <2>1 DEF PairInv
<1>4. CASE Resume \/ \E t \in Checkpoints : ResumeFromCheckpoint(t)
  <2>1. resumes' = resumes + 1
    BY <1>4 DEF Resume, ResumeFromCheckpoint, RestartFrom
  <2> QED BY <1>0, <2>1 DEF PairInv
<1> QED BY <1>1, <1>2, <1>3, <1>4 DEF Next

\* A start that reaches the log stands behind the history of its request.
LEMMA StartIsPaired ==
  ASSUME StoreTypes, MatchInv, PairInv, resumes = 0, faults = 0,
         wpc = "pull", out # NoEvent, out.type = "stream_request_start"
  PROVE  Paired(Rebuild(Readback))
<1>1. phase = "requested" /\ ~branched
  BY TypesSplit DEF LoopTypes, CountTypes
<1>2. Working /\ Tracked
  BY <1>1 DEF Working, Tracked
<1>3. Told = Flush(Replay(Readback))
  BY DEF Told, FoldEvent
<1>4. Told.messages = Logged(messages) /\ Paired(Logged(messages))
  BY <1>1, <1>2 DEF MatchInv, Matches, PairInv
<1> QED BY <1>3, <1>4 DEF Rebuild

\* Every step keeps what stands before the starts paired.
LEMMA StartsStep ==
  ASSUME StoreTypes, MatchInv, PairInv, StartsInv, [Next]_vars
  PROVE  StartsInv'
<1> SUFFICES ASSUME resumes' = 0, faults' = 0, NEW i \in 1..Len(Readback'),
                    Readback'[i].type = "stream_request_start"
             PROVE  Paired(Rebuild(SubSeq(Readback', 1, i - 1)))
  BY DEF StartsInv
<1>0. resumes = 0 /\ faults = 0 /\ ~Fault
  BY TrackedBefore
<1>1. log \in LogFile /\ out \in Event \cup {NoEvent} /\ ~branched
  BY <1>0, TypesSplit DEF DiskTypes, LoopTypes, CountTypes
<1>2. Readback \in Seq(Event)
  BY <1>1, EventsTyped DEF Readback
<1>3. \A k \in 1..Len(Readback) : Readback[k].type = "stream_request_start" =>
        Paired(Rebuild(SubSeq(Readback, 1, k - 1)))
  BY <1>0 DEF StartsInv
<1>4. \/ Readback' = Readback
      \/ /\ wpc = "pull" /\ out # NoEvent /\ out \in Event
         /\ Readback' = Append(Readback, out)
  <2>1. ASSUME wpc = "pull", out # NoEvent, NEW extent \in Extent,
               log' = Written(log, out, extent)
        PROVE  Readback' = Readback \/ Readback' = Append(Readback, out)
    <3>1. ~log.cut
      BY <1>0, <1>1, <2>1 DEF MatchInv, Tracked, Working
    <3> QED BY <1>1, <2>1, <3>1, WrittenBehind DEF Readback, Extent
  <2>2. \/ log' = log
        \/ wpc = "pull" /\ out # NoEvent /\ \E extent \in Extent : log' = Written(log, out, extent)
    BY <1>0, LogSteps
  <2> QED BY <1>1, <2>1, <2>2 DEF Readback
<1>5. CASE Readback' = Readback
  BY <1>3, <1>5
<1>6. CASE /\ wpc = "pull" /\ out # NoEvent /\ out \in Event
           /\ Readback' = Append(Readback, out)
  <2>1. CASE i \in 1..Len(Readback)
    <3>1. Readback'[i] = Readback[i] /\ SubSeq(Readback', 1, i - 1) = SubSeq(Readback, 1, i - 1)
      BY <1>2, <1>6, <2>1
    <3> QED BY <1>3, <2>1, <3>1
  <2>2. CASE i = Len(Readback) + 1
    <3>1. Readback'[i] = out /\ SubSeq(Readback', 1, i - 1) = Readback
      BY <1>2, <1>6, <2>2
    <3> QED BY <1>0, <1>6, <3>1, StartIsPaired
  <2>3. Len(Readback') = Len(Readback) + 1 /\ Len(Readback) \in Nat
    BY <1>2, <1>6
  <2> QED BY <2>1, <2>2, <2>3
<1> QED BY <1>4, <1>5, <1>6

\* However its writes end: every checkpoint of the first loop that a later turn has
\* sealed has the result of every tool_use in it, as long as no call fails.
THEOREM FirstCheckpointsArePaired == Spec => []SealedCheckpointIsPaired
<1> DEFINE IInv == StoreTypes /\ CutInv /\ AckedInv /\ MatchInv /\ PairInv /\ StartsInv
<1>1. Init => IInv
  BY StoreTypesInit, AckedInit, MatchInit, PairInit
<1>2. IInv /\ [Next]_vars => IInv'
  BY StoreTypesStep, AckedStep, MatchStep, PairStep, StartsStep
<1>3. IInv => SealedCheckpointIsPaired
  <2> SUFFICES ASSUME IInv, resumes = 0, faults = 0, NEW t \in 1..maxTurns, Sealed(Readback, t)
               PROVE  Paired(Checkpoint(Readback, t))
    BY DEF SealedCheckpointIsPaired
  <2>1. log \in LogFile
    BY TypesSplit DEF DiskTypes
  <2>2. Readback \in Seq(Event)
    BY <2>1, EventsTyped DEF Readback
  <2> DEFINE c == Cutoff(Readback, t)
  <2>3. c + 1 \in StartsAfter(Readback, t) /\ c \in 0..Len(Readback)
    BY <2>2, CutoffWithin DEF Sealed
  <2> HIDE DEF c
  <2>4. c + 1 \in 1..Len(Readback) /\ Readback[c + 1].type = "stream_request_start"
    BY <2>3 DEF StartsAfter
  <2>5. (c + 1) - 1 = c
    BY <2>3
  <2>6. Paired(Rebuild(SubSeq(Readback, 1, c)))
    BY <2>4, <2>5 DEF StartsInv
  <2> QED BY <2>6 DEF Checkpoint, c
<1> QED BY <1>1, <1>2, <1>3, PTL DEF Spec
=============================================================================
