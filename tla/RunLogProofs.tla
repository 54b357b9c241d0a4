---------------------------- MODULE RunLogProofs ----------------------------
(***************************************************************************)
(* For any runs and writers: the stream moves forward, and it is complete  *)
(* as long as one event of its run is recorded at a time.  The argument is *)
(* about numbers: the stream has nothing above lastSentSequence, and the   *)
(* row of a writer that is alone is above every other row.                 *)
(***************************************************************************)
EXTENDS RunLog, TLAPS

HasTop(S) == S = {} \/ \E n \in Numbers(S) : \A m \in Numbers(S) : m <= n

\* The stream's variables before, during and after the replay.
StreamInv ==
    /\ \A r \in Runs : HasTop(rows[r])
    /\ HasTop(page)
    /\ watching \in {"none", "opened", "replaying"} => got = {}
    /\ watching # "replaying" => page = {}
    /\ watching = "none" => last = 0
    /\ watching \in {"opened", "replaying"} => last = from
    /\ \A row \in got : row.seq <= last
    /\ \A row \in page : row.seq > last /\ row \in rows[watched]
    /\ last \in {0} \cup Numbers(rows[watched])

\* A writer that is alone holds the highest number.
AloneAtTop(w) ==
    LET r == write[w].run   mine == write[w].row IN
    write[w] # Free =>
        /\ mine.by = w /\ mine.seq > 0
        /\ write[w].stage = "inserted" => mine \in rows[r]
        /\ r \notin contended =>
             /\ \A x \in Writers : Busy(x, r) => x = w
             /\ \A row \in rows[r] :
                    row.seq < mine.seq \/ (write[w].stage = "inserted" /\ row = mine)

\* What the client does not have yet, it has still to be sent.
NothingLost ==
    watched \notin contended /\ ~late =>
        \A row \in rows[watched] : row.seq > from =>
            /\ watching = "replaying" => row \in page \/ Unpublished(watched, row)
            /\ watching = "live" => row \in got \/ (Unpublished(watched, row) /\ row.seq > last)

LogInv == LogTypeOK /\ StreamInv /\ (\A w \in Writers : AloneAtTop(w)) /\ NothingLost

------------------------------------------------------------------------------
\* The highest number is one of the numbers, and none is above it.
LEMMA HighestIsTop ==
    ASSUME NEW S \in SUBSET Row, HasTop(S)
    PROVE  /\ Highest(S) \in Nat
           /\ S # {} => Highest(S) \in Numbers(S)
           /\ \A row \in S : row.seq <= Highest(S)
<1>1. CASE S = {}
    BY <1>1 DEF Highest
<1>2. CASE S # {}
    <2>1. PICK n \in Numbers(S) : \A m \in Numbers(S) : m <= n
        BY <1>2 DEF HasTop, Numbers
    <2>2. Highest(S) = CHOOSE k \in Numbers(S) : \A m \in Numbers(S) : m <= k
        BY <1>2 DEF Highest
    <2>3. Highest(S) \in Numbers(S) /\ \A m \in Numbers(S) : m <= Highest(S)
        BY <2>1, <2>2
    <2>4. \A row \in S : row.seq \in Numbers(S)
        BY DEF Numbers
    <2>5. Numbers(S) \subseteq Nat
        BY DEF Numbers, Row
    <2> QED BY <2>3, <2>4, <2>5
<1> QED BY <1>1, <1>2

\* One more row, and there still is a highest number.
LEMMA TopStays ==
    ASSUME NEW S \in SUBSET Row, HasTop(S), NEW row \in Row
    PROVE  HasTop(S \cup {row})
<1> DEFINE T == S \cup {row}
<1>1. \A m \in Numbers(T) : m = row.seq \/ m \in Numbers(S)
    BY DEF Numbers
<1>2. row.seq \in Numbers(T) /\ row.seq \in Nat /\ Numbers(S) \subseteq Numbers(T)
    BY DEF Numbers, Row
<1>3. Numbers(S) \subseteq Nat
    BY DEF Numbers, Row
<1>4. CASE S = {}
    <2>1. \A m \in Numbers(T) : m <= row.seq
        BY <1>1, <1>2, <1>4 DEF Numbers
    <2> QED BY <1>2, <2>1 DEF HasTop
<1>5. CASE S # {}
    <2>1. PICK n \in Numbers(S) : \A m \in Numbers(S) : m <= n
        BY <1>5 DEF HasTop
    <2>2. CASE n >= row.seq
        <3>1. \A m \in Numbers(T) : m <= n
            BY <1>1, <1>2, <1>3, <2>1, <2>2
        <3> QED BY <1>2, <2>1, <3>1 DEF HasTop
    <2>3. CASE n < row.seq
        <3>1. \A m \in Numbers(T) : m <= row.seq
            BY <1>1, <1>2, <1>3, <2>1, <2>3
        <3> QED BY <1>2, <3>1 DEF HasTop
    <2> QED BY <1>2, <1>3, <2>1, <2>2, <2>3
<1> QED BY <1>4, <1>5

\* The rows above a number have a highest one if all the rows have.
LEMMA TopOfPage ==
    ASSUME NEW S \in SUBSET Row, HasTop(S), NEW n \in Nat
    PROVE  HasTop({row \in S : row.seq > n})
<1> DEFINE P == {row \in S : row.seq > n}
<1>1. CASE P = {}
    BY <1>1 DEF HasTop
<1>2. CASE P # {}
    <2>1. PICK x \in S : x.seq > n /\ x.seq \in Nat
        BY <1>2 DEF Row
    <2>2. PICK top \in S : \A y \in S : y.seq <= top.seq /\ y.seq \in Nat
        BY <2>1 DEF HasTop, Numbers, Row
    <2>3. top \in P
        BY <2>1, <2>2
    <2>4. top.seq \in Numbers(P) /\ \A m \in Numbers(P) : m <= top.seq
        BY <2>2, <2>3 DEF Numbers
    <2> QED BY <2>4 DEF HasTop
<1> QED BY <1>1, <1>2

\* A writer that is busy records a row of its run.
LEMMA WriteShape ==
    ASSUME LogTypeOK, NEW w \in Writers, write[w] # Free
    PROVE  /\ write[w] \in Recording
           /\ write[w].run \in Runs /\ write[w].row \in Row
           /\ write[w].stage \in {"numbered", "inserted"}
BY DEF LogTypeOK, Recording

\* The invariant holds at first: there are no rows and no stream.
LEMMA LogStarts == LogInit => LogInv
<1> SUFFICES ASSUME LogInit PROVE LogInv
    OBVIOUS
<1> USE DEF LogInit
<1>1. LogTypeOK
    BY DEF LogTypeOK
<1>2. StreamInv
    BY DEF StreamInv, HasTop
<1>3. \A w \in Writers : AloneAtTop(w)
    BY DEF AloneAtTop
<1>4. NothingLost
    BY DEF NothingLost
<1> QED BY <1>1, <1>2, <1>3, <1>4 DEF LogInv

------------------------------------------------------------------------------
(* recordEvent.                                                              *)

\* A number is taken: a run without a second writer has none above it.
LEMMA TakeNumberKeeps ==
    ASSUME LogInv, NEW w \in Writers, NEW r \in Runs, NEW type \in EventTypes,
           TakeNumber(w, r, type)
    PROVE  LogInv'
<1> USE DEF LogInv
<1> DEFINE new == [stage |-> "numbered", run |-> r,
                   row |-> [seq |-> Highest(rows[r]) + 1, type |-> type, by |-> w]]
<1>0. /\ write[w] = Free /\ write' = [write EXCEPT ![w] = new]
      /\ contended' = IF \E x \in Writers \ {w} : Busy(x, r) THEN contended \cup {r} ELSE contended
      /\ UNCHANGED <<rows, stream>>
    BY DEF TakeNumber
<1>1. /\ rows[r] \in SUBSET Row /\ HasTop(rows[r])
      /\ Highest(rows[r]) \in Nat /\ \A row \in rows[r] : row.seq <= Highest(rows[r])
    <2>1. rows[r] \in SUBSET Row /\ HasTop(rows[r])
        BY DEF LogTypeOK, StreamInv
    <2> QED BY <2>1, HighestIsTop
<1>2. /\ new \in Recording /\ new # Free
      /\ write' \in [Writers -> Recording \cup {Free}]
      /\ write'[w] = new /\ \A x \in Writers \ {w} : write'[x] = write[x]
    <2>1. new \in Recording
        BY <1>1 DEF Recording, Row
    <2>2. new # Free
        BY DEF Free
    <2> QED BY <1>0, <2>1, <2>2 DEF LogTypeOK
<1>3. LogTypeOK'
    BY <1>0, <1>2 DEF LogTypeOK, stream
<1>4. StreamInv'
    BY <1>0 DEF StreamInv, stream
<1>5. contended \subseteq contended'
    BY <1>0
<1>6. ASSUME NEW x \in Writers PROVE AloneAtTop(x)'
    <2>1. CASE x = w
        <3>1. r \notin contended' => \A y \in Writers : Busy(y, r)' => y = w
            BY <1>0, <1>2 DEF Busy
        <3>2. \A row \in rows[r] : row.seq < new.row.seq
            BY <1>1 DEF Row
        <3>3. new.row.by = w /\ new.row.seq > 0 /\ new.stage = "numbered" /\ new.run = r
            BY <1>1
        <3> HIDE DEF new
        <3>4. rows' = rows
            BY <1>0
        <3> QED BY <1>2, <2>1, <3>1, <3>2, <3>3, <3>4 DEF AloneAtTop
    <2>2. CASE x # w
        <3>1. write'[x] = write[x] /\ AloneAtTop(x) /\ rows' = rows
            BY <1>0, <1>2, <2>2
        <3>2. SUFFICES ASSUME write[x] # Free, write[x].run \notin contended'
                       PROVE  \A y \in Writers : Busy(y, write[x].run)' => y = x
            BY <1>5, <3>1 DEF AloneAtTop
        <3>3. write[x].run # r
            BY <1>0, <2>2, <3>2 DEF Busy
        <3>4. \A y \in Writers : Busy(y, write[x].run)' => Busy(y, write[x].run)
            BY <1>2, <3>1, <3>3 DEF Busy
        <3> QED BY <1>5, <3>1, <3>2, <3>4 DEF AloneAtTop
    <2> QED BY <2>1, <2>2
<1>7. NothingLost'
    <2>1. \A row \in Row : Unpublished(watched, row) => Unpublished(watched, row)'
        BY <1>0, <1>2 DEF Unpublished, Row, stream
    <2>2. rows[watched] \subseteq Row
        BY DEF LogTypeOK
    <2> QED BY <1>0, <1>5, <2>1, <2>2 DEF NothingLost, stream
<1> QED BY <1>3, <1>4, <1>6, <1>7

\* The row is inserted: alone, it is the highest, and it is unpublished.
LEMMA InsertKeeps ==
    ASSUME LogInv, NEW w \in Writers, InsertRow(w)
    PROVE  LogInv'
<1> USE DEF LogInv
<1> DEFINE r == write[w].run
           mine == write[w].row
<1>0. /\ write[w] # Free /\ write[w].stage = "numbered"
      /\ rows' = [rows EXCEPT ![r] = @ \cup {mine}]
      /\ write' = [write EXCEPT ![w].stage = "inserted"]
      /\ UNCHANGED <<stream, contended>>
    BY DEF InsertRow
<1>1. write[w] \in Recording /\ r \in Runs /\ mine \in Row /\ mine.by = w /\ mine.seq > 0
    BY <1>0, WriteShape DEF AloneAtTop
<1>2. /\ write'[w] = [stage |-> "inserted", run |-> r, row |-> mine]
      /\ write'[w] \in Recording /\ write'[w] # Free
      /\ write' \in [Writers -> Recording \cup {Free}]
      /\ \A x \in Writers \ {w} : write'[x] = write[x]
    <2>1. write'[w] = [write[w] EXCEPT !.stage = "inserted"]
        BY <1>0 DEF LogTypeOK
    <2>2. write'[w] = [stage |-> "inserted", run |-> r, row |-> mine]
        BY <1>1, <2>1 DEF Recording
    <2>3. write'[w] \in Recording
        BY <1>1, <2>2 DEF Recording
    <2>4. write'[w] # Free
        BY <2>2 DEF Free
    <2> QED BY <1>0, <2>2, <2>3, <2>4 DEF LogTypeOK
<1>3. /\ rows'[r] = rows[r] \cup {mine} /\ \A x \in Runs \ {r} : rows'[x] = rows[x]
      /\ rows' \in [Runs -> SUBSET Row]
    BY <1>0, <1>1 DEF LogTypeOK
<1>4. LogTypeOK'
    BY <1>0, <1>2, <1>3 DEF LogTypeOK, stream
<1>5. StreamInv'
    <2>1. \A x \in Runs : HasTop(rows'[x])
        <3>1. HasTop(rows[r]) /\ rows[r] \in SUBSET Row
            BY <1>1 DEF StreamInv, LogTypeOK
        <3>2. HasTop(rows[r] \cup {mine})
            BY <1>1, <3>1, TopStays
        <3> QED BY <1>3, <3>2 DEF StreamInv
    <2>2. rows[watched] \subseteq rows'[watched]
        BY <1>3 DEF LogTypeOK
    <2>3. Numbers(rows[watched]) \subseteq Numbers(rows'[watched])
        BY <2>2 DEF Numbers
    <2> QED BY <1>0, <2>1, <2>2, <2>3 DEF StreamInv, stream, HasTop
<1>6. \A x \in Writers, y \in Runs : Busy(x, y)' <=> Busy(x, y)
    BY <1>0, <1>2 DEF Busy
<1>7. ASSUME NEW x \in Writers PROVE AloneAtTop(x)'
    <2>1. CASE x = w
        <3>1. write'[w].run = r /\ write'[w].row = mine /\ write'[w].stage = "inserted"
            BY <1>2
        <3>2. r \notin contended => \A row \in rows'[r] : row.seq < mine.seq \/ row = mine
            BY <1>0, <1>3 DEF AloneAtTop
        <3>3. r \notin contended => \A y \in Writers : Busy(y, r) => y = w
            BY <1>0 DEF AloneAtTop
        <3> QED BY <1>0, <1>1, <1>3, <1>6, <2>1, <3>1, <3>2, <3>3 DEF AloneAtTop
    <2>2. CASE x # w
        <3>1. write'[x] = write[x]
            BY <1>2, <2>2
        <3>2. SUFFICES ASSUME write[x] # Free PROVE AloneAtTop(x)'
            BY <3>1 DEF AloneAtTop
        <3>3. write[x].run \in Runs
            BY <3>2, WriteShape
        <3>4. CASE write[x].run = r
            <4>1. r \in contended
                BY <1>0, <2>2, <3>2, <3>4 DEF AloneAtTop, Busy
            <4> QED BY <1>0, <1>3, <3>1, <3>2, <3>4, <4>1 DEF AloneAtTop
        <3>5. CASE write[x].run # r
            BY <1>0, <1>3, <1>6, <3>1, <3>2, <3>3, <3>5 DEF AloneAtTop
        <3> QED BY <3>4, <3>5
    <2> QED BY <2>1, <2>2
<1>8. NothingLost'
    <2>1. SUFFICES ASSUME watched \notin contended, ~late, NEW row \in rows'[watched], row.seq > from
                   PROVE  /\ watching = "replaying" => row \in page \/ Unpublished(watched, row)'
                          /\ watching = "live" => row \in got \/ (Unpublished(watched, row)' /\ row.seq > last)
        BY <1>0 DEF NothingLost, stream
    <2>2. CASE row \in rows[watched] /\ row # mine
        <3>1. Unpublished(watched, row) => Unpublished(watched, row)'
            <4>1. row.by \in Writers /\ (Unpublished(watched, row) => row.by # w)
                BY <1>0, <2>2 DEF Unpublished, LogTypeOK, Row
            <4> QED BY <1>0, <1>2, <4>1 DEF Unpublished, stream
        <3> QED BY <2>1, <2>2, <3>1 DEF NothingLost
    <2>3. CASE row = mine /\ watched = r
        <3>1. Unpublished(watched, row)'
            BY <1>0, <1>1, <1>2, <2>3 DEF Unpublished, stream
        <3>2. \A x \in rows[r] : x.seq < mine.seq
            BY <1>0, <2>1, <2>3 DEF AloneAtTop
        <3>3. last < mine.seq
            BY <1>1, <2>3, <3>2 DEF StreamInv, Numbers
        <3> QED BY <2>3, <3>1, <3>3
    <2>4. CASE row = mine /\ watched # r
        <3>1. row \in rows[watched]
            BY <1>3, <2>1, <2>4 DEF LogTypeOK
        <3>2. ~Unpublished(watched, row)
            BY <1>1, <2>4 DEF Unpublished
        <3> QED BY <2>1, <3>1, <3>2 DEF NothingLost
    <2>5. row = mine \/ row \in rows[watched]
        BY <1>3, <2>1 DEF LogTypeOK
    <2>6. row = mine /\ row \in rows[watched] /\ watched = r => FALSE
        BY <1>0, <1>1, <2>1 DEF AloneAtTop, Row
    <2> QED BY <2>2, <2>3, <2>4, <2>5, <2>6
<1> QED BY <1>4, <1>5, <1>7, <1>8

\* An insert that fails: the writer is free.
LEMMA InsertFailureKeeps ==
    ASSUME LogInv, NEW w \in Writers, InsertFails(w)
    PROVE  LogInv'
<1> USE DEF LogInv
<1>0. /\ write[w] # Free /\ write[w].stage = "numbered" /\ write' = [write EXCEPT ![w] = Free]
      /\ UNCHANGED <<rows, stream, contended>>
    BY DEF InsertFails
<1>1. /\ write' \in [Writers -> Recording \cup {Free}]
      /\ write'[w] = Free /\ \A x \in Writers \ {w} : write'[x] = write[x]
    BY <1>0 DEF LogTypeOK
<1>2. LogTypeOK' /\ StreamInv'
    BY <1>0, <1>1 DEF LogTypeOK, StreamInv, stream
<1>3. \A x \in Writers : AloneAtTop(x)'
    BY <1>0, <1>1 DEF AloneAtTop, Busy
<1>4. NothingLost'
    <2>1. \A row \in Row : Unpublished(watched, row) => Unpublished(watched, row)'
        BY <1>0, <1>1 DEF Unpublished, Row, stream
    <2>2. rows[watched] \subseteq Row
        BY DEF LogTypeOK
    <2> QED BY <1>0, <2>1, <2>2 DEF NothingLost, stream
<1> QED BY <1>2, <1>3, <1>4

\* The row is published: to a live stream of the run it is sent, or it is one
\* the stream has; a stream in its replay has it in its page, or it is late.
LEMMA PublishKeeps ==
    ASSUME LogInv, NEW w \in Writers, Publish(w)
    PROVE  LogInv'
<1> USE DEF LogInv
<1> DEFINE r == write[w].run
           mine == write[w].row
<1>0. /\ write[w] # Free /\ write[w].stage = "inserted"
      /\ Hear(r, mine)
      /\ write' = [write EXCEPT ![w] = Free]
      /\ UNCHANGED <<rows, watched, seen, from, page, contended>>
    BY DEF Publish
<1>1. /\ write[w] \in Recording /\ r \in Runs /\ mine \in Row /\ mine.by = w
      /\ mine \in rows[r] /\ mine.seq \in Nat
    BY <1>0, WriteShape DEF AloneAtTop, Row
<1>2. /\ write' \in [Writers -> Recording \cup {Free}]
      /\ write'[w] = Free /\ \A x \in Writers \ {w} : write'[x] = write[x]
    BY <1>0 DEF LogTypeOK
<1>3. \/ /\ watching = "live" /\ watched = r /\ mine.seq > last
         /\ got' = got \cup {mine} /\ last' = mine.seq /\ watching' \in {"live", "ended"}
         /\ late' = late
      \/ /\ ~(watching = "live" /\ watched = r /\ mine.seq > last)
         /\ late' = (late \/ (watching = "replaying" /\ watched = r /\ mine \notin page))
         /\ UNCHANGED <<got, last, watching>>
    BY <1>0 DEF Hear
<1>4. LogTypeOK'
    <2>1. got' \in SUBSET Row /\ last' \in Nat /\ late' \in BOOLEAN
          /\ watching' \in {"none", "opened", "replaying", "live", "ended"}
        BY <1>1, <1>3 DEF LogTypeOK
    <2> QED BY <1>0, <1>2, <2>1 DEF LogTypeOK
<1>5. StreamInv'
    <2>1. CASE got' = got \cup {mine} /\ last' = mine.seq /\ watching = "live" /\ watched = r
               /\ mine.seq > last /\ watching' \in {"live", "ended"}
        <3>1. \A row \in got' : row.seq <= last'
            BY <1>1, <2>1 DEF StreamInv, LogTypeOK, Row
        <3>2. last' \in Numbers(rows[watched])
            BY <1>1, <2>1 DEF Numbers
        <3>3. page' = {}
            BY <1>0, <2>1 DEF StreamInv
        <3> QED BY <1>0, <2>1, <3>1, <3>2, <3>3 DEF StreamInv, HasTop
    <2>2. CASE UNCHANGED <<got, last, watching>>
        BY <1>0, <2>2 DEF StreamInv, HasTop
    <2> QED BY <1>3, <2>1, <2>2
<1>6. \A x \in Writers : AloneAtTop(x)'
    BY <1>0, <1>2 DEF AloneAtTop, Busy
<1>7. \A row \in rows[watched] : Unpublished(watched, row) =>
          Unpublished(watched, row)' \/ (row = mine /\ watched = r)
    <2> SUFFICES ASSUME NEW row \in rows[watched], Unpublished(watched, row)
                 PROVE  Unpublished(watched, row)' \/ (row = mine /\ watched = r)
        OBVIOUS
    <2>1. row.by \in Writers
        BY DEF LogTypeOK, Row
    <2>2. CASE row.by = w
        BY <1>1, <2>2 DEF Unpublished
    <2>3. CASE row.by # w
        BY <1>0, <1>2, <2>1, <2>3 DEF Unpublished
    <2> QED BY <2>2, <2>3
<1>8. NothingLost'
    <2> SUFFICES ASSUME watched \notin contended, ~late', NEW row \in rows[watched], row.seq > from
                 PROVE  /\ watching' = "replaying" => row \in page \/ Unpublished(watched, row)'
                        /\ watching' = "live" => row \in got' \/ (Unpublished(watched, row)' /\ row.seq > last')
        BY <1>0 DEF NothingLost
    <2>0. ~late
        BY <1>3, Zenon
    <2>1. ~late /\ (watching' \in {"replaying", "live"} => watching' = watching)
        <3>1. watching' = watching \/ (watching = "live" /\ watching' \in {"live", "ended"})
            BY <1>3
        <3> QED BY <2>0, <3>1
    <2>2. /\ watching = "replaying" => row \in page \/ Unpublished(watched, row)
          /\ watching = "live" => row \in got \/ (Unpublished(watched, row) /\ row.seq > last)
        BY <2>1 DEF NothingLost
    <2>3. CASE watching' = "replaying"
        BY <1>3, <1>7, <2>1, <2>2, <2>3
    <2>4. CASE watching' = "live"
        <3>1. CASE watched = r
            <4>1. Unpublished(watched, row) => row = mine
                <5> SUFFICES ASSUME Unpublished(watched, row) PROVE row = mine
                    OBVIOUS
                <5>1. row.by \in Writers /\ Busy(row.by, r)
                    BY <3>1 DEF Unpublished, Busy, LogTypeOK, Row
                <5>2. row.by = w
                    BY <1>0, <3>1, <5>1 DEF AloneAtTop
                <5> QED BY <5>2 DEF Unpublished
            <4> QED BY <1>3, <2>1, <2>2, <2>4, <3>1, <4>1
        <3>2. CASE watched # r
            BY <1>3, <1>7, <2>1, <2>2, <2>4, <3>2
        <3> QED BY <3>1, <3>2
    <2> QED BY <2>3, <2>4
<1> QED BY <1>4, <1>5, <1>6, <1>8

------------------------------------------------------------------------------
(* The stream.                                                               *)

\* What a stream does leaves the writers where they are.
LEMMA WritersStay ==
    ASSUME LogInv, UNCHANGED <<rows, write, contended>>
    PROVE  \A w \in Writers : AloneAtTop(w)'
BY DEF LogInv, AloneAtTop, Busy

\* A stream that is closed is a stream that was never opened.
LEMMA CloseKeeps ==
    ASSUME LogInv, CloseStream, UNCHANGED rows,
           write' \in [Writers -> Recording \cup {Free}], contended' = contended,
           \A w \in Writers : AloneAtTop(w)'
    PROVE  LogInv'
<1> USE DEF LogInv
<1>0. /\ watching' = "none" /\ seen' = "running" /\ from' = 0 /\ last' = 0
      /\ page' = {} /\ got' = {} /\ late' = FALSE /\ watched' = watched
    BY DEF CloseStream
<1>1. LogTypeOK'
    BY <1>0 DEF LogTypeOK
<1>2. StreamInv'
    BY <1>0 DEF StreamInv, HasTop
<1>3. NothingLost'
    BY <1>0 DEF NothingLost
<1> QED BY <1>1, <1>2, <1>3

\* A stream starts from a number the run's rows have, or from none.
LEMMA OpenKeeps ==
    ASSUME LogInv, NEW r \in Runs, NEW status \in TerminalStatuses \cup {"running"},
           NEW id \in {0} \cup Numbers(rows[r]), OpenStream(r, status, id)
    PROVE  LogInv'
<1> USE DEF LogInv
<1>0. /\ watching = "none" /\ watching' = "opened" /\ watched' = r /\ seen' = status
      /\ from' = id /\ last' = id
      /\ UNCHANGED <<rows, write, page, got, contended, late>>
    BY DEF OpenStream
<1>1. id \in Nat
    BY DEF LogTypeOK, Numbers, Row
<1>2. page = {} /\ got = {}
    BY <1>0 DEF StreamInv
<1>3. LogTypeOK'
    BY <1>0, <1>1 DEF LogTypeOK
<1>4. StreamInv'
    BY <1>0, <1>2 DEF StreamInv, HasTop
<1>5. NothingLost'
    BY <1>0 DEF NothingLost
<1> QED BY <1>0, <1>3, <1>4, <1>5, WritersStay

\* The page is the history above Last-Event-ID: nothing is missing yet.
LEMMA ReadHistoryKeeps ==
    ASSUME LogInv, ReadHistory
    PROVE  LogInv'
<1> USE DEF LogInv
<1>0. /\ watching = "opened" /\ watching' = "replaying"
      /\ page' = {row \in rows[watched] : row.seq > last}
      /\ UNCHANGED <<rows, write, watched, seen, from, last, got, contended, late>>
    BY DEF ReadHistory
<1>1. rows[watched] \in SUBSET Row /\ HasTop(rows[watched]) /\ last \in Nat /\ last = from
    BY <1>0 DEF LogTypeOK, StreamInv
<1>2. HasTop(page')
    BY <1>0, <1>1, TopOfPage
<1>3. LogTypeOK'
    BY <1>0, <1>1 DEF LogTypeOK
<1>4. StreamInv'
    BY <1>0, <1>1, <1>2 DEF StreamInv, HasTop
<1>5. NothingLost'
    BY <1>0, <1>1 DEF NothingLost
<1> QED BY <1>0, <1>3, <1>4, <1>5, WritersStay

\* The page is sent; the one row that may be unpublished and not in it is above it.
LEMMA FollowKeeps ==
    ASSUME LogInv, Follow
    PROVE  LogInv'
<1> USE DEF LogInv
<1>0. /\ watching = "replaying" /\ got' = page /\ page' = {}
      /\ last' = IF page = {} THEN last ELSE Highest(page)
      /\ watching' \in {"ended", "live"}
      /\ UNCHANGED <<rows, write, watched, seen, from, contended, late>>
    BY DEF Follow
<1>1. /\ Highest(page) \in Nat
      /\ page # {} => Highest(page) \in Numbers(page)
      /\ \A row \in page : row.seq <= Highest(page)
    <2>1. page \in SUBSET Row /\ HasTop(page)
        BY DEF LogTypeOK, StreamInv
    <2> QED BY <2>1, HighestIsTop
<1>2. page \subseteq rows[watched] /\ last = from
    BY <1>0 DEF StreamInv
<1>3. LogTypeOK'
    <2>1. last' \in Nat
        BY <1>0, <1>1 DEF LogTypeOK
    <2>2. page' \in SUBSET Row /\ got' \in SUBSET Row
        BY <1>0 DEF LogTypeOK
    <2> QED BY <1>0, <2>1, <2>2 DEF LogTypeOK
<1>4. last' = last \/ \E top \in page : top.seq = last'
    <2>1. CASE page = {}
        BY <1>0, <2>1
    <2>2. CASE page # {}
        <3>1. last' = Highest(page) /\ Highest(page) \in Numbers(page)
            BY <1>0, <1>1, <2>2
        <3> QED BY <3>1 DEF Numbers
    <2> QED BY <2>1, <2>2
<1>5. StreamInv'
    <2>1. last' \in {0} \cup Numbers(rows[watched])
        BY <1>2, <1>4 DEF StreamInv, Numbers
    <2>2. \A row \in got' : row.seq <= last'
        BY <1>0, <1>1
    <2> QED BY <1>0, <2>1, <2>2 DEF StreamInv, HasTop
<1>6. NothingLost'
    <2> SUFFICES ASSUME watched \notin contended, ~late, NEW row \in rows[watched], row.seq > from,
                        row \notin page
                 PROVE  Unpublished(watched, row)' /\ row.seq > last'
        BY <1>0 DEF NothingLost
    <2>1. Unpublished(watched, row) /\ row.by \in Writers
        BY <1>0 DEF NothingLost, LogTypeOK, Row
    <2>2. \A x \in page : x.seq < row.seq
        BY <1>2, <2>1 DEF AloneAtTop, Unpublished
    <2> QED BY <1>0, <1>2, <1>4, <2>1, <2>2 DEF Unpublished
<1> QED BY <1>0, <1>3, <1>5, <1>6, WritersStay

------------------------------------------------------------------------------
\* Every step of writers, stream and server keeps the invariant.
LEMMA LogStep == LogInv /\ [LogNext]_logVars => LogInv'
<1> SUFFICES ASSUME LogInv, [LogNext]_logVars PROVE LogInv'
    OBVIOUS
<1>0. write \in [Writers -> Recording \cup {Free}]
    BY DEF LogInv, LogTypeOK
<1>1. CASE \E w \in Writers, r \in Runs, type \in EventTypes : TakeNumber(w, r, type)
    BY <1>1, TakeNumberKeeps
<1>2. CASE \E w \in Writers : InsertRow(w) \/ InsertFails(w) \/ Publish(w)
    BY <1>2, InsertKeeps, InsertFailureKeeps, PublishKeeps
<1>3. CASE \E r \in Runs, status \in TerminalStatuses \cup {"running"} :
               \E id \in {0} \cup Numbers(rows[r]) : OpenStream(r, status, id)
    BY <1>3, OpenKeeps
<1>4. CASE ReadHistory
    BY <1>4, ReadHistoryKeeps
<1>5. CASE Follow
    BY <1>5, FollowKeeps
<1>6. CASE HistoryFails \/ HangUp
    <2>1. CloseStream /\ UNCHANGED <<rows, write, contended>>
        BY <1>6 DEF HistoryFails, HangUp
    <2> QED BY <1>0, <2>1, WritersStay, CloseKeeps
<1>7. CASE LogCrash
    <2>1. CloseStream /\ UNCHANGED <<rows, contended>> /\ write' = [w \in Writers |-> Free]
        BY <1>7 DEF LogCrash
    <2>2. \A w \in Writers : AloneAtTop(w)'
        BY <2>1 DEF AloneAtTop
    <2> QED BY <2>1, <2>2, CloseKeeps
<1>8. CASE UNCHANGED logVars
    <2>1. UNCHANGED <<rows, write, watching, watched, seen, from, last, page, got, late, contended>>
        BY <1>8 DEF logVars, stream
    <2>2. \A w \in Writers : AloneAtTop(w)'
        BY <2>1, WritersStay
    <2> QED BY <2>1, <2>2 DEF LogInv, LogTypeOK, StreamInv, HasTop, NothingLost, Unpublished
<1> QED BY <1>1, <1>2, <1>3, <1>4, <1>5, <1>6, <1>7, <1>8 DEF LogNext

\* What a step sends is above everything that was sent.
LEMMA MovesForward ==
    ASSUME LogInv, [LogNext]_logVars, watching' # "none"
    PROVE  /\ got \subseteq got' /\ last <= last'
           /\ last' = last => got' = got
           /\ \A new \in got' \ got, old \in got : old.seq < new.seq
<1> USE DEF LogInv
<1>0. last \in Nat /\ got \subseteq Row /\ \A row \in got : row.seq <= last /\ row.seq \in Nat
    BY DEF LogTypeOK, StreamInv, Row
<1>1. CASE Follow
    <2>1. got = {} /\ got' = page /\ last' = IF page = {} THEN last ELSE Highest(page)
        BY <1>1 DEF Follow, StreamInv
    <2>2. page \in SUBSET Row /\ HasTop(page) /\ \A row \in page : row.seq > last
        BY DEF LogTypeOK, StreamInv
    <2>3. page # {} => \E top \in page : Highest(page) = top.seq /\ top.seq \in Nat
        BY <2>2, HighestIsTop DEF Numbers, Row
    <2>4. page # {} => last' > last
        BY <1>0, <2>1, <2>2, <2>3
    <2>5. page = {} => last' = last /\ got' = got
        BY <2>1
    <2> QED BY <1>0, <2>1, <2>4, <2>5
<1>2. CASE \E w \in Writers : Publish(w)
    <2>1. PICK w \in Writers : Publish(w)
        BY <1>2
    <2>2. write[w].row \in Row
        BY <2>1, WriteShape DEF Publish
    <2>3. \/ /\ write[w].row.seq > last
             /\ got' = got \cup {write[w].row} /\ last' = write[w].row.seq
          \/ got' = got /\ last' = last
        BY <2>1 DEF Publish, Hear
    <2> QED BY <1>0, <2>2, <2>3 DEF Row
<1>3. CASE \E r \in Runs, status \in TerminalStatuses \cup {"running"} :
               \E id \in {0} \cup Numbers(rows[r]) : OpenStream(r, status, id)
    <2>1. PICK r \in Runs : \E id \in {0} \cup Numbers(rows[r]) :
              watching = "none" /\ last' = id /\ got' = got
        BY <1>3 DEF OpenStream
    <2>2. last' \in Nat
        BY <2>1 DEF LogTypeOK, Numbers, Row
    <2> QED BY <1>0, <2>1, <2>2 DEF StreamInv
<1>4. CASE \/ \E w \in Writers, r \in Runs, type \in EventTypes : TakeNumber(w, r, type)
           \/ \E w \in Writers : InsertRow(w) \/ InsertFails(w)
           \/ ReadHistory \/ UNCHANGED logVars
    <2>1. got' = got /\ last' = last
        BY <1>4 DEF TakeNumber, InsertRow, InsertFails, ReadHistory, logVars, stream
    <2> QED BY <1>0, <2>1
<1>5. CASE HistoryFails \/ HangUp \/ LogCrash
    BY <1>5 DEF HistoryFails, HangUp, LogCrash, CloseStream
<1> QED BY <1>1, <1>2, <1>3, <1>4, <1>5 DEF LogNext

\* The invariant holds in every state of the log.
LEMMA LogAlways == LogSpec => []LogInv
BY LogStarts, LogStep, PTL DEF LogSpec

\* The variables of the log keep their types.
THEOREM LogTypeCorrect == LogSpec => []LogTypeOK
<1>1. LogInv => LogTypeOK
    BY DEF LogInv
<1> QED BY <1>1, LogAlways, PTL

\* A live stream of a run whose events are recorded one at a time has every
\* published row, unless one went by between history query and subscription.
THEOREM StreamCompleteness == LogSpec => []StreamIsComplete
<1>1. LogInv => StreamIsComplete
    BY DEF LogInv, NothingLost, StreamIsComplete
<1> QED BY <1>1, LogAlways, PTL

\* A stream sends nothing twice and nothing older than what it has sent, with
\* any number of writers.
THEOREM StreamProgress == LogSpec => StreamMovesForward
<1>1. LogInv /\ [LogNext]_logVars =>
          [watching' # "none" =>
              /\ got \subseteq got' /\ last <= last'
              /\ last' = last => got' = got
              /\ \A new \in got' \ got, old \in got : old.seq < new.seq]_logVars
    BY MovesForward
<1> QED BY <1>1, LogAlways, PTL DEF LogSpec, StreamMovesForward
==============================================================================
