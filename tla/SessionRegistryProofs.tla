----------------------- MODULE SessionRegistryProofs -----------------------
(***************************************************************************)
(* What the steps of SessionRegistry preserve, for any sessions, ids and   *)
(* callers: the types; that a session whose end is sealed in its file and  *)
(* whose calls are over never gets back into the Map; and, while nothing   *)
(* has crossed a creation, that the sessions which are in the Map or may   *)
(* still come into it have workspaces of their own and are no more than    *)
(* the limit.                                                              *)
(***************************************************************************)
EXTENDS SessionRegistry, FiniteSetTheorems, TLAPS

Created(s) == session[s] # NoSession

\* What refers to a session refers to one that exists, under its own id.
WellFormed ==
    /\ \A i \in Ids : table[i] # NoSession => Created(table[i]) /\ session[table[i]].id = i
    /\ \A k \in Callers : call[k] # Idle => Created(Of(k))
    /\ \A i \in Ids : file[i] # NoSession => Created(file[i].of) /\ session[file[i].of].id = i
    /\ \A f \in restore.found : Created(f.of)
    /\ \A i \in restore.todo : file[i] # NoSession
    /\ restore.over => restore.todo = {} /\ restore.found = {}
    /\ \A k \in Callers : call[k].kind = "destroy" => call[k].snapshot.status = "destroyed"

\* No file of s says that it lives.
Sealed(s) == \A i \in Ids : file[i] # NoSession /\ file[i].of = s => file[i].status = "destroyed"

\* A destruction under way is the only call on its session.
Ending(k) ==
    LET s == Of(k) IN
    call[k].kind = "destroy" /\ s \notin loose =>
        /\ session[s].status = "destroyed"
        /\ restore.over
        /\ call[k].write # "failed"
        /\ call[k].write = "landed" => Sealed(s)
        /\ \A j \in Callers : call[j] # Idle /\ Of(j) = s => j = k

\* A session that is gone is nowhere to come back from.
Gone(s) ==
    /\ Created(s) /\ s \notin Listed /\ Sealed(s)
    /\ \A j \in Callers : call[j] # Idle => Of(j) # s
    /\ \A f \in restore.found : f.of = s => f.status = "destroyed"

EndInv ==
    /\ \A k \in Callers : Ending(k)
    /\ \A s \in gone \ loose : Gone(s)

RegistryInv == RegistryTypeOK /\ WellFormed /\ EndInv

RegistryMoves == RegistryStep \/ RegistryContinues \/ Dispose \/ Restart

\* The invariant holds at first: nothing has been created.
LEMMA RegistryStarts == RegistryInit => RegistryInv
<1> SUFFICES ASSUME RegistryInit PROVE RegistryInv
    OBVIOUS
<1> USE DEF RegistryInit
<1>1. restore = [over |-> FALSE, todo |-> {}, found |-> {}]
    BY DEF RestoreFrom
<1>2. RegistryTypeOK
    <2>1. updates \in 0..MaxUpdates /\ failures \in 0..MaxFailures
        BY RegistryNames
    <2>2. restore \in [over : BOOLEAN, todo : SUBSET Ids, found : SUBSET Snapshot]
        <3> HIDE DEF RegistryInit
        <3>1. {} \in SUBSET Ids /\ {} \in SUBSET Snapshot
            OBVIOUS
        <3> QED BY <1>1, <3>1
    <2> QED BY <2>1, <2>2 DEF RegistryTypeOK
<1>3. WellFormed
    BY <1>1 DEF WellFormed, Idle
<1>4. EndInv
    BY <1>1 DEF EndInv, Ending, Idle
<1> QED BY <1>2, <1>3, <1>4 DEF RegistryInv

------------------------------------------------------------------------------
\* A created session is a record with an id.
LEMMA SessionShape ==
    ASSUME RegistryTypeOK, NEW s \in Sessions, Created(s)
    PROVE  session[s] \in Object
BY DEF RegistryTypeOK, Created

\* A call under way is on a session and carries a snapshot of it.
LEMMA CallShape ==
    ASSUME RegistryTypeOK, NEW k \in Callers, call[k] # Idle
    PROVE  /\ call[k] \in Waiting
           /\ Of(k) \in Sessions
           /\ call[k].kind \in {"create", "update", "destroy"}
           /\ call[k].write \in {"pending", "landed", "failed"}
           /\ call[k].snapshot \in Snapshot
BY DEF RegistryTypeOK, Waiting, Of, Snapshot

\* A new call is Idle or waits for its write with the given snapshot.
LEMMA SaveEffect ==
    ASSUME RegistryTypeOK, NEW k \in Callers, NEW kind \in {"create", "update", "destroy"},
           NEW s \in Sessions, NEW status \in Statuses, Save(k, kind, s, status)
    PROVE  /\ call' \in [Callers -> Waiting \cup {Idle}]
           /\ \A j \in Callers \ {k} : call'[j] = call[j]
           /\ call'[k] # Idle =>
                /\ storeAvailable /\ Of(k)' = s
                /\ call'[k].kind = kind /\ call'[k].write = "pending"
                /\ call'[k].snapshot = [of |-> s, status |-> status]
           /\ call'[k] = Idle => call'[k].kind = "none"
<1> DEFINE new == [kind |-> kind, snapshot |-> [of |-> s, status |-> status], write |-> "pending"]
<1>1. new \in Waiting
    BY DEF Waiting, Snapshot
<1>2. call' = [call EXCEPT ![k] = IF storeAvailable THEN new ELSE Idle]
    BY DEF Save
<1>3. call'[k] = IF storeAvailable THEN new ELSE Idle
    BY <1>2 DEF RegistryTypeOK
<1> QED BY <1>1, <1>2, <1>3 DEF RegistryTypeOK, Of, Idle
------------------------------------------------------------------------------
(* Each step preserves the invariant.                                        *)

\* createSession: nothing refers yet to the session that is made.
LEMMA CreateKeeps ==
    ASSUME RegistryInv, NEW k \in Callers, NEW s \in Sessions, NEW id \in Ids,
           NEW workspace \in Workspaces, Create(k, s, id, workspace)
    PROVE  RegistryInv'
<1> USE DEF RegistryInv
<1> DEFINE new == [id |-> id, workspace |-> workspace, status |-> "active"]
<1>0. /\ call[k] = Idle /\ session[s] = NoSession
      /\ session' = [session EXCEPT ![s] = new]
      /\ Save(k, "create", s, "active")
      /\ table' = IF storeAvailable THEN table ELSE [table EXCEPT ![id] = s]
      /\ crossed' = (crossed \/ Crosses(id))
      /\ UNCHANGED <<file, storeAvailable, restore, gone, loose, counts>>
    BY DEF Create
<1>1. /\ call' \in [Callers -> Waiting \cup {Idle}]
      /\ \A j \in Callers \ {k} : call'[j] = call[j]
      /\ call'[k] # Idle => /\ Of(k)' = s /\ call'[k].kind = "create"
                            /\ call'[k].write = "pending"
      /\ call'[k] = Idle => call'[k].kind = "none"
    BY <1>0, SaveEffect DEF Statuses
<1>2. /\ new \in Object /\ new # NoSession
      /\ session'[s] = new /\ \A t \in Sessions \ {s} : session'[t] = session[t]
    BY <1>0, RegistryNames DEF RegistryTypeOK, Statuses, Object
<1>4. /\ \A j \in Callers : call[j] # Idle => Of(j) \in Sessions /\ Of(j) # s
      /\ \A i \in Ids : table[i] # s /\ (file[i] # NoSession => file[i].of \in Sessions \ {s})
      /\ \A f \in restore.found : f.of \in Sessions \ {s}
    <2>1. \A j \in Callers : call[j] # Idle => Of(j) \in Sessions /\ Of(j) # s
        BY <1>0, CallShape DEF WellFormed, Created
    <2>2. \A i \in Ids : table[i] # s
        BY <1>0, RegistryNames DEF WellFormed, Created
    <2>3. \A i \in Ids : file[i] # NoSession => file[i].of \in Sessions \ {s}
        BY <1>0 DEF WellFormed, Created, RegistryTypeOK, Snapshot
    <2>4. \A f \in restore.found : f.of \in Sessions \ {s}
        BY <1>0 DEF WellFormed, Created, RegistryTypeOK, Snapshot
    <2> QED BY <2>1, <2>2, <2>3, <2>4
<1>5. /\ table' \in [Ids -> Sessions \cup {NoSession}]
      /\ \A i \in Ids : table'[i] = table[i] \/ (i = id /\ table'[i] = s)
    BY <1>0 DEF RegistryTypeOK
<1>6. RegistryTypeOK'
    <2>1. session' \in [Sessions -> Object \cup {NoSession}]
        BY <1>0, <1>2 DEF RegistryTypeOK
    <2>2. crossed' \in BOOLEAN
        BY <1>0 DEF RegistryTypeOK, Crosses
    <2>3. call' \in [Callers -> Waiting \cup {Idle}] /\ table' \in [Ids -> Sessions \cup {NoSession}]
        BY <1>1, <1>5
    <2>4. UNCHANGED <<file, storeAvailable, restore, gone, loose, maxConcurrentSessions, updates, failures>>
        BY <1>0 DEF counts
    <2>5. \A i \in Ids : table'[i] # NoSession => session'[table'[i]].id = i
        BY <1>2, <1>4, <1>5 DEF RegistryTypeOK
    <2> QED BY <2>1, <2>2, <2>3, <2>4, <2>5 DEF RegistryTypeOK
<1>7. WellFormed'
    <2>1. \A i \in Ids : table'[i] # NoSession => session'[table'[i]] # NoSession /\ session'[table'[i]].id = i
        BY <1>2, <1>4, <1>5 DEF WellFormed, RegistryTypeOK, Created
    <2>2. \A j \in Callers : call'[j] # Idle => session'[Of(j)'] # NoSession
        BY <1>1, <1>2, <1>4 DEF WellFormed, Created, Of
    <2>3. \A i \in Ids : file[i] # NoSession =>
              session'[file[i].of] # NoSession /\ session'[file[i].of].id = i
        BY <1>2, <1>4 DEF WellFormed, Created
    <2>4. \A f \in restore.found : session'[f.of] # NoSession
        BY <1>2, <1>4 DEF WellFormed, Created
    <2>5. \A j \in Callers : call'[j].kind = "destroy" => call'[j].snapshot.status = "destroyed"
        BY <1>1 DEF WellFormed
    <2> QED BY <1>0, <2>1, <2>2, <2>3, <2>4, <2>5 DEF WellFormed, Created, Of
<1>8. \A t \in Sessions : Sealed(t) => Sealed(t)'
    BY <1>0 DEF Sealed
<1>9. ASSUME NEW j \in Callers PROVE Ending(j)'
    <2>1. CASE j = k
        BY <1>1, <2>1 DEF Ending
    <2>2. CASE j # k
        <3>1. call'[j] = call[j]
            BY <1>1, <2>2
        <3>2. SUFFICES ASSUME call[j].kind = "destroy", Of(j) \notin loose PROVE Ending(j)'
            BY <1>0, <3>1 DEF Ending, Of
        <3>3. call[j] # Idle /\ Of(j) \in Sessions \ {s}
            BY <1>4, <3>2 DEF Idle
        <3>4. \A i \in Callers : call'[i] # Idle /\ Of(i)' = Of(j) => i = j
            BY <1>1, <3>2, <3>3 DEF EndInv, Ending, Of
        <3> QED BY <1>0, <1>2, <1>8, <3>1, <3>2, <3>3, <3>4 DEF EndInv, Ending, Of
    <2> QED BY <2>1, <2>2
<1>10. ASSUME NEW t \in gone \ loose PROVE Gone(t)'
    <2>1. t \in Sessions \ {s} /\ Gone(t)
        BY <1>0 DEF EndInv, Gone, Created, RegistryTypeOK
    <2>2. t \notin Listed'
        BY <1>5, <2>1 DEF Gone, Listed
    <2>3. \A j \in Callers : call'[j] # Idle => Of(j)' # t
        BY <1>1, <2>1 DEF Gone, Of
    <2> QED BY <1>0, <1>2, <1>8, <2>1, <2>2, <2>3 DEF Gone, Created
<1> QED BY <1>0, <1>6, <1>7, <1>9, <1>10 DEF EndInv

\* pauseSession and resumeSession: the session listed under the id changes its
\* status, and destroyed sessions are not listed among the undestroyed.
LEMMA UpdateKeeps ==
    ASSUME RegistryInv, NEW k \in Callers, NEW id \in Ids, NEW status \in {"active", "paused"},
           Update(k, id, status)
    PROVE  RegistryInv'
<1> USE DEF RegistryInv
<1> DEFINE s == table[id]
<1>0. /\ call[k] = Idle /\ s \in Undestroyed
      /\ session' = [session EXCEPT ![s].status = status]
      /\ Save(k, "update", s, status)
      /\ updates < MaxUpdates /\ updates' = updates + 1
      /\ UNCHANGED <<table, file, storeAvailable, restore, gone, loose, crossed,
                     maxConcurrentSessions, failures>>
    BY DEF Update
<1>1. /\ s \in Sessions /\ s # NoSession /\ Created(s) /\ session[s].status # "destroyed"
      /\ session[s] \in Object
    <2>1. s # NoSession /\ session[s].status # "destroyed" /\ s \in Sessions
        BY <1>0 DEF Undestroyed, Listed, RegistryTypeOK
    <2>2. Created(s)
        BY <2>1 DEF WellFormed
    <2> QED BY <2>1, <2>2, SessionShape
<1>2. /\ session'[s] \in Object /\ session'[s].id = session[s].id /\ session'[s] # NoSession
      /\ \A t \in Sessions \ {s} : session'[t] = session[t]
    <2>1. [session[s] EXCEPT !.status = status] \in Object
        BY <1>1 DEF Object, Statuses
    <2>2. session'[s] = [session[s] EXCEPT !.status = status]
        BY <1>0, <1>1 DEF RegistryTypeOK
    <2> QED BY <1>0, <1>1, <2>1, <2>2, RegistryNames DEF Object, RegistryTypeOK
<1>3. /\ call' \in [Callers -> Waiting \cup {Idle}]
      /\ \A j \in Callers \ {k} : call'[j] = call[j]
      /\ call'[k] # Idle => /\ Of(k)' = s /\ call'[k].kind = "update"
                            /\ call'[k].write = "pending"
      /\ call'[k] = Idle => call'[k].kind = "none"
    BY <1>0, <1>1, SaveEffect DEF Statuses
<1>4. ASSUME NEW j \in Callers, call[j] # Idle
      PROVE  Of(j) \in Sessions /\ (call[j].kind = "destroy" /\ Of(j) \notin loose => Of(j) # s)
    BY <1>1, <1>4, CallShape DEF EndInv, Ending
<1>5. RegistryTypeOK'
    <2>1. session' \in [Sessions -> Object \cup {NoSession}]
        BY <1>0, <1>2 DEF RegistryTypeOK
    <2>2. \A i \in Ids : table[i] # NoSession => session'[table[i]].id = i
        BY <1>2 DEF RegistryTypeOK
    <2>3. updates' \in 0..MaxUpdates
        BY <1>0, RegistryNames DEF RegistryTypeOK
    <2> QED BY <1>0, <1>3, <2>1, <2>2, <2>3 DEF RegistryTypeOK
<1>6. WellFormed'
    <2>1. \A t \in Sessions : Created(t) => session'[t] # NoSession /\ session'[t].id = session[t].id
        BY <1>2 DEF Created
    <2>2. \A i \in Ids : table[i] # NoSession => session'[table[i]] # NoSession /\ session'[table[i]].id = i
        BY <2>1 DEF WellFormed, RegistryTypeOK
    <2>3. \A j \in Callers : call'[j] # Idle => session'[Of(j)'] # NoSession
        BY <1>1, <1>2, <1>3, <1>4, <2>1 DEF WellFormed, Of
    <2>4. \A i \in Ids : file[i] # NoSession =>
              session'[file[i].of] # NoSession /\ session'[file[i].of].id = i
        BY <2>1 DEF WellFormed, RegistryTypeOK, Snapshot
    <2>5. \A f \in restore.found : session'[f.of] # NoSession
        BY <2>1 DEF WellFormed, RegistryTypeOK, Snapshot
    <2>6. \A j \in Callers : call'[j].kind = "destroy" => call'[j].snapshot.status = "destroyed"
        BY <1>3 DEF WellFormed
    <2> QED BY <1>0, <2>2, <2>3, <2>4, <2>5, <2>6 DEF WellFormed, Created, Of
<1>7. ASSUME NEW j \in Callers PROVE Ending(j)'
    <2>1. CASE j = k
        BY <1>3, <2>1 DEF Ending
    <2>2. CASE j # k
        <3>1. call'[j] = call[j]
            BY <1>3, <2>2
        <3>2. SUFFICES ASSUME call[j].kind = "destroy", Of(j) \notin loose PROVE Ending(j)'
            BY <1>0, <3>1 DEF Ending, Of
        <3>3. call[j] # Idle /\ Of(j) \in Sessions \ {s}
            BY <1>4, <3>2 DEF Idle
        <3>4. \A i \in Callers : call'[i] # Idle /\ Of(i)' = Of(j) => i = j
            BY <1>3, <3>2, <3>3 DEF EndInv, Ending, Of
        <3> QED BY <1>0, <1>2, <3>1, <3>2, <3>3, <3>4 DEF EndInv, Ending, Of, Sealed
    <2> QED BY <2>1, <2>2
<1>8. ASSUME NEW t \in gone \ loose PROVE Gone(t)'
    <2>1. t \in Sessions \ {s} /\ Gone(t)
        BY <1>0 DEF EndInv, Gone, RegistryTypeOK, Undestroyed
    <2>2. \A j \in Callers : call'[j] # Idle => Of(j)' # t
        BY <1>3, <2>1 DEF Gone, Of
    <2> QED BY <1>0, <1>2, <2>1, <2>2 DEF Gone, Created, Listed, Sealed
<1> QED BY <1>0, <1>5, <1>6, <1>7, <1>8 DEF EndInv

\* destroySession: a destruction that starts alone on its id is watched by Ending.
LEMMA DestroyKeeps ==
    ASSUME RegistryInv, NEW k \in Callers, NEW id \in Ids, Destroy(k, id)
    PROVE  RegistryInv'
<1> USE DEF RegistryInv
<1> DEFINE s == table[id]
<1>0. /\ call[k] = Idle /\ s \in Undestroyed
      /\ session' = [session EXCEPT ![s].status = "destroyed"]
      /\ Save(k, "destroy", s, "destroyed")
      /\ loose' = IF EndMayBeLost(s) THEN loose \cup {s} ELSE loose
      /\ IF storeAvailable THEN UNCHANGED <<table, gone>>
         ELSE table' = [table EXCEPT ![id] = NoSession] /\ gone' = gone \cup {s}
      /\ UNCHANGED <<file, storeAvailable, restore, crossed, counts>>
    BY DEF Destroy
<1>1. /\ s \in Sessions /\ s # NoSession /\ Created(s) /\ session[s].status # "destroyed"
      /\ session[s] \in Object
    <2>1. s # NoSession /\ session[s].status # "destroyed" /\ s \in Sessions
        BY <1>0 DEF Undestroyed, Listed, RegistryTypeOK
    <2>2. Created(s)
        BY <2>1 DEF WellFormed
    <2> QED BY <2>1, <2>2, SessionShape
<1>2. /\ session'[s] \in Object /\ session'[s].id = session[s].id /\ session'[s] # NoSession
      /\ session'[s].status = "destroyed"
      /\ \A t \in Sessions \ {s} : session'[t] = session[t]
    <2>1. [session[s] EXCEPT !.status = "destroyed"] \in Object
        BY <1>1 DEF Object, Statuses
    <2>2. session'[s] = [session[s] EXCEPT !.status = "destroyed"]
        BY <1>0, <1>1 DEF RegistryTypeOK
    <2> QED BY <1>0, <1>1, <2>1, <2>2, RegistryNames DEF Object, RegistryTypeOK
<1>3. /\ call' \in [Callers -> Waiting \cup {Idle}]
      /\ \A j \in Callers \ {k} : call'[j] = call[j]
      /\ call'[k] # Idle => /\ storeAvailable /\ Of(k)' = s /\ call'[k].kind = "destroy"
                            /\ call'[k].write = "pending"
                            /\ call'[k].snapshot.status = "destroyed"
      /\ call'[k] = Idle => call'[k].kind = "none"
    <2>1. "destroyed" \in Statuses
        BY DEF Statuses
    <2>2. /\ call' \in [Callers -> Waiting \cup {Idle}]
          /\ \A j \in Callers \ {k} : call'[j] = call[j]
          /\ call'[k] # Idle =>
               /\ storeAvailable /\ Of(k)' = s
               /\ call'[k].kind = "destroy" /\ call'[k].write = "pending"
               /\ call'[k].snapshot = [of |-> s, status |-> "destroyed"]
          /\ call'[k] = Idle => call'[k].kind = "none"
        BY <1>0, <1>1, <2>1, SaveEffect
    <2> QED BY <2>2
<1>4. ASSUME NEW j \in Callers, call[j] # Idle
      PROVE  Of(j) \in Sessions /\ (call[j].kind = "destroy" /\ Of(j) \notin loose => Of(j) # s)
    BY <1>1, <1>4, CallShape DEF EndInv, Ending
<1>5. /\ loose \subseteq loose' /\ loose' \in SUBSET Sessions
      /\ \A i \in Ids : table'[i] = table[i] \/ table'[i] = NoSession
      /\ table' \in [Ids -> Sessions \cup {NoSession}]
      /\ gone' \subseteq gone \cup {s} /\ (s \notin loose' => gone' = gone)
    <2>1. loose \subseteq loose' /\ loose' \in SUBSET Sessions /\ (~storeAvailable => s \in loose')
        BY <1>0, <1>1 DEF RegistryTypeOK, EndMayBeLost
    <2>2. CASE storeAvailable
        BY <1>0, <2>1, <2>2 DEF RegistryTypeOK
    <2>3. CASE ~storeAvailable
        <3>1. table' = [table EXCEPT ![id] = NoSession] /\ gone' = gone \cup {s}
            BY <1>0, <2>3
        <3>2. \A i \in Ids : table'[i] = table[i] \/ table'[i] = NoSession
            BY <3>1 DEF RegistryTypeOK
        <3>3. table' \in [Ids -> Sessions \cup {NoSession}]
            BY <3>1 DEF RegistryTypeOK
        <3> QED BY <2>1, <2>3, <3>1, <3>2, <3>3
    <2> QED BY <2>2, <2>3
<1>6. RegistryTypeOK'
    <2>1. session' \in [Sessions -> Object \cup {NoSession}]
        BY <1>0, <1>2 DEF RegistryTypeOK
    <2>2. \A i \in Ids : table'[i] # NoSession => session'[table'[i]].id = i
        BY <1>2, <1>5 DEF RegistryTypeOK
    <2>3. gone' \in SUBSET Sessions
        BY <1>1, <1>5 DEF RegistryTypeOK
    <2> QED BY <1>0, <1>3, <1>5, <2>1, <2>2, <2>3 DEF RegistryTypeOK, counts
<1>7. WellFormed'
    <2>1. \A t \in Sessions : Created(t) => session'[t] # NoSession /\ session'[t].id = session[t].id
        BY <1>2 DEF Created
    <2>2. \A i \in Ids : table'[i] # NoSession => session'[table'[i]] # NoSession /\ session'[table'[i]].id = i
        BY <1>5, <2>1 DEF WellFormed, RegistryTypeOK
    <2>3. \A j \in Callers : call'[j] # Idle => session'[Of(j)'] # NoSession
        BY <1>1, <1>2, <1>3, <1>4, <2>1 DEF WellFormed, Of
    <2>4. \A i \in Ids : file[i] # NoSession =>
              session'[file[i].of] # NoSession /\ session'[file[i].of].id = i
        BY <2>1 DEF WellFormed, RegistryTypeOK, Snapshot
    <2>5. \A f \in restore.found : session'[f.of] # NoSession
        BY <2>1 DEF WellFormed, RegistryTypeOK, Snapshot
    <2>6. \A j \in Callers : call'[j].kind = "destroy" => call'[j].snapshot.status = "destroyed"
        BY <1>3 DEF WellFormed, Idle
    <2> QED BY <1>0, <2>2, <2>3, <2>4, <2>5, <2>6 DEF WellFormed, Created, Of
<1>8. ASSUME NEW j \in Callers PROVE Ending(j)'
    <2>1. CASE j = k
        <3>1. SUFFICES ASSUME call'[k].kind = "destroy", s \notin loose', call'[k] # Idle
                       PROVE  Ending(k)'
            BY <1>3, <2>1 DEF Ending
        <3>2. restore.over /\ \A i \in Callers : call[i] # Idle => Of(i) # s
            BY <1>0, <3>1 DEF EndMayBeLost, Underway
        <3>3. \A i \in Callers : call'[i] # Idle /\ Of(i)' = s => i = k
            BY <1>3, <3>2 DEF Of
        <3> QED BY <1>0, <1>2, <1>3, <3>1, <3>2, <3>3 DEF Ending
    <2>2. CASE j # k
        <3>1. call'[j] = call[j]
            BY <1>3, <2>2
        <3>2. SUFFICES ASSUME call[j].kind = "destroy", Of(j) \notin loose PROVE Ending(j)'
            BY <1>5, <3>1 DEF Ending, Of
        <3>3. call[j] # Idle /\ Of(j) \in Sessions \ {s}
            BY <1>4, <3>2 DEF Idle
        <3>4. \A i \in Callers : call'[i] # Idle /\ Of(i)' = Of(j) => i = j
            BY <1>3, <3>2, <3>3 DEF EndInv, Ending, Of
        <3> QED BY <1>0, <1>2, <3>1, <3>2, <3>3, <3>4 DEF EndInv, Ending, Of, Sealed
    <2> QED BY <2>1, <2>2
<1>9. ASSUME NEW t \in gone' \ loose' PROVE Gone(t)'
    <2>1. t \in Sessions \ {s} /\ Gone(t)
        BY <1>0, <1>5 DEF EndInv, Gone, RegistryTypeOK, Undestroyed
    <2>2. \A j \in Callers : call'[j] # Idle => Of(j)' # t
        BY <1>3, <2>1 DEF Gone, Of
    <2>3. t \notin Listed'
        BY <1>5, <2>1 DEF Gone, Listed
    <2> QED BY <1>0, <1>2, <2>1, <2>2, <2>3 DEF Gone, Created, Sealed
<1> QED BY <1>6, <1>7, <1>8, <1>9 DEF EndInv

\* A file that is listed late is one more to load, while nothing was loaded yet.
LEMMA MayListEffect ==
    ASSUME RegistryTypeOK, NEW id \in Ids, MayList(id)
    PROVE  /\ restore' \in [over : BOOLEAN, todo : SUBSET Ids, found : SUBSET Snapshot]
           /\ restore'.over = restore.over /\ restore'.found = restore.found
           /\ restore'.todo \subseteq restore.todo \cup {id}
           /\ restore.over => restore' = restore
           /\ updates' \in 0..MaxUpdates
<1>1. /\ restore \in [over : BOOLEAN, todo : SUBSET Ids, found : SUBSET Snapshot]
      /\ updates \in 0..MaxUpdates /\ MaxUpdates \in Nat
    BY RegistryNames DEF RegistryTypeOK
<1>2. CASE UNCHANGED <<restore, updates>>
    BY <1>1, <1>2
<1>3. CASE /\ ~restore.over /\ updates < MaxUpdates /\ updates' = updates + 1
           /\ restore' = [restore EXCEPT !.todo = @ \cup {id}]
    <2>1. updates' \in 0..MaxUpdates
        BY <1>1, <1>3
    <2> QED BY <1>1, <1>3, <2>1
<1> QED BY <1>2, <1>3 DEF MayList

\* A write that lands is the latest word on its session, and only a destruction
\* writes one that ends.
LEMMA LandingKeeps ==
    ASSUME RegistryInv, NEW k \in Callers, WriteLands(k)
    PROVE  RegistryInv'
<1> USE DEF RegistryInv
<1> DEFINE s == Of(k)
<1>0. /\ call[k] # Idle /\ call[k].write = "pending"
      /\ file' = [file EXCEPT ![session[s].id] = call[k].snapshot]
      /\ call' = [call EXCEPT ![k].write = "landed"]
      /\ UNCHANGED <<session, table, storeAvailable, gone, loose, crossed,
                     maxConcurrentSessions, failures>>
      /\ MayList(session[s].id)
    BY DEF WriteLands, Pending
<1>1. /\ s \in Sessions /\ Created(s) /\ session[s] \in Object
      /\ call[k] \in Waiting /\ call[k].snapshot \in Snapshot
    <2>1. s \in Sessions /\ Created(s) /\ call[k] \in Waiting /\ call[k].snapshot \in Snapshot
        BY <1>0, CallShape DEF WellFormed
    <2> QED BY <2>1, SessionShape
<1>2. /\ call'[k] \in Waiting /\ call'[k] # Idle
      /\ call'[k].kind = call[k].kind /\ call'[k].snapshot = call[k].snapshot
      /\ call'[k].write = "landed" /\ \A j \in Callers \ {k} : call'[j] = call[j]
    <2>1. call'[k] = [call[k] EXCEPT !.write = "landed"]
        BY <1>0 DEF RegistryTypeOK
    <2>2. call'[k] \in Waiting
        BY <1>1, <2>1 DEF Waiting
    <2> QED BY <1>0, <1>1, <2>1, <2>2 DEF Waiting, Idle, RegistryTypeOK
<1>3. \A j \in Callers : (call'[j] # Idle <=> call[j] # Idle) /\ Of(j)' = Of(j)
                         /\ call'[j].kind = call[j].kind
    BY <1>0, <1>2 DEF Of
<1>4. /\ file' \in [Ids -> Snapshot \cup {NoSession}]
      /\ \A i \in Ids : IF i = session[s].id THEN file'[i] = call[k].snapshot
                                             ELSE file'[i] = file[i]
    BY <1>0, <1>1 DEF RegistryTypeOK
<1>r. /\ restore' \in [over : BOOLEAN, todo : SUBSET Ids, found : SUBSET Snapshot]
      /\ restore'.over = restore.over /\ restore'.found = restore.found
      /\ restore'.todo \subseteq restore.todo \cup {session[s].id}
      /\ restore.over => restore' = restore
      /\ updates' \in 0..MaxUpdates
    <2>1. session[s].id \in Ids
        BY <1>1 DEF Object
    <2> HIDE DEF s
    <2> QED BY <1>0, <2>1, MayListEffect
<1>5. RegistryTypeOK'
    <2>1. call' \in [Callers -> Waiting \cup {Idle}]
        BY <1>0, <1>2 DEF RegistryTypeOK
    <2> QED BY <1>0, <1>4, <1>r, <2>1 DEF RegistryTypeOK, counts
<1>6. WellFormed'
    <2>1. \A j \in Callers : call'[j] # Idle => session[Of(j)'] # NoSession
        BY <1>3 DEF WellFormed, Created
    <2>2. \A i \in Ids : file'[i] # NoSession => session[file'[i].of] # NoSession /\ session[file'[i].of].id = i
        BY <1>1, <1>4 DEF WellFormed, Created, Of
    <2>3. \A i \in restore'.todo : file'[i] # NoSession
        BY <1>1, <1>4, <1>r, RegistryNames DEF WellFormed, RegistryTypeOK
    <2>4. \A j \in Callers : call'[j].kind = "destroy" => call'[j].snapshot.status = "destroyed"
        BY <1>2 DEF WellFormed
    <2> QED BY <1>0, <1>r, <2>1, <2>2, <2>3, <2>4 DEF WellFormed, Created, Of
<1>7. \A t \in Sessions : Sealed(t) /\ (t = s => call[k].snapshot.status = "destroyed") => Sealed(t)'
    BY <1>4 DEF Sealed, Of
<1>8. call[k].snapshot.status = "destroyed" => Sealed(s)'
    <2> SUFFICES ASSUME call[k].snapshot.status = "destroyed", NEW i \in Ids,
                        file'[i] # NoSession, file'[i].of = s
                 PROVE  file'[i].status = "destroyed"
        BY <1>0, <1>3 DEF Sealed
    <2>1. CASE i = session[s].id
        BY <1>4, <2>1
    <2>2. CASE i # session[s].id
        BY <1>4, <2>2 DEF WellFormed
    <2> QED BY <2>1, <2>2
<1>9. ASSUME NEW j \in Callers PROVE Ending(j)'
    <2>1. SUFFICES ASSUME call[j].kind = "destroy", Of(j) \notin loose PROVE Ending(j)'
        BY <1>0, <1>3 DEF Ending
    <2>2. call[j] # Idle /\ Of(j) \in Sessions
        BY <2>1, CallShape DEF Idle
    <2>3. /\ session[Of(j)].status = "destroyed" /\ restore.over /\ call[j].write # "failed"
          /\ call[j].write = "landed" => Sealed(Of(j))
          /\ \A i \in Callers : call[i] # Idle /\ Of(i) = Of(j) => i = j
        BY <2>1 DEF EndInv, Ending
    <2>4. call'[j].write = "landed" => Sealed(Of(j))'
        <3>1. CASE j = k
            BY <1>3, <1>8, <2>1, <3>1 DEF WellFormed, Sealed
        <3>2. CASE j # k
            BY <1>0, <1>2, <1>3, <1>7, <2>2, <2>3, <3>2 DEF Sealed
        <3> QED BY <3>1, <3>2
    <2>5. call'[j].write # "failed"
        BY <1>2, <2>3
    <2> QED BY <1>0, <1>3, <1>r, <2>3, <2>4, <2>5 DEF Ending
<1>10. ASSUME NEW t \in gone \ loose PROVE Gone(t)'
    <2>1. Gone(t) /\ t \in Sessions /\ t # s
        BY <1>0 DEF EndInv, Gone, RegistryTypeOK
    <2> QED BY <1>0, <1>3, <1>7, <1>r, <2>1 DEF Gone, Listed, Created
<1> QED BY <1>0, <1>5, <1>6, <1>9, <1>10 DEF EndInv

\* A destruction whose write fails is loose; another call changes nothing yet.
LEMMA FailureKeeps ==
    ASSUME RegistryInv, NEW k \in Callers, WriteFails(k)
    PROVE  RegistryInv'
<1> USE DEF RegistryInv
<1>0. /\ call[k] # Idle /\ call[k].write = "pending"
      /\ failures < MaxFailures /\ failures' = failures + 1
      /\ call' = [call EXCEPT ![k].write = "failed"]
      /\ loose' = IF call[k].kind = "destroy" THEN loose \cup {Of(k)} ELSE loose
      /\ UNCHANGED <<session, table, file, storeAvailable, restore, gone, crossed,
                     maxConcurrentSessions, updates>>
    BY DEF WriteFails, Pending
<1>1. Of(k) \in Sessions /\ call[k] \in Waiting
    BY <1>0, CallShape
<1>2. /\ call'[k] \in Waiting /\ call'[k] # Idle
      /\ call'[k].kind = call[k].kind /\ call'[k].snapshot = call[k].snapshot
      /\ \A j \in Callers \ {k} : call'[j] = call[j]
    <2>1. call'[k] = [call[k] EXCEPT !.write = "failed"]
        BY <1>0 DEF RegistryTypeOK
    <2>2. call'[k] \in Waiting
        BY <1>1, <2>1 DEF Waiting
    <2> QED BY <1>0, <1>1, <2>1, <2>2 DEF Waiting, Idle, RegistryTypeOK
<1>3. \A j \in Callers : (call'[j] # Idle <=> call[j] # Idle) /\ Of(j)' = Of(j)
                         /\ call'[j].kind = call[j].kind /\ call'[j].snapshot = call[j].snapshot
    BY <1>0, <1>2 DEF Of
<1>4. loose \subseteq loose' /\ loose' \in SUBSET Sessions
    BY <1>0, <1>1 DEF RegistryTypeOK
<1>5. RegistryTypeOK'
    <2>1. call' \in [Callers -> Waiting \cup {Idle}]
        BY <1>0, <1>2 DEF RegistryTypeOK
    <2>2. failures' \in 0..MaxFailures
        BY <1>0, RegistryNames DEF RegistryTypeOK
    <2> QED BY <1>0, <1>4, <2>1, <2>2 DEF RegistryTypeOK
<1>6. WellFormed'
    BY <1>0, <1>3 DEF WellFormed, Created
<1>7. ASSUME NEW j \in Callers PROVE Ending(j)'
    <2>1. SUFFICES ASSUME call[j].kind = "destroy", Of(j) \notin loose' PROVE Ending(j)'
        BY <1>3 DEF Ending
    <2>2. j # k
        BY <1>0, <2>1
    <2>3. call'[j] = call[j] /\ Ending(j) /\ Of(j) \notin loose
        BY <1>2, <1>4, <2>1, <2>2 DEF EndInv
    <2> QED BY <1>0, <1>3, <2>1, <2>3 DEF Ending, Sealed
<1>8. ASSUME NEW t \in gone' \ loose' PROVE Gone(t)'
    <2>1. Gone(t)
        BY <1>0, <1>4 DEF EndInv
    <2> QED BY <1>0, <1>3, <2>1 DEF Gone, Listed, Created, Sealed
<1> QED BY <1>5, <1>6, <1>7, <1>8 DEF EndInv

\* A destruction that returns leaves its session gone; a creation or an update
\* that returns is none of a session that is gone.
LEMMA ReturnKeeps ==
    ASSUME RegistryInv, NEW k \in Callers, Return(k)
    PROVE  RegistryInv'
<1> USE DEF RegistryInv
<1> DEFINE s == Of(k)
           id == session[s].id
<1>0. /\ call[k] # Idle /\ call[k].write # "pending"
      /\ call' = [call EXCEPT ![k] = Idle]
      /\ storeAvailable' = (storeAvailable /\ (call[k].write # "failed" \/ call[k].kind = "destroy"))
      /\ UNCHANGED <<file, restore, loose, crossed, counts>>
    BY DEF Return
<1>1. /\ s \in Sessions /\ Created(s) /\ session[s] \in Object
      /\ call[k].kind \in {"create", "update", "destroy"}
      /\ call[k].write \in {"landed", "failed"}
    <2>1. s \in Sessions /\ Created(s)
        BY <1>0, CallShape DEF WellFormed
    <2> QED BY <1>0, <2>1, CallShape, SessionShape
<1>2. \/ /\ call[k].kind = "create" /\ table' = [table EXCEPT ![id] = s]
         /\ session' = [session EXCEPT ![s].status = "active"] /\ gone' = gone
      \/ /\ call[k].kind = "destroy" /\ table' = [table EXCEPT ![id] = NoSession]
         /\ gone' = gone \cup {s} /\ session' = session
      \/ call[k].kind = "update" /\ UNCHANGED <<table, session, gone>>
    BY <1>1 DEF Return
<1>3. /\ call' \in [Callers -> Waiting \cup {Idle}] /\ call'[k] = Idle
      /\ \A j \in Callers \ {k} : call'[j] = call[j]
    BY <1>0 DEF RegistryTypeOK
<1>4. /\ session' \in [Sessions -> Object \cup {NoSession}]
      /\ \A t \in Sessions : Created(t) => session'[t] # NoSession /\ session'[t].id = session[t].id
      /\ \A t \in Sessions \ {s} : session'[t] = session[t]
      /\ call[k].kind # "create" => session' = session
    <2>1. CASE session' = session
        BY <2>1 DEF RegistryTypeOK, Created
    <2>2. CASE session' = [session EXCEPT ![s].status = "active"] /\ call[k].kind = "create"
        <3>1. session'[s] = [session[s] EXCEPT !.status = "active"]
            BY <1>1, <2>2 DEF RegistryTypeOK
        <3>2. session'[s] \in Object /\ session'[s].id = session[s].id
            BY <1>1, <3>1 DEF Object, Statuses
        <3>3. \A t \in Sessions \ {s} : session'[t] = session[t]
            BY <2>2 DEF RegistryTypeOK
        <3> QED BY <1>1, <2>2, <3>2, <3>3, RegistryNames DEF RegistryTypeOK, Created
    <2> QED BY <1>2, <2>1, <2>2
<1>5. /\ table' \in [Ids -> Sessions \cup {NoSession}]
      /\ \A i \in Ids : \/ table'[i] = table[i]
                        \/ table'[i] = NoSession
                        \/ i = id /\ table'[i] = s /\ call[k].kind = "create"
      /\ call[k].kind = "destroy" => table'[id] = NoSession
    BY <1>1, <1>2 DEF RegistryTypeOK, Object
<1>6. gone' \in SUBSET Sessions /\ gone' \subseteq gone \cup {s}
      /\ (call[k].kind # "destroy" => gone' = gone)
    BY <1>1, <1>2 DEF RegistryTypeOK
<1>7. WellFormed'
    <2>1. \A i \in Ids : table'[i] # NoSession => session'[table'[i]] # NoSession /\ session'[table'[i]].id = i
        BY <1>1, <1>4, <1>5 DEF WellFormed, RegistryTypeOK
    <2>2. \A j \in Callers : call'[j] # Idle => session'[Of(j)'] # NoSession
        BY <1>3, <1>4, CallShape DEF WellFormed, Of
    <2>3. \A i \in Ids : file[i] # NoSession =>
              session'[file[i].of] # NoSession /\ session'[file[i].of].id = i
        BY <1>4 DEF WellFormed, RegistryTypeOK, Snapshot
    <2>4. \A f \in restore.found : session'[f.of] # NoSession
        BY <1>4 DEF WellFormed, RegistryTypeOK, Snapshot
    <2>5. \A j \in Callers : call'[j].kind = "destroy" => call'[j].snapshot.status = "destroyed"
        BY <1>3 DEF WellFormed, Idle
    <2> QED BY <1>0, <2>1, <2>2, <2>3, <2>4, <2>5 DEF WellFormed, Created, Of
<1>8. RegistryTypeOK'
    <2>1. storeAvailable' \in BOOLEAN
        BY <1>0
    <2>2. \A i \in Ids : table'[i] # NoSession => session'[table'[i]].id = i
        BY <1>7 DEF WellFormed
    <2> QED BY <1>0, <1>3, <1>4, <1>5, <1>6, <2>1, <2>2 DEF RegistryTypeOK, counts
<1>9. ASSUME NEW j \in Callers PROVE Ending(j)'
    <2>1. CASE j = k
        BY <1>3, <2>1 DEF Ending, Idle
    <2>2. CASE j # k
        <3>1. call'[j] = call[j]
            BY <1>3, <2>2
        <3>2. SUFFICES ASSUME call[j].kind = "destroy", Of(j) \notin loose PROVE Ending(j)'
            BY <1>0, <3>1 DEF Ending, Of
        <3>3. call[j] # Idle /\ Ending(j) /\ Of(j) \in Sessions
            BY <3>2, CallShape DEF Idle, EndInv
        <3>4. Of(j) # s
            BY <1>0, <2>2, <3>2, <3>3 DEF Ending
        <3>5. \A i \in Callers : call'[i] # Idle /\ Of(i)' = Of(j) => i = j
            BY <1>3, <3>2, <3>3 DEF Ending, Of
        <3> QED BY <1>0, <1>4, <3>1, <3>2, <3>3, <3>4, <3>5 DEF Ending, Of, Sealed
    <2> QED BY <2>1, <2>2
<1>10. ASSUME NEW t \in gone' \ loose PROVE Gone(t)'
    <2>1. CASE t \in gone
        <3>1. Gone(t) /\ t \in Sessions /\ t # s
            BY <1>0, <2>1, <1>10 DEF EndInv, Gone, RegistryTypeOK
        <3>2. t \notin Listed'
            BY <1>5, <3>1 DEF Gone, Listed
        <3>3. \A j \in Callers : call'[j] # Idle => Of(j)' # t
            BY <1>3, <3>1 DEF Gone, Of
        <3> QED BY <1>0, <1>4, <3>1, <3>2, <3>3 DEF Gone, Created, Sealed
    <2>2. CASE t \notin gone
        <3>1. t = s /\ call[k].kind = "destroy"
            BY <1>6, <1>10, <2>2
        <3>2. /\ restore.over /\ call[k].write # "failed"
              /\ call[k].write = "landed" => Sealed(s)
              /\ \A j \in Callers : call[j] # Idle /\ Of(j) = s => j = k
            BY <1>10, <3>1 DEF EndInv, Ending
        <3>3. Sealed(s)
            BY <1>1, <3>2
        <3>4. s \notin Listed'
            <4> SUFFICES ASSUME NEW i \in Ids, table'[i] = s PROVE FALSE
                BY DEF Listed
            <4>1. table[i] = s \/ s = NoSession
                BY <1>5, <3>1
            <4>2. i = id
                BY <1>1, <4>1, RegistryNames DEF WellFormed
            <4> QED BY <1>1, <1>5, <3>1, <4>2, RegistryNames
        <3>5. \A j \in Callers : call'[j] # Idle => Of(j)' # s
            BY <1>3, <3>2 DEF Of
        <3>6. restore.found = {}
            BY <3>2 DEF WellFormed
        <3> QED BY <1>0, <1>1, <1>4, <3>1, <3>3, <3>4, <3>5, <3>6 DEF Gone, Created, Sealed
    <2> QED BY <2>1, <2>2
<1> QED BY <1>0, <1>7, <1>8, <1>9, <1>10 DEF EndInv

\* A file that the restore reads tells the end of a session that is gone.
LEMMA RestoreLoadsKeeps ==
    ASSUME RegistryInv, NEW id \in Ids, RestoreLoads(id)
    PROVE  RegistryInv'
<1> USE DEF RegistryInv
<1>0. /\ id \in restore.todo /\ file[id] # NoSession /\ file[id] \in Snapshot
      /\ ~restore.over /\ Created(file[id].of)
      /\ restore' = [restore EXCEPT !.todo = @ \ {id}, !.found = @ \cup {file[id]}]
      /\ UNCHANGED <<session, table, file, call, storeAvailable, gone, loose, crossed, counts>>
    BY DEF RestoreLoads, WellFormed, RegistryTypeOK
<1>1. /\ restore'.over = restore.over /\ restore'.todo = restore.todo \ {id}
      /\ restore'.found = restore.found \cup {file[id]}
      /\ restore' \in [over : BOOLEAN, todo : SUBSET Ids, found : SUBSET Snapshot]
    <2>1. restore \in [over : BOOLEAN, todo : SUBSET Ids, found : SUBSET Snapshot]
        BY DEF RegistryTypeOK
    <2> HIDE DEF RegistryInv
    <2> QED BY <1>0, <2>1
<1>2. RegistryTypeOK'
    BY <1>0, <1>1 DEF RegistryTypeOK, counts
<1>3. WellFormed'
    BY <1>0, <1>1 DEF WellFormed, Created, Of
<1>4. \A j \in Callers : Ending(j)'
    BY <1>0 DEF EndInv, Ending, Of
<1>5. ASSUME NEW t \in gone' \ loose' PROVE Gone(t)'
    <2>1. Gone(t)
        BY <1>0, <1>5 DEF EndInv
    <2> QED BY <1>0, <1>1, <2>1 DEF Gone, Listed, Created, Of, Sealed
<1> QED BY <1>2, <1>3, <1>4, <1>5 DEF EndInv

\* The restore puts back what it found alive, and a session that is gone is
\* not among that.
LEMMA RestoreEndsKeeps ==
    ASSUME RegistryInv, RestoreEnds
    PROVE  RegistryInv'
<1> USE DEF RegistryInv
<1>0. /\ ~restore.over /\ restore' = [over |-> TRUE, todo |-> {}, found |-> {}]
      /\ UNCHANGED <<file, call, storeAvailable, gone, loose, crossed, counts>>
    BY DEF RestoreEnds
<1>1. PICK found \in {{}, {f \in restore.found : f.status # "destroyed"}} :
        /\ table' = [i \in Ids |->
               IF \E f \in found : session[f.of].id = i
               THEN (CHOOSE f \in found : session[f.of].id = i).of ELSE table[i]]
        /\ session' = [s \in Sessions |->
               IF \E f \in found : f.of = s
               THEN [session[s] EXCEPT !.status = (CHOOSE f \in found : f.of = s).status]
               ELSE session[s]]
    BY DEF RestoreEnds
<1>2. \A f \in found : /\ f \in Snapshot /\ f \in restore.found /\ f.status # "destroyed"
                       /\ f.of \in Sessions /\ f.status \in Statuses /\ Created(f.of)
    BY DEF WellFormed, RegistryTypeOK, Snapshot
<1>3. ASSUME NEW i \in Ids
      PROVE  \/ table'[i] = table[i]
             \/ \E f \in found : session[f.of].id = i /\ table'[i] = f.of
    BY <1>1
<1>4. ASSUME NEW s \in Sessions
      PROVE  \/ session'[s] = session[s]
             \/ /\ Created(s) /\ session'[s] \in Object /\ session'[s] # NoSession
                /\ session'[s].id = session[s].id /\ \E f \in found : f.of = s
    <2>1. CASE \E f \in found : f.of = s
        <3>1. PICK f \in found : f.of = s /\ session'[s] = [session[s] EXCEPT !.status = f.status]
            BY <1>1, <2>1
        <3>2. session[s] \in Object /\ f.status \in Statuses
            BY <1>2, <3>1, SessionShape
        <3>3. session'[s] \in Object /\ session'[s].id = session[s].id
            BY <3>1, <3>2 DEF Object
        <3> QED BY <1>2, <3>1, <3>3, RegistryNames
    <2>2. CASE ~\E f \in found : f.of = s
        BY <1>1, <2>2
    <2> QED BY <2>1, <2>2
<1>5. \A s \in Sessions : Created(s) => session'[s] # NoSession /\ session'[s].id = session[s].id
    BY <1>4 DEF Created
<1>6. /\ session' \in [Sessions -> Object \cup {NoSession}]
      /\ table' \in [Ids -> Sessions \cup {NoSession}]
    <2>1. \A s \in Sessions : session'[s] \in Object \cup {NoSession}
        BY <1>4 DEF RegistryTypeOK
    <2>2. \A i \in Ids : table'[i] \in Sessions \cup {NoSession}
        BY <1>2, <1>3 DEF RegistryTypeOK
    <2> QED BY <1>1, <2>1, <2>2
<1>7. \A i \in Ids : table'[i] # NoSession => session'[table'[i]] # NoSession /\ session'[table'[i]].id = i
    BY <1>2, <1>3, <1>5 DEF WellFormed, RegistryTypeOK
<1>8. RegistryTypeOK'
    BY <1>0, <1>6, <1>7 DEF RegistryTypeOK, counts
<1>9. WellFormed'
    <2>1. \A j \in Callers : call'[j] # Idle => session'[Of(j)'] # NoSession
        BY <1>0, <1>5, CallShape DEF WellFormed, Of
    <2>2. \A i \in Ids : file[i] # NoSession => session'[file[i].of] # NoSession /\ session'[file[i].of].id = i
        BY <1>5 DEF WellFormed, RegistryTypeOK, Snapshot
    <2> QED BY <1>0, <1>7, <2>1, <2>2 DEF WellFormed, Created, Of
<1>10. \A j \in Callers : Ending(j)'
    BY <1>0 DEF EndInv, Ending, Of
<1>11. ASSUME NEW t \in gone' \ loose' PROVE Gone(t)'
    <2>1. Gone(t) /\ t \in Sessions
        BY <1>0, <1>11 DEF EndInv, RegistryTypeOK
    <2>2. \A f \in found : f.of # t
        BY <1>2, <2>1 DEF Gone
    <2>3. t \notin Listed'
        BY <1>3, <2>1, <2>2 DEF Gone, Listed
    <2>4. Sealed(t)'
        BY <1>0, <2>1 DEF Gone, Sealed
    <2> QED BY <1>0, <1>5, <2>1, <2>3, <2>4 DEF Gone, Created, Of
<1> QED BY <1>0, <1>8, <1>9, <1>10, <1>11 DEF EndInv

\* dispose empties the Map.
LEMMA DisposeKeeps ==
    ASSUME RegistryInv, Dispose
    PROVE  RegistryInv'
<1> USE DEF RegistryInv
<1>0. /\ table' = [i \in Ids |-> NoSession]
      /\ UNCHANGED <<session, file, call, storeAvailable, restore, gone, loose, crossed, counts>>
    BY DEF Dispose
<1>1. RegistryTypeOK'
    BY <1>0 DEF RegistryTypeOK, counts
<1>2. WellFormed'
    BY <1>0 DEF WellFormed, Created, Of
<1>3. \A j \in Callers : Ending(j)'
    BY <1>0 DEF EndInv, Ending, Of, Sealed
<1>4. ASSUME NEW t \in gone' \ loose' PROVE Gone(t)'
    <2>1. Gone(t) /\ Created(t) /\ t \in Sessions /\ t # NoSession
        BY <1>0, <1>4, RegistryNames DEF EndInv, Gone, RegistryTypeOK
    <2>2. t \notin Listed'
        BY <1>0, <2>1 DEF Listed
    <2> QED BY <1>0, <2>1, <2>2 DEF Gone, Created, Of, Sealed
<1> QED BY <1>0, <1>1, <1>2, <1>3, <1>4 DEF EndInv

\* After a restart only the files are left, and the ends they do not tell are loose.
LEMMA RestartKeeps ==
    ASSUME RegistryInv, Restart
    PROVE  RegistryInv'
<1> USE DEF RegistryInv
<1>0. /\ table' = [i \in Ids |-> NoSession] /\ call' = [k \in Callers |-> Idle]
      /\ storeAvailable' = TRUE
      /\ restore' = [over |-> FALSE, todo |-> {i \in Ids : file[i] # NoSession}, found |-> {}]
      /\ loose' = loose \cup {Of(k) : k \in {j \in Callers : Pending(j) /\ call[j].kind = "destroy"}}
      /\ UNCHANGED <<session, file, gone, crossed, counts>>
    BY DEF Restart, RestoreFrom
<1>1. loose' \in SUBSET Sessions
    BY <1>0, CallShape DEF RegistryTypeOK, Pending
<1>2. restore' \in [over : BOOLEAN, todo : SUBSET Ids, found : SUBSET Snapshot]
    <2>1. restore'.found = {} /\ {} \in SUBSET Snapshot /\ {i \in Ids : file[i] # NoSession} \in SUBSET Ids
        BY <1>0
    <2> HIDE DEF RegistryInv
    <2> QED BY <1>0, <2>1
<1>3. RegistryTypeOK'
    BY <1>0, <1>1, <1>2 DEF RegistryTypeOK, counts
<1>4. \A j \in Callers : call'[j] = Idle /\ call'[j].kind = "none"
    BY <1>0 DEF Idle
<1>5. WellFormed'
    BY <1>0, <1>4 DEF WellFormed, Created
<1>6. \A j \in Callers : Ending(j)'
    BY <1>4 DEF Ending
<1>7. ASSUME NEW t \in gone' \ loose' PROVE Gone(t)'
    <2>1. Gone(t) /\ t \in Sessions /\ t # NoSession
        BY <1>0, <1>7, RegistryNames DEF EndInv, RegistryTypeOK
    <2>2. t \notin Listed'
        BY <1>0, <2>1 DEF Listed
    <2> QED BY <1>0, <1>4, <2>1, <2>2 DEF Gone, Created, Sealed
<1> QED BY <1>3, <1>5, <1>6, <1>7 DEF EndInv

\* Every step of the registry keeps the invariant.
LEMMA RegistryMovesKeep == RegistryInv /\ (RegistryMoves \/ UNCHANGED registryVars) => RegistryInv'
<1> SUFFICES ASSUME RegistryInv, RegistryMoves \/ UNCHANGED registryVars PROVE RegistryInv'
    OBVIOUS
<1>1. CASE RegistryStep
    <2>1. PICK k \in Callers :
            \/ \E s \in Sessions, id \in Ids, workspace \in Workspaces : Create(k, s, id, workspace)
            \/ \E id \in Ids : Update(k, id, "paused") \/ Update(k, id, "active") \/ Destroy(k, id)
        BY <1>1 DEF RegistryStep, Pause, Resume
    <2> QED BY <2>1, CreateKeeps, UpdateKeeps, DestroyKeeps
<1>2. CASE RegistryContinues
    BY <1>2, LandingKeeps, FailureKeeps, ReturnKeeps, RestoreLoadsKeeps, RestoreEndsKeeps
       DEF RegistryContinues
<1>3. CASE Dispose
    BY <1>3, DisposeKeeps
<1>4. CASE Restart
    BY <1>4, RestartKeeps
<1>5. CASE UNCHANGED registryVars
    <2>1. UNCHANGED <<session, table, file, call, storeAvailable, restore, gone, loose, crossed,
                      maxConcurrentSessions, updates, failures>>
        BY <1>5 DEF registryVars, counts
    <2> QED BY <2>1 DEF RegistryInv, RegistryTypeOK, WellFormed, EndInv, Ending, Gone, Created,
                        Of, Sealed, Listed
<1> QED BY <1>1, <1>2, <1>3, <1>4, <1>5 DEF RegistryMoves

\* What the invariant says of the sessions that are gone.
LEMMA GoneIsGone == RegistryInv => DestroyedStaysDestroyed
BY DEF RegistryInv, EndInv, Gone, DestroyedStaysDestroyed, Undestroyed

------------------------------------------------------------------------------
(* Sessions keep apart.                                                      *)

Busy(k) == call[k] # Idle
IdOf(k) == session[Of(k)].id
Alive(i) == file[i] # NoSession /\ file[i].status # "destroyed"

\* No creation has crossed another call, and every end has reached its file.
Quiet == ~crossed /\ loose = {}

\* Until the restore is over there is nothing else, and it reads what the files say.
RestoredFirst ==
    /\ ~restore.over => /\ \A i \in Ids : table[i] = NoSession
                        /\ \A k \in Callers : ~Busy(k)
    /\ \A f \in restore.found : \E i \in Ids : file[i] = f

\* A creation under way has its id for itself.
CreatesAlone ==
    \A k \in Callers : call[k].kind = "create" =>
        /\ table[IdOf(k)] = NoSession
        /\ Alive(IdOf(k)) => file[IdOf(k)].of = Of(k)
        /\ \A j \in Callers : Busy(j) /\ IdOf(j) = IdOf(k) => j = k

\* Another call is on the session the Map has, unless the Map was emptied.
CallsListed(closed) ==
    \A k \in Callers : call[k].kind \in {"update", "destroy"} =>
        table[IdOf(k)] = Of(k) \/ (closed /\ table[IdOf(k)] = NoSession)

\* Map and files tell of the same session, and a destroyed one is about to go.
MapFollowsFiles ==
    /\ \A i \in Ids : Alive(i) /\ table[i] # NoSession => file[i].of = table[i]
    /\ \A i \in Ids : table[i] # NoSession /\ session[table[i]].status = "destroyed" =>
           \E k \in Callers : call[k].kind = "destroy" /\ Of(k) = table[i]

Orderly(closed) == RestoredFirst /\ CreatesAlone /\ CallsListed(closed) /\ MapFollowsFiles

\* The sessions that are listed, or that a call or a file may bring into the
\* Map, save those whose destruction is under way.
Present ==
    {s \in Sessions :
        /\ \A k \in Callers : call[k].kind = "destroy" => Of(k) # s
        /\ \/ s \in Undestroyed
           \/ \E i \in Ids : Alive(i) /\ file[i].of = s
           \/ \E k \in Callers : Busy(k) /\ Of(k) = s}

Room ==
    /\ \A s, t \in Present : s # t => session[s].workspace # session[t].workspace
    /\ IsFiniteSet(Present) /\ Cardinality(Present) <= maxConcurrentSessions

\* closed: the engine is destroyed, and nothing is created.
ApartInv(closed) == Quiet => Orderly(closed) /\ Room

\* What refers to a session refers to one with an id, a status and a workspace.
LEMMA References ==
    ASSUME RegistryInv
    PROVE  /\ \A k \in Callers : Busy(k) =>
                  /\ Of(k) \in Sessions /\ Of(k) # NoSession /\ IdOf(k) \in Ids
                  /\ call[k].kind \in {"create", "update", "destroy"}
           /\ \A k \in Callers : ~Busy(k) => call[k].kind = "none"
           /\ \A i \in Ids : table[i] # NoSession =>
                  table[i] \in Sessions /\ session[table[i]].id = i
           /\ \A i \in Ids : file[i] # NoSession =>
                  file[i].of \in Sessions /\ session[file[i].of].id = i
           /\ \A s \in Sessions : s # NoSession
<1> USE DEF RegistryInv
<1>1. \A s \in Sessions : s # NoSession
    BY RegistryNames
<1>2. ASSUME NEW k \in Callers, Busy(k)
      PROVE  /\ Of(k) \in Sessions /\ IdOf(k) \in Ids
             /\ call[k].kind \in {"create", "update", "destroy"}
    <2>1. Of(k) \in Sessions /\ call[k].kind \in {"create", "update", "destroy"} /\ Created(Of(k))
        BY <1>2, CallShape DEF Busy, WellFormed
    <2>2. session[Of(k)] \in Object
        BY <2>1, SessionShape
    <2> QED BY <2>1, <2>2 DEF IdOf, Object
<1>3. \A k \in Callers : ~Busy(k) => call[k].kind = "none"
    BY DEF Busy, Idle
<1>4. \A i \in Ids : table[i] # NoSession => table[i] \in Sessions /\ session[table[i]].id = i
    BY DEF RegistryTypeOK
<1>5. \A i \in Ids : file[i] # NoSession => file[i].of \in Sessions /\ session[file[i].of].id = i
    BY DEF WellFormed, RegistryTypeOK, Snapshot
<1> QED BY <1>1, <1>2, <1>3, <1>4, <1>5

\* Who is listed and not destroyed is present.
LEMMA UndestroyedPresent == RegistryInv /\ loose = {} => Undestroyed \subseteq Present
<1> SUFFICES ASSUME RegistryInv, loose = {}, NEW s \in Undestroyed PROVE s \in Present
    OBVIOUS
<1>1. s \in Sessions /\ session[s].status # "destroyed"
    BY DEF Undestroyed, Listed, RegistryInv, RegistryTypeOK
<1>2. \A k \in Callers : call[k].kind = "destroy" => Of(k) # s
    BY <1>1 DEF RegistryInv, EndInv, Ending
<1> QED BY <1>1, <1>2 DEF Present

\* Who is present exists.
LEMMA PresentCreated == RegistryInv => \A s \in Present : s \in Sessions /\ Created(s)
<1> SUFFICES ASSUME RegistryInv, NEW s \in Present PROVE s \in Sessions /\ Created(s)
    OBVIOUS
<1>1. CASE s \in Undestroyed
    BY <1>1 DEF Present, Undestroyed, Listed, RegistryInv, WellFormed
<1>2. CASE \E i \in Ids : Alive(i) /\ file[i].of = s
    BY <1>2 DEF Present, Alive, RegistryInv, WellFormed
<1>3. CASE \E k \in Callers : Busy(k) /\ Of(k) = s
    BY <1>3 DEF Present, Busy, RegistryInv, WellFormed
<1> QED BY <1>1, <1>2, <1>3 DEF Present

\* Fewer present sessions have room where more had.
LEMMA FewerHaveRoom ==
    ASSUME Room, RegistryInv, Present' \subseteq Present,
           \A s \in Present : session'[s].workspace = session[s].workspace,
           UNCHANGED maxConcurrentSessions
    PROVE  Room'
<1>1. \A s, t \in Present' : s # t => session'[s].workspace # session'[t].workspace
    BY DEF Room
<1>2. IsFiniteSet(Present') /\ Cardinality(Present') <= Cardinality(Present)
    BY FS_Subset DEF Room
<1>3. Cardinality(Present') \in Nat /\ Cardinality(Present) \in Nat
    BY <1>2, FS_CardinalityType DEF Room
<1>4. maxConcurrentSessions \in Nat
    BY RegistryNames DEF RegistryInv, RegistryTypeOK
<1>5. Cardinality(Present') <= maxConcurrentSessions'
    BY <1>2, <1>3, <1>4 DEF Room
<1> QED BY <1>1, <1>2, <1>5 DEF Room

\* What the invariant says of the sessions listed.
LEMMA RoomKeepsApart == RegistryInv /\ (Quiet => Room) => SessionsKeepApart
<1> SUFFICES ASSUME RegistryInv, Room, loose = {}
             PROVE  /\ \A s, t \in Undestroyed : s # t => session[s].workspace # session[t].workspace
                    /\ Cardinality(Undestroyed) <= maxConcurrentSessions
    BY DEF SessionsKeepApart, Quiet
<1>1. Undestroyed \subseteq Present
    BY UndestroyedPresent
<1>2. IsFiniteSet(Undestroyed) /\ Cardinality(Undestroyed) <= Cardinality(Present)
    BY <1>1, FS_Subset DEF Room
<1>3. Cardinality(Undestroyed) \in Nat /\ Cardinality(Present) \in Nat
    BY <1>2, FS_CardinalityType DEF Room
<1>4. maxConcurrentSessions \in Nat
    BY RegistryNames DEF RegistryInv, RegistryTypeOK
<1> QED BY <1>1, <1>2, <1>3, <1>4 DEF Room

\* At first there is nothing.
LEMMA ApartStarts == RegistryInit => ApartInv(FALSE)
<1> SUFFICES ASSUME RegistryInit PROVE Orderly(FALSE) /\ Room
    BY DEF ApartInv
<1>1. /\ \A k \in Callers : call[k] = Idle /\ call[k].kind = "none"
      /\ \A i \in Ids : table[i] = NoSession /\ file[i] = NoSession
      /\ restore.found = {} /\ maxConcurrentSessions \in Nat
    BY RegistryNames DEF RegistryInit, RestoreFrom, Idle
<1>2. Orderly(FALSE)
    BY <1>1 DEF Orderly, RestoredFirst, CreatesAlone, CallsListed, MapFollowsFiles, Busy, Alive
<1>3. Present = {}
    BY <1>1 DEF Present, Undestroyed, Listed, Alive, Busy
<1>4. Room
    BY <1>1, <1>3, FS_EmptySet DEF Room
<1> QED BY <1>2, <1>4

\* createSession that crosses nothing sees all that is present.
LEMMA CreateApart ==
    ASSUME RegistryInv, RegistryInv', ApartInv(FALSE), Quiet', NEW k \in Callers,
           NEW s \in Sessions, NEW id \in Ids, NEW workspace \in Workspaces,
           Create(k, s, id, workspace)
    PROVE  ApartInv(FALSE)'
<1> DEFINE new == [id |-> id, workspace |-> workspace, status |-> "active"]
<1>0. /\ call[k] = Idle /\ session[s] = NoSession
      /\ \A t \in Undestroyed : session[t].workspace # workspace
      /\ Cardinality(Undestroyed) < maxConcurrentSessions
      /\ session' = [session EXCEPT ![s] = new]
      /\ Save(k, "create", s, "active")
      /\ table' = IF storeAvailable THEN table ELSE [table EXCEPT ![id] = s]
      /\ crossed' = (crossed \/ Crosses(id))
      /\ UNCHANGED <<file, storeAvailable, restore, gone, loose, maxConcurrentSessions>>
    BY DEF Create, counts
<1>1. /\ Quiet /\ Orderly(FALSE) /\ Room
      /\ restore.over /\ table[id] = NoSession /\ loose = {}
      /\ \A j \in Callers : Busy(j) => IdOf(j) # id
      /\ \A j \in Callers : call[j].kind # "create"
      /\ \A i \in Ids : Alive(i) => table[i] # NoSession
    BY <1>0 DEF Quiet, ApartInv, Crosses, Underway, Unread, Busy, IdOf, Alive
<1>2. RegistryTypeOK /\ WellFormed /\ restore.found = {}
    BY <1>1 DEF RegistryInv, WellFormed
<1>3. /\ \A j \in Callers \ {k} : call'[j] = call[j]
      /\ Busy(k)' => Of(k)' = s /\ call'[k].kind = "create"
      /\ ~Busy(k)' => call'[k].kind = "none"
      /\ ~Busy(k) /\ call[k].kind = "none"
      /\ Busy(k)' <=> storeAvailable
    <2>1. /\ \A j \in Callers \ {k} : call'[j] = call[j]
          /\ Busy(k)' => storeAvailable /\ Of(k)' = s /\ call'[k].kind = "create"
          /\ ~Busy(k)' => call'[k].kind = "none"
        BY <1>0, <1>2, SaveEffect DEF Statuses, Busy
    <2>2. storeAvailable => Busy(k)'
        BY <1>0, <1>2 DEF Save, RegistryTypeOK, Busy, Idle
    <2> QED BY <1>0, <2>1, <2>2 DEF Busy, Idle
<1>4. session'[s] = new /\ \A t \in Sessions \ {s} : session'[t] = session[t]
    BY <1>0, <1>2 DEF RegistryTypeOK
<1>5. \A i \in Ids : table'[i] = table[i] \/ (i = id /\ table'[i] = s)
    BY <1>0, <1>2 DEF RegistryTypeOK
<1>6. /\ \A j \in Callers : Busy(j) => Of(j) \in Sessions \ {s}
      /\ \A i \in Ids : table[i] # NoSession => table[i] \in Sessions \ {s}
      /\ \A i \in Ids : file[i] # NoSession => file[i].of \in Sessions \ {s}
    BY <1>0, <1>2, References DEF WellFormed, Created, Busy
<1>7. ASSUME NEW j \in Callers, j # k
      PROVE  /\ Busy(j)' <=> Busy(j)
             /\ Busy(j) => Of(j)' = Of(j) /\ IdOf(j)' = IdOf(j) /\ IdOf(j) # id
             /\ call'[j].kind = call[j].kind
    BY <1>1, <1>3, <1>4, <1>6, <1>7 DEF Busy, Of, IdOf
<1>8. \A i \in Ids : Alive(i)' <=> Alive(i)
    BY <1>0 DEF Alive
<1>9. Present \subseteq Undestroyed
    <2> SUFFICES ASSUME NEW t \in Present, t \notin Undestroyed PROVE FALSE
        OBVIOUS
    <2>1. \A j \in Callers : call[j].kind = "destroy" => Of(j) # t
        BY DEF Present
    <2>2. PICK i \in Ids : table[i] = t /\ t # NoSession
        <3>1. CASE \E i \in Ids : Alive(i) /\ file[i].of = t
            <4>1. PICK i \in Ids : Alive(i) /\ file[i].of = t
                BY <3>1
            <4>2. table[i] = t
                BY <1>1, <4>1 DEF Orderly, MapFollowsFiles
            <4> QED BY <1>1, <4>1, <4>2
        <3>2. CASE \E j \in Callers : Busy(j) /\ Of(j) = t
            <4>1. PICK j \in Callers : Busy(j) /\ Of(j) = t
                BY <3>2
            <4>2. call[j].kind = "update" /\ t # NoSession /\ IdOf(j) \in Ids
                BY <1>1, <2>1, <4>1, References
            <4>3. table[IdOf(j)] = t
                BY <1>1, <4>1, <4>2 DEF Orderly, CallsListed
            <4> QED BY <4>2, <4>3
        <3> QED BY <3>1, <3>2 DEF Present
    <2>3. session[t].status = "destroyed"
        BY <2>2 DEF Undestroyed, Listed
    <2> QED BY <1>1, <2>1, <2>2, <2>3 DEF Orderly, MapFollowsFiles
<1>10. Present = Undestroyed
    BY <1>1, <1>9, UndestroyedPresent
<1>11. Present' \subseteq Present \cup {s}
    <2> SUFFICES ASSUME NEW t \in Present', t # s PROVE t \in Present
        OBVIOUS
    <2>1. t \in Sessions /\ \A j \in Callers : call[j].kind = "destroy" => Of(j) # t
        BY <1>3, <1>7, References DEF Present, Busy
    <2>2. CASE t \in Undestroyed'
        <3>1. PICK i \in Ids : table'[i] = t /\ t # NoSession
            BY <2>2 DEF Undestroyed, Listed
        <3>2. table[i] = t
            BY <1>5, <3>1
        <3>3. session'[t].status # "destroyed" /\ session'[t] = session[t]
            BY <1>4, <2>1, <2>2 DEF Undestroyed
        <3>4. t \in Undestroyed
            BY <3>1, <3>2, <3>3 DEF Undestroyed, Listed
        <3> QED BY <2>1, <3>4 DEF Present
    <2>3. CASE \E i \in Ids : Alive(i)' /\ file'[i].of = t
        BY <1>0, <1>8, <2>1, <2>3 DEF Present
    <2>4. CASE \E j \in Callers : Busy(j)' /\ Of(j)' = t
        BY <1>3, <1>7, <2>1, <2>4 DEF Present
    <2> QED BY <2>2, <2>3, <2>4 DEF Present
<1>12. Room'
    <2>1. /\ IsFiniteSet(Present) /\ Cardinality(Present) \in Nat
          /\ Cardinality(Present) < maxConcurrentSessions
        BY <1>0, <1>1, <1>10, FS_CardinalityType DEF Room
    <2>2. /\ IsFiniteSet(Present \cup {s}) /\ Cardinality(Present \cup {s}) \in Nat
          /\ Cardinality(Present \cup {s}) <= Cardinality(Present) + 1
        BY <2>1, FS_AddElement
    <2>3. IsFiniteSet(Present') /\ Cardinality(Present') <= Cardinality(Present \cup {s})
        BY <1>11, <2>2, FS_Subset
    <2>4. Cardinality(Present') \in Nat
        BY <2>3, FS_CardinalityType
    <2>5. maxConcurrentSessions \in Nat
        BY <1>2, RegistryNames DEF RegistryTypeOK
    <2>6. Cardinality(Present') <= maxConcurrentSessions'
        BY <1>0, <2>1, <2>2, <2>3, <2>4, <2>5
    <2>7. ASSUME NEW t \in Present, t # s
          PROVE  session'[t].workspace = session[t].workspace /\ session[t].workspace # workspace
        BY <1>0, <1>4, <1>10, <2>7 DEF Present
    <2>8. session'[s].workspace = workspace
        BY <1>4
    <2>9. ASSUME NEW t \in Present', NEW u \in Present', t # u
          PROVE  session'[t].workspace # session'[u].workspace
        <3>1. CASE t # s /\ u # s
            BY <1>1, <1>11, <2>7, <2>9, <3>1 DEF Room
        <3>2. CASE t = s \/ u = s
            BY <1>11, <2>7, <2>8, <2>9, <3>2
        <3> QED BY <3>1, <3>2
    <2> QED BY <2>3, <2>6, <2>9 DEF Room
<1>13. RestoredFirst'
    BY <1>0, <1>1, <1>2 DEF RestoredFirst
<1>14. CreatesAlone'
    <2> SUFFICES ASSUME NEW j \in Callers, call'[j].kind = "create"
                 PROVE  (/\ table[IdOf(j)] = NoSession
                         /\ Alive(IdOf(j)) => file[IdOf(j)].of = Of(j)
                         /\ \A i \in Callers : Busy(i) /\ IdOf(i) = IdOf(j) => i = j)'
        BY DEF CreatesAlone
    <2>1. j = k
        BY <1>1, <1>7
    <2>2. Busy(k)' /\ storeAvailable /\ IdOf(k)' = id
        BY <1>3, <1>4, <2>1 DEF IdOf
    <2>3. table'[id] = NoSession
        BY <1>0, <1>1, <2>2
    <2>4. ~Alive(id)'
        BY <1>1, <1>8
    <2>5. \A i \in Callers : Busy(i)' /\ IdOf(i)' = id => i = k
        BY <1>7
    <2> QED BY <2>1, <2>2, <2>3, <2>4, <2>5 DEF Alive
<1>15. CallsListed(FALSE)'
    <2> SUFFICES ASSUME NEW j \in Callers, call'[j].kind \in {"update", "destroy"}
                 PROVE  table'[IdOf(j)'] = Of(j)'
        BY DEF CallsListed
    <2>1. j # k
        BY <1>3
    <2>2. call[j].kind \in {"update", "destroy"} /\ Busy(j)
        BY <1>7, <2>1, References
    <2>3. table[IdOf(j)] = Of(j) /\ IdOf(j) \in Ids
        BY <1>1, <2>2, References DEF Orderly, CallsListed
    <2> QED BY <1>5, <1>7, <2>1, <2>2, <2>3
<1>16. MapFollowsFiles'
    <2>1. ASSUME NEW i \in Ids, Alive(i)', table'[i] # NoSession PROVE file'[i].of = table'[i]
        <3>1. i # id /\ Alive(i)
            BY <1>1, <1>8, <2>1
        <3> QED BY <1>0, <1>1, <1>5, <2>1, <3>1 DEF Orderly, MapFollowsFiles
    <2>2. ASSUME NEW i \in Ids, table'[i] # NoSession, session'[table'[i]].status = "destroyed"
          PROVE  \E j \in Callers : call'[j].kind = "destroy" /\ Of(j)' = table'[i]
        <3>1. table'[i] = table[i]
            BY <1>4, <1>5, <2>2
        <3>2. session[table[i]].status = "destroyed"
            BY <1>4, <1>6, <2>2, <3>1
        <3>3. PICK j \in Callers : call[j].kind = "destroy" /\ Of(j) = table[i]
            BY <1>1, <2>2, <3>1, <3>2 DEF Orderly, MapFollowsFiles
        <3>4. j # k /\ Busy(j)
            BY <1>3, <3>3, References
        <3> QED BY <1>7, <3>1, <3>3, <3>4
    <2> QED BY <2>1, <2>2 DEF MapFollowsFiles, Alive
<1> QED BY <1>12, <1>13, <1>14, <1>15, <1>16 DEF ApartInv, Orderly

\* A call on a listed session does not disturb the order: it changes the status
\* of that session, and the call is added to those under way.
LEMMA CallJoins ==
    ASSUME RegistryInv, RegistryInv', Orderly(FALSE), NEW k \in Callers, NEW id \in Ids,
           NEW kind \in {"update", "destroy"}, NEW status \in Statuses,
           table[id] \in Undestroyed, ~Busy(k),
           session' = [session EXCEPT ![table[id]].status = status],
           Save(k, kind, table[id], status),
           status = "destroyed" => kind = "destroy" /\ storeAvailable,
           UNCHANGED <<table, file, restore>>
    PROVE  /\ Orderly(FALSE)'
           /\ \A j \in Callers \ {k} : call'[j] = call[j] /\ Of(j)' = Of(j)
           /\ Busy(k)' => Of(k)' = table[id] /\ call'[k].kind = kind
           /\ ~Busy(k)' => call'[k].kind = "none"
           /\ Busy(k)' <=> storeAvailable
           /\ session'[table[id]].status = status
           /\ \A t \in Sessions \ {table[id]} : session'[t] = session[t]
           /\ \A t \in Sessions : Created(t) => session'[t].workspace = session[t].workspace
<1> DEFINE s == table[id]
<1>0. RegistryTypeOK /\ WellFormed
    BY DEF RegistryInv
<1>1. s \in Sessions /\ s # NoSession /\ session[s] \in Object /\ session[s].id = id
    <2>1. s \in Sessions /\ s # NoSession
        BY References DEF Undestroyed, Listed
    <2> QED BY <1>0, <2>1, SessionShape, References DEF WellFormed
<1>2. /\ session'[s].status = status /\ session'[s].id = id
      /\ session'[s].workspace = session[s].workspace
      /\ \A t \in Sessions \ {s} : session'[t] = session[t]
    <2>1. session'[s] = [session[s] EXCEPT !.status = status]
        BY <1>0, <1>1 DEF RegistryTypeOK
    <2> QED BY <1>0, <1>1, <2>1 DEF Object, RegistryTypeOK
<1>3. /\ \A j \in Callers \ {k} : call'[j] = call[j]
      /\ Busy(k)' => Of(k)' = s /\ call'[k].kind = kind
      /\ ~Busy(k)' => call'[k].kind = "none"
      /\ ~Busy(k) /\ call[k].kind = "none"
      /\ Busy(k)' <=> storeAvailable
    <2>1. /\ \A j \in Callers \ {k} : call'[j] = call[j]
          /\ Busy(k)' => storeAvailable /\ Of(k)' = s /\ call'[k].kind = kind
          /\ ~Busy(k)' => call'[k].kind = "none"
        <3>1. kind \in {"create", "update", "destroy"} /\ Save(k, kind, s, status)
            OBVIOUS
        <3> HIDE DEF s
        <3> QED BY <1>0, <1>1, <3>1, SaveEffect DEF Busy
    <2>2. storeAvailable => Busy(k)'
        BY <1>0 DEF Save, RegistryTypeOK, Busy, Idle
    <2> QED BY <2>1, <2>2 DEF Busy, Idle
<1>4. ASSUME NEW t \in Sessions, Created(t)
      PROVE  session'[t].id = session[t].id /\ session'[t].workspace = session[t].workspace
    BY <1>1, <1>2
<1>5. ASSUME NEW j \in Callers, j # k
      PROVE  /\ Busy(j)' <=> Busy(j)
             /\ Of(j)' = Of(j) /\ call'[j] = call[j] /\ call'[j].kind = call[j].kind
             /\ Busy(j) => IdOf(j)' = IdOf(j) /\ IdOf(j) \in Ids
    BY <1>0, <1>3, <1>4, <1>5, References DEF Busy, Of, IdOf, WellFormed
<1>6. Busy(k)' => IdOf(k)' = id
    BY <1>2, <1>3 DEF IdOf
<1>7. \A i \in Ids : Alive(i)' <=> Alive(i)
    BY DEF Alive
<1>8. restore.over /\ RestoredFirst'
    <2>1. restore.over
        BY <1>1 DEF Orderly, RestoredFirst
    <2> QED BY <2>1 DEF Orderly, RestoredFirst
<1>9. CreatesAlone'
    <2> SUFFICES ASSUME NEW j \in Callers, call'[j].kind = "create"
                 PROVE  (/\ table[IdOf(j)] = NoSession
                         /\ Alive(IdOf(j)) => file[IdOf(j)].of = Of(j)
                         /\ \A i \in Callers : Busy(i) /\ IdOf(i) = IdOf(j) => i = j)'
        BY DEF CreatesAlone
    <2>1. j # k
        BY <1>3
    <2>2. call[j].kind = "create" /\ Busy(j)
        BY <1>5, <2>1, References
    <2>3. /\ table[IdOf(j)] = NoSession
          /\ Alive(IdOf(j)) => file[IdOf(j)].of = Of(j)
          /\ \A i \in Callers : Busy(i) /\ IdOf(i) = IdOf(j) => i = j
        BY <2>2 DEF Orderly, CreatesAlone
    <2>4. IdOf(j)' = IdOf(j) /\ IdOf(j) \in Ids /\ IdOf(j) # id
        BY <1>1, <1>5, <2>1, <2>2, <2>3
    <2>5. \A i \in Callers : Busy(i)' /\ IdOf(i)' = IdOf(j) => i = j
        BY <1>5, <1>6, <2>3, <2>4
    <2> QED BY <1>5, <2>1, <2>3, <2>4, <2>5 DEF Alive
<1>10. CallsListed(FALSE)'
    <2> SUFFICES ASSUME NEW j \in Callers, call'[j].kind \in {"update", "destroy"}
                 PROVE  table'[IdOf(j)'] = Of(j)'
        BY DEF CallsListed
    <2>1. CASE j = k
        BY <1>3, <1>6, <2>1
    <2>2. CASE j # k
        <3>1. call[j].kind \in {"update", "destroy"} /\ Busy(j)
            BY <1>5, <2>2, References
        <3> QED BY <1>5, <2>2, <3>1 DEF Orderly, CallsListed
    <2> QED BY <2>1, <2>2
<1>11. MapFollowsFiles'
    <2>1. ASSUME NEW i \in Ids, table[i] # NoSession, session'[table[i]].status = "destroyed"
          PROVE  \E j \in Callers : call'[j].kind = "destroy" /\ Of(j)' = table[i]
        <3>1. CASE table[i] = s
            BY <1>2, <1>3, <2>1, <3>1
        <3>2. CASE table[i] # s
            <4>1. session[table[i]].status = "destroyed"
                BY <1>2, <2>1, <3>2, References
            <4>2. PICK j \in Callers : call[j].kind = "destroy" /\ Of(j) = table[i]
                BY <2>1, <4>1 DEF Orderly, MapFollowsFiles
            <4>3. j # k
                BY <1>3, <4>2
            <4> QED BY <1>5, <4>2, <4>3
        <3> QED BY <3>1, <3>2
    <2> QED BY <1>7, <2>1 DEF Orderly, MapFollowsFiles
<1> QED BY <1>2, <1>3, <1>4, <1>5, <1>8, <1>9, <1>10, <1>11 DEF Orderly

\* pauseSession and resumeSession.
LEMMA UpdateApart ==
    ASSUME RegistryInv, RegistryInv', ApartInv(FALSE), Quiet', NEW k \in Callers,
           NEW id \in Ids, NEW status \in {"active", "paused"}, Update(k, id, status)
    PROVE  ApartInv(FALSE)'
<1> DEFINE s == table[id]
<1>0. /\ ~Busy(k) /\ s \in Undestroyed
      /\ session' = [session EXCEPT ![s].status = status]
      /\ Save(k, "update", s, status)
      /\ UNCHANGED <<table, file, restore, crossed, loose, maxConcurrentSessions>>
    BY DEF Update, Busy
<1>1. Quiet /\ Orderly(FALSE) /\ Room /\ loose = {}
    BY <1>0 DEF Quiet, ApartInv
<1>2. status \in Statuses /\ status # "destroyed"
    BY DEF Statuses
<1>3. /\ Orderly(FALSE)'
      /\ \A j \in Callers \ {k} : call'[j] = call[j] /\ Of(j)' = Of(j)
      /\ Busy(k)' => Of(k)' = s /\ call'[k].kind = "update"
      /\ ~Busy(k)' => call'[k].kind = "none"
      /\ session'[s].status = status
      /\ \A t \in Sessions \ {s} : session'[t] = session[t]
      /\ \A t \in Sessions : Created(t) => session'[t].workspace = session[t].workspace
    BY <1>0, <1>1, <1>2, CallJoins
<1>4. s \in Present
    BY <1>0, <1>1, UndestroyedPresent
<1>5. Present' \subseteq Present
    <2> SUFFICES ASSUME NEW t \in Present', t # s PROVE t \in Present
        BY <1>4
    <2>1. t \in Sessions /\ session'[t] = session[t]
        BY <1>3 DEF Present
    <2>2. \A j \in Callers : call[j].kind = "destroy" => Of(j) # t
        BY <1>0, <1>3, References DEF Present
    <2>3. t \in Undestroyed' => t \in Undestroyed
        BY <1>0, <2>1 DEF Undestroyed, Listed
    <2>4. (\E i \in Ids : Alive(i)' /\ file'[i].of = t) => \E i \in Ids : Alive(i) /\ file[i].of = t
        BY <1>0 DEF Alive
    <2>5. (\E j \in Callers : Busy(j)' /\ Of(j)' = t) => \E j \in Callers : Busy(j) /\ Of(j) = t
        BY <1>3 DEF Busy
    <2> QED BY <2>1, <2>2, <2>3, <2>4, <2>5 DEF Present
<1>6. \A t \in Present : session'[t].workspace = session[t].workspace
    BY <1>3, PresentCreated
<1>7. Room'
    BY <1>0, <1>1, <1>5, <1>6, FewerHaveRoom
<1> QED BY <1>3, <1>7 DEF ApartInv

\* destroySession, alone on its session and with the store there: the session
\* is no longer present.
LEMMA DestroyApart ==
    ASSUME RegistryInv, RegistryInv', ApartInv(FALSE), Quiet', NEW k \in Callers,
           NEW id \in Ids, Destroy(k, id)
    PROVE  ApartInv(FALSE)'
<1> DEFINE s == table[id]
<1>0. /\ ~Busy(k) /\ s \in Undestroyed
      /\ session' = [session EXCEPT ![s].status = "destroyed"]
      /\ Save(k, "destroy", s, "destroyed")
      /\ loose' = IF EndMayBeLost(s) THEN loose \cup {s} ELSE loose
      /\ IF storeAvailable THEN UNCHANGED <<table, gone>>
         ELSE table' = [table EXCEPT ![id] = NoSession] /\ gone' = gone \cup {s}
      /\ UNCHANGED <<file, restore, crossed, maxConcurrentSessions>>
    BY DEF Destroy, Busy, counts
<1>1. Quiet /\ Orderly(FALSE) /\ Room /\ loose = {} /\ storeAvailable
    BY <1>0 DEF Quiet, ApartInv, EndMayBeLost
<1>2. "destroyed" \in Statuses
    BY DEF Statuses
<1>3. /\ Orderly(FALSE)'
      /\ \A j \in Callers \ {k} : call'[j] = call[j] /\ Of(j)' = Of(j)
      /\ Busy(k)' => Of(k)' = s /\ call'[k].kind = "destroy"
      /\ Busy(k)'
      /\ \A t \in Sessions \ {s} : session'[t] = session[t]
      /\ \A t \in Sessions : Created(t) => session'[t].workspace = session[t].workspace
    BY <1>0, <1>1, <1>2, CallJoins
<1>4. Present' \subseteq Present
    <2> SUFFICES ASSUME NEW t \in Present' PROVE t \in Present
        OBVIOUS
    <2>1. t \in Sessions /\ t # s /\ session'[t] = session[t]
        BY <1>3 DEF Present
    <2>2. \A j \in Callers : call[j].kind = "destroy" => Of(j) # t
        BY <1>0, <1>3, References DEF Present
    <2>3. t \in Undestroyed' => t \in Undestroyed
        BY <1>0, <1>1, <2>1 DEF Undestroyed, Listed
    <2>4. (\E i \in Ids : Alive(i)' /\ file'[i].of = t) => \E i \in Ids : Alive(i) /\ file[i].of = t
        BY <1>0 DEF Alive
    <2>5. (\E j \in Callers : Busy(j)' /\ Of(j)' = t) => \E j \in Callers : Busy(j) /\ Of(j) = t
        BY <1>3, <2>1 DEF Busy
    <2> QED BY <2>1, <2>2, <2>3, <2>4, <2>5 DEF Present
<1>5. \A t \in Present : session'[t].workspace = session[t].workspace
    BY <1>3, PresentCreated
<1>6. Room'
    BY <1>0, <1>1, <1>4, <1>5, FewerHaveRoom
<1> QED BY <1>3, <1>6 DEF ApartInv

\* A write that lands tells of a session that is present, or of its end.
LEMMA LandingApart ==
    ASSUME RegistryInv, RegistryInv', NEW closed, ApartInv(closed), Quiet',
           NEW k \in Callers, WriteLands(k)
    PROVE  ApartInv(closed)'
<1> DEFINE s == Of(k)
           id == IdOf(k)
<1>0. /\ Busy(k)
      /\ file' = [file EXCEPT ![id] = call[k].snapshot]
      /\ call' = [call EXCEPT ![k].write = "landed"]
      /\ UNCHANGED <<session, table, loose, crossed, maxConcurrentSessions>>
      /\ MayList(id)
    BY DEF WriteLands, Pending, Busy, IdOf, counts
<1>1. Quiet /\ Orderly(closed) /\ Room /\ RegistryTypeOK /\ WellFormed
    BY <1>0 DEF Quiet, ApartInv, RegistryInv
<1>2. \A j \in Callers : /\ Busy(j)' <=> Busy(j)
                         /\ call'[j].kind = call[j].kind /\ Of(j)' = Of(j) /\ IdOf(j)' = IdOf(j)
    <2>1. call[k] \in Waiting
        BY <1>0, <1>1, CallShape DEF Busy
    <2>2. call'[k] = [call[k] EXCEPT !.write = "landed"]
        BY <1>0, <1>1 DEF RegistryTypeOK
    <2>3. /\ call'[k].kind = call[k].kind /\ call'[k].snapshot = call[k].snapshot
          /\ call'[k].kind # "none"
        BY <2>1, <2>2 DEF Waiting
    <2>4. Busy(k)'
        BY <2>3 DEF Busy, Idle
    <2> QED BY <1>0, <1>1, <2>3, <2>4 DEF RegistryTypeOK, Busy, Of, IdOf
<1>3. \A i \in Ids : IF i = id THEN file'[i] = call[k].snapshot ELSE file'[i] = file[i]
    BY <1>0, <1>1, References DEF RegistryTypeOK
<1>4. restore.over /\ restore.found = {} /\ restore' = restore
    BY <1>0, <1>1 DEF Orderly, RestoredFirst, WellFormed, MayList
<1>5. \A i \in Ids : Alive(i)' => \/ i # id /\ Alive(i) /\ file'[i] = file[i]
                                  \/ i = id /\ file'[i].of = s /\ call[k].kind # "destroy"
    BY <1>1, <1>3 DEF Alive, Of, WellFormed
<1>6. RestoredFirst'
    BY <1>0, <1>4 DEF RestoredFirst
<1>7. CreatesAlone'
    <2> SUFFICES ASSUME NEW j \in Callers, call'[j].kind = "create"
                 PROVE  (/\ table[IdOf(j)] = NoSession
                         /\ Alive(IdOf(j)) => file[IdOf(j)].of = Of(j)
                         /\ \A i \in Callers : Busy(i) /\ IdOf(i) = IdOf(j) => i = j)'
        BY DEF CreatesAlone
    <2>1. /\ call[j].kind = "create" /\ IdOf(j) \in Ids
          /\ table[IdOf(j)] = NoSession
          /\ Alive(IdOf(j)) => file[IdOf(j)].of = Of(j)
          /\ \A i \in Callers : Busy(i) /\ IdOf(i) = IdOf(j) => i = j
        BY <1>1, <1>2, References DEF Orderly, CreatesAlone
    <2>2. Alive(IdOf(j))' => file'[IdOf(j)].of = Of(j)
        <3> SUFFICES ASSUME Alive(IdOf(j))' PROVE file'[IdOf(j)].of = Of(j)
            OBVIOUS
        <3>1. CASE IdOf(j) = id
            <4>1. j = k
                BY <1>0, <2>1, <3>1
            <4>2. file'[id] # NoSession /\ file'[id].status # "destroyed" /\ id \in Ids
                BY <1>2, <2>1, <3>1 DEF Alive
            <4>3. file'[id].of = s
                BY <1>5, <4>2 DEF Alive
            <4> QED BY <3>1, <4>1, <4>3
        <3>2. CASE IdOf(j) # id
            BY <1>2, <1>5, <2>1, <3>2
        <3> QED BY <3>1, <3>2
    <2> QED BY <1>0, <1>2, <2>1, <2>2
<1>8. CallsListed(closed)'
    BY <1>0, <1>1, <1>2 DEF Orderly, CallsListed
<1>9. MapFollowsFiles'
    <2>1. ASSUME NEW i \in Ids, Alive(i)', table[i] # NoSession PROVE file'[i].of = table[i]
        <3>1. CASE i # id
            BY <1>1, <1>5, <2>1, <3>1 DEF Orderly, MapFollowsFiles
        <3>2. CASE i = id
            <4>1. call[k].kind \in {"update", "destroy"}
                BY <1>0, <1>1, <2>1, <3>2, References DEF Orderly, CreatesAlone
            <4>2. table[id] = s
                BY <1>1, <2>1, <3>2, <4>1 DEF Orderly, CallsListed
            <4> QED BY <1>5, <2>1, <3>2, <4>2
        <3> QED BY <3>1, <3>2
    <2> QED BY <1>0, <1>1, <1>2, <2>1 DEF Orderly, MapFollowsFiles
<1>10. Present' \subseteq Present
    <2> SUFFICES ASSUME NEW t \in Present' PROVE t \in Present
        OBVIOUS
    <2>1. t \in Sessions /\ \A j \in Callers : call[j].kind = "destroy" => Of(j) # t
        BY <1>2 DEF Present
    <2>2. CASE t \in Undestroyed'
        BY <1>0, <2>1, <2>2 DEF Present, Undestroyed, Listed
    <2>3. CASE \E i \in Ids : Alive(i)' /\ file'[i].of = t
        BY <1>0, <1>5, <2>1, <2>3 DEF Present
    <2>4. CASE \E j \in Callers : Busy(j)' /\ Of(j)' = t
        BY <1>2, <2>1, <2>4 DEF Present
    <2> QED BY <2>2, <2>3, <2>4 DEF Present
<1>11. Room'
    BY <1>0, <1>1, <1>10, FewerHaveRoom
<1> QED BY <1>6, <1>7, <1>8, <1>9, <1>11 DEF ApartInv, Orderly

\* A write that fails changes nothing the sessions are told by.
LEMMA FailureApart ==
    ASSUME RegistryInv, RegistryInv', NEW closed, ApartInv(closed), Quiet',
           NEW k \in Callers, WriteFails(k)
    PROVE  ApartInv(closed)'
<1>0. /\ Busy(k) /\ loose \subseteq loose'
      /\ call' = [call EXCEPT ![k].write = "failed"]
      /\ UNCHANGED <<session, table, file, restore, crossed, maxConcurrentSessions>>
    BY DEF WriteFails, Pending, Busy
<1>1. Quiet /\ Orderly(closed) /\ Room /\ RegistryTypeOK
    BY <1>0 DEF Quiet, ApartInv, RegistryInv
<1>2. \A j \in Callers : /\ Busy(j)' <=> Busy(j)
                         /\ call'[j].kind = call[j].kind /\ Of(j)' = Of(j) /\ IdOf(j)' = IdOf(j)
    <2>1. call[k] \in Waiting
        BY <1>0, <1>1, CallShape DEF Busy
    <2>2. call'[k] = [call[k] EXCEPT !.write = "failed"]
        BY <1>0, <1>1 DEF RegistryTypeOK
    <2>3. /\ call'[k].kind = call[k].kind /\ call'[k].snapshot = call[k].snapshot
          /\ call'[k].kind # "none"
        BY <2>1, <2>2 DEF Waiting
    <2>4. Busy(k)'
        BY <2>3 DEF Busy, Idle
    <2> QED BY <1>0, <1>1, <2>3, <2>4 DEF RegistryTypeOK, Busy, Of, IdOf
<1>3. \A i \in Ids : Alive(i)' <=> Alive(i)
    BY <1>0 DEF Alive
<1>4. RestoredFirst' /\ CallsListed(closed)' /\ MapFollowsFiles'
    BY <1>0, <1>1, <1>2, <1>3 DEF Orderly, RestoredFirst, CallsListed, MapFollowsFiles
<1>5. CreatesAlone'
    <2> SUFFICES ASSUME NEW j \in Callers, call'[j].kind = "create"
                 PROVE  (/\ table[IdOf(j)] = NoSession
                         /\ Alive(IdOf(j)) => file[IdOf(j)].of = Of(j)
                         /\ \A i \in Callers : Busy(i) /\ IdOf(i) = IdOf(j) => i = j)'
        BY DEF CreatesAlone
    <2>1. /\ call[j].kind = "create" /\ IdOf(j) \in Ids
          /\ table[IdOf(j)] = NoSession
          /\ Alive(IdOf(j)) => file[IdOf(j)].of = Of(j)
          /\ \A i \in Callers : Busy(i) /\ IdOf(i) = IdOf(j) => i = j
        BY <1>1, <1>2, References DEF Orderly, CreatesAlone
    <2> QED BY <1>0, <1>2, <1>3, <2>1 DEF Alive
<1>6. Present' \subseteq Present
    BY <1>0, <1>2, <1>3 DEF Present, Undestroyed, Listed
<1>7. Room'
    BY <1>0, <1>1, <1>6, FewerHaveRoom
<1> QED BY <1>4, <1>5, <1>7 DEF ApartInv, Orderly

\* A call returns: a creation joins the Map under its own id, a destruction leaves
\* it, and its session is not present any more.
LEMMA ReturnApart ==
    ASSUME RegistryInv, RegistryInv', NEW closed, ApartInv(closed), Quiet',
           NEW k \in Callers, Return(k)
    PROVE  ApartInv(closed)'
<1> DEFINE s == Of(k)
           id == IdOf(k)
<1>0. /\ Busy(k) /\ call' = [call EXCEPT ![k] = Idle]
      /\ UNCHANGED <<file, restore, loose, crossed, maxConcurrentSessions>>
    BY DEF Return, Busy, counts
<1>1. Quiet /\ Orderly(closed) /\ Room /\ RegistryTypeOK /\ WellFormed /\ loose = {}
    BY <1>0 DEF Quiet, ApartInv, RegistryInv
<1>2. /\ s \in Sessions /\ s # NoSession /\ id \in Ids /\ session[s] \in Object
      /\ call[k].kind \in {"create", "update", "destroy"}
    <2>1. s \in Sessions /\ Created(s)
        BY <1>0, <1>1, References DEF WellFormed, Busy
    <2> QED BY <1>0, <1>1, <2>1, SessionShape, References
<1>3. \/ /\ call[k].kind = "create" /\ table' = [table EXCEPT ![id] = s]
         /\ session' = [session EXCEPT ![s].status = "active"]
      \/ /\ call[k].kind = "destroy" /\ table' = [table EXCEPT ![id] = NoSession]
         /\ gone' = gone \cup {s} /\ session' = session
      \/ call[k].kind = "update" /\ UNCHANGED <<table, session>>
    BY <1>2 DEF Return, IdOf
<1>4. /\ ~Busy(k)' /\ call'[k].kind = "none" /\ \A j \in Callers \ {k} : call'[j] = call[j]
    BY <1>0, <1>1 DEF RegistryTypeOK, Busy, Idle
<1>5. ASSUME NEW t \in Sessions
      PROVE  /\ session'[t].id = session[t].id /\ session'[t].workspace = session[t].workspace
             /\ session'[t] # session[t] => t = s /\ session'[t].status = "active"
    <2>1. CASE call[k].kind = "create"
        <3>1. session'[s] = [session[s] EXCEPT !.status = "active"]
            BY <1>1, <1>2, <1>3, <2>1 DEF RegistryTypeOK
        <3>2. /\ session'[s].status = "active" /\ session'[s].id = session[s].id
              /\ session'[s].workspace = session[s].workspace
            BY <1>2, <3>1 DEF Object
        <3>3. t # s => session'[t] = session[t]
            BY <1>1, <1>3, <2>1 DEF RegistryTypeOK
        <3> QED BY <3>2, <3>3
    <2>2. CASE call[k].kind # "create"
        BY <1>3, <2>2
    <2> QED BY <2>1, <2>2
<1>6. ASSUME NEW j \in Callers, j # k
      PROVE  /\ Busy(j)' <=> Busy(j)
             /\ call'[j].kind = call[j].kind /\ Of(j)' = Of(j)
             /\ Busy(j) => IdOf(j)' = IdOf(j)
    BY <1>4, <1>5, <1>6, References DEF Busy, Of, IdOf
<1>7. \A i \in Ids : Alive(i)' <=> Alive(i)
    BY <1>0 DEF Alive
<1>8. /\ \A i \in Ids \ {id} : table'[i] = table[i]
      /\ call[k].kind = "create" => table'[id] = s
      /\ call[k].kind = "destroy" => table'[id] = NoSession
      /\ call[k].kind = "update" => table'[id] = table[id]
    BY <1>1, <1>2, <1>3 DEF RegistryTypeOK
<1>9. RestoredFirst'
    <2>1. restore.over /\ restore.found = {}
        BY <1>0, <1>1 DEF Orderly, RestoredFirst, WellFormed
    <2> QED BY <1>0, <2>1 DEF RestoredFirst
<1>10. CreatesAlone'
    <2> SUFFICES ASSUME NEW j \in Callers, call'[j].kind = "create"
                 PROVE  (/\ table[IdOf(j)] = NoSession
                         /\ Alive(IdOf(j)) => file[IdOf(j)].of = Of(j)
                         /\ \A i \in Callers : Busy(i) /\ IdOf(i) = IdOf(j) => i = j)'
        BY DEF CreatesAlone
    <2>1. j # k /\ call[j].kind = "create" /\ Busy(j)
        BY <1>4, <1>6, References
    <2>2. /\ table[IdOf(j)] = NoSession /\ IdOf(j) \in Ids
          /\ Alive(IdOf(j)) => file[IdOf(j)].of = Of(j)
          /\ \A i \in Callers : Busy(i) /\ IdOf(i) = IdOf(j) => i = j
        BY <1>1, <2>1, References DEF Orderly, CreatesAlone
    <2>3. IdOf(j) # id
        BY <1>0, <2>1, <2>2
    <2>4. table'[IdOf(j)] = NoSession
        BY <1>8, <2>2, <2>3
    <2>5. \A i \in Callers : Busy(i)' /\ IdOf(i)' = IdOf(j) => i = j
        BY <1>4, <1>6, <2>2
    <2> QED BY <1>0, <1>6, <1>7, <2>1, <2>2, <2>4, <2>5 DEF Alive
<1>11. CallsListed(closed)'
    <2> SUFFICES ASSUME NEW j \in Callers, call'[j].kind \in {"update", "destroy"}
                 PROVE  table'[IdOf(j)'] = Of(j)' \/ (closed /\ table'[IdOf(j)'] = NoSession)
        BY DEF CallsListed
    <2>1. j # k /\ call[j].kind \in {"update", "destroy"} /\ Busy(j) /\ IdOf(j) \in Ids
        BY <1>4, <1>6, References
    <2>2. /\ table[IdOf(j)] = Of(j) \/ (closed /\ table[IdOf(j)] = NoSession)
          /\ IdOf(j)' = IdOf(j) /\ Of(j)' = Of(j) /\ Of(j) # NoSession
        BY <1>1, <1>6, <2>1, References DEF Orderly, CallsListed
    <2>3. CASE IdOf(j) # id
        BY <1>8, <2>1, <2>2, <2>3
    <2>4. CASE IdOf(j) = id
        <3>1. call[k].kind # "create"
            BY <1>0, <1>1, <2>1, <2>4 DEF Orderly, CreatesAlone
        <3>2. CASE call[k].kind = "destroy"
            <4>1. table[id] = s \/ (closed /\ table[id] = NoSession)
                BY <1>1, <3>2 DEF Orderly, CallsListed
            <4>2. Of(j) # s
                BY <1>1, <2>1, <3>2 DEF RegistryInv, EndInv, Ending, Busy
            <4>3. closed
                BY <1>2, <2>2, <2>4, <4>1, <4>2
            <4> QED BY <1>8, <2>2, <2>4, <3>2, <4>3
        <3>3. CASE call[k].kind = "update"
            BY <1>8, <2>2, <2>4, <3>3
        <3> QED BY <1>2, <3>1, <3>2, <3>3
    <2> QED BY <2>3, <2>4
<1>12. MapFollowsFiles'
    <2>1. ASSUME NEW i \in Ids, Alive(i)', table'[i] # NoSession PROVE file'[i].of = table'[i]
        <3>1. CASE table'[i] = table[i]
            BY <1>0, <1>1, <1>7, <2>1, <3>1 DEF Orderly, MapFollowsFiles
        <3>2. CASE table'[i] # table[i]
            <4>1. i = id /\ call[k].kind = "create" /\ table'[i] = s
                BY <1>2, <1>8, <2>1, <3>2
            <4> QED BY <1>0, <1>1, <1>7, <2>1, <4>1 DEF Orderly, CreatesAlone
        <3> QED BY <3>1, <3>2
    <2>2. ASSUME NEW i \in Ids, table'[i] # NoSession, session'[table'[i]].status = "destroyed"
          PROVE  \E j \in Callers : call'[j].kind = "destroy" /\ Of(j)' = table'[i]
        <3>1. table'[i] \in Sessions
            BY <2>1, <2>2, References DEF RegistryInv, RegistryTypeOK
        <3>2. session'[table'[i]] = session[table'[i]]
            BY <1>5, <2>2, <3>1
        <3>3. table'[i] = table[i]
            <4> SUFFICES ASSUME table'[i] # table[i] PROVE FALSE
                OBVIOUS
            <4>1. i = id /\ call[k].kind = "create" /\ table'[i] = s
                BY <1>2, <1>8, <2>2
            <4>2. session'[s].status = "active"
                BY <1>1, <1>2, <1>3, <4>1 DEF RegistryTypeOK, Object
            <4> QED BY <2>2, <4>1, <4>2
        <3>4. PICK j \in Callers : call[j].kind = "destroy" /\ Of(j) = table[i]
            BY <1>1, <2>2, <3>2, <3>3 DEF Orderly, MapFollowsFiles
        <3>5. j # k
            <4> SUFFICES ASSUME j = k PROVE FALSE
                OBVIOUS
            <4>1. i = id /\ call[k].kind = "destroy"
                BY <2>2, <3>3, <3>4, References DEF IdOf
            <4> QED BY <1>8, <2>2, <4>1
        <3> QED BY <1>6, <3>3, <3>4, <3>5
    <2> QED BY <2>1, <2>2 DEF MapFollowsFiles, Alive
<1>13. Present' \subseteq Present
    <2> SUFFICES ASSUME NEW t \in Present' PROVE t \in Present
        OBVIOUS
    <2>1. t \in Sessions /\ \A j \in Callers : call'[j].kind = "destroy" => Of(j)' # t
        BY DEF Present
    <2>2. CASE call[k].kind = "destroy" /\ t = s
        <3>1. Gone(t)'
            BY <1>0, <1>1, <1>3, <2>2 DEF RegistryInv, EndInv
        <3> QED BY <3>1 DEF Gone, Present, Undestroyed, Sealed, Alive, Busy
    <2>3. CASE ~(call[k].kind = "destroy" /\ t = s)
        <3>1. \A j \in Callers : call[j].kind = "destroy" => Of(j) # t
            BY <1>6, <2>1, <2>3
        <3>2. CASE t \in Undestroyed'
            <4>1. PICK i \in Ids : table'[i] = t /\ t # NoSession
                BY <3>2 DEF Undestroyed, Listed
            <4>2. CASE table'[i] = table[i] /\ session'[t] = session[t]
                BY <2>1, <3>1, <3>2, <4>1, <4>2 DEF Present, Undestroyed, Listed
            <4>3. CASE ~(table'[i] = table[i] /\ session'[t] = session[t])
                <5>1. t = s
                    BY <1>2, <1>5, <1>8, <2>1, <4>1, <4>3
                <5> QED BY <1>0, <2>1, <3>1, <5>1 DEF Present
            <4> QED BY <4>2, <4>3
        <3>3. CASE \E i \in Ids : Alive(i)' /\ file'[i].of = t
            BY <1>0, <1>7, <2>1, <3>1, <3>3 DEF Present
        <3>4. CASE \E j \in Callers : Busy(j)' /\ Of(j)' = t
            BY <1>4, <1>6, <2>1, <3>1, <3>4 DEF Present
        <3> QED BY <3>2, <3>3, <3>4 DEF Present
    <2> QED BY <2>2, <2>3
<1>14. \A t \in Present : session'[t].workspace = session[t].workspace
    BY <1>5, PresentCreated
<1>15. Room'
    BY <1>0, <1>1, <1>13, <1>14, FewerHaveRoom
<1> QED BY <1>9, <1>10, <1>11, <1>12, <1>15 DEF ApartInv, Orderly


\* restoreFromStore reads one more file.
LEMMA LoadingApart ==
    ASSUME RegistryInv, RegistryInv', NEW closed, ApartInv(closed), Quiet',
           NEW id \in Ids, RestoreLoads(id)
    PROVE  ApartInv(closed)'
<1>0. /\ restore' = [restore EXCEPT !.todo = @ \ {id}, !.found = @ \cup {file[id]}]
      /\ UNCHANGED <<session, table, file, call, loose, crossed, maxConcurrentSessions>>
    BY DEF RestoreLoads, counts
<1>1. Quiet /\ Orderly(closed) /\ Room /\ RegistryTypeOK
    BY <1>0 DEF Quiet, ApartInv, RegistryInv
<1>2. restore'.over = restore.over /\ restore'.found = restore.found \cup {file[id]}
    BY <1>0, <1>1 DEF RegistryTypeOK
<1>3. RestoredFirst'
    BY <1>0, <1>1, <1>2 DEF Orderly, RestoredFirst, Busy
<1>4. Orderly(closed)'
    BY <1>0, <1>1, <1>3 DEF Orderly, CreatesAlone, CallsListed, MapFollowsFiles, Busy, IdOf, Of, Alive
<1>5. Present' = Present
    BY <1>0 DEF Present, Undestroyed, Listed, Alive, Busy, Of
<1>6. Room'
    BY <1>0, <1>1, <1>5 DEF Room
<1> QED BY <1>4, <1>6 DEF ApartInv

\* restoreFromStore ends: the Map has what the files tell of, and nothing else.
LEMMA RestoreApart ==
    ASSUME RegistryInv, RegistryInv', NEW closed, ApartInv(closed), Quiet', RestoreEnds
    PROVE  ApartInv(closed)'
<1>0. /\ ~restore.over /\ restore' = [over |-> TRUE, todo |-> {}, found |-> {}]
      /\ UNCHANGED <<file, call, loose, crossed, maxConcurrentSessions>>
    BY DEF RestoreEnds, counts
<1>1. Quiet /\ Orderly(closed) /\ Room /\ RegistryTypeOK /\ WellFormed
    BY <1>0 DEF Quiet, ApartInv, RegistryInv
<1>2. PICK found \in {{}, {f \in restore.found : f.status # "destroyed"}} :
        /\ table' = [i \in Ids |->
                IF \E f \in found : session[f.of].id = i
                THEN (CHOOSE f \in found : session[f.of].id = i).of ELSE table[i]]
        /\ session' = [s \in Sessions |->
                IF \E f \in found : f.of = s
                THEN [session[s] EXCEPT !.status = (CHOOSE f \in found : f.of = s).status]
                ELSE session[s]]
    BY DEF RestoreEnds
<1>3. /\ \A i \in Ids : table[i] = NoSession
      /\ \A k \in Callers : ~Busy(k) /\ call[k].kind = "none"
    BY <1>0, <1>1, References DEF Orderly, RestoredFirst
\* What is restored is a live file, under its id.
<1>4. ASSUME NEW f \in found
      PROVE  /\ f.of \in Sessions /\ f.status \in Statuses \ {"destroyed"}
             /\ Created(f.of) /\ session[f.of].id \in Ids
             /\ file[session[f.of].id] = f /\ Alive(session[f.of].id)
    <2>1. f \in restore.found /\ f.status # "destroyed" /\ f \in Snapshot
        BY <1>1 DEF RegistryTypeOK
    <2>2. PICK i \in Ids : file[i] = f
        BY <1>1, <2>1 DEF Orderly, RestoredFirst
    <2>3. f # NoSession
        BY <2>1, RegistryNames
    <2>4. f.of \in Sessions /\ f.status \in Statuses /\ session[f.of].id = i /\ Created(f.of)
        BY <1>1, <2>1, <2>2, <2>3 DEF WellFormed, Snapshot
    <2> QED BY <2>1, <2>2, <2>3, <2>4 DEF Alive
<1>5. ASSUME NEW i \in Ids, table'[i] # NoSession
      PROVE  Alive(i) /\ file[i] \in found /\ file[i].of = table'[i]
    <2>1. \E f \in found : session[f.of].id = i
        BY <1>2, <1>3, <1>5
    <2> DEFINE f == CHOOSE f \in found : session[f.of].id = i
    <2>2. f \in found /\ session[f.of].id = i
        BY <2>1
    <2>3. table'[i] = f.of
        BY <1>2, <2>1
    <2> HIDE DEF f
    <2> QED BY <1>4, <2>2, <2>3
<1>6. ASSUME NEW t \in Sessions, Created(t)
      PROVE  /\ session'[t].id = session[t].id /\ session'[t].workspace = session[t].workspace
             /\ (\E f \in found : f.of = t) => session'[t].status # "destroyed"
    <2>1. CASE \E f \in found : f.of = t
        <3> DEFINE g == CHOOSE f \in found : f.of = t
        <3>1. g \in found /\ g.of = t
            BY <2>1
        <3>2. session'[t] = [session[t] EXCEPT !.status = g.status]
            BY <1>2, <2>1
        <3> HIDE DEF g
        <3>3. g.status # "destroyed" /\ session[t] \in Object
            BY <1>1, <1>4, <1>6, <3>1, SessionShape
        <3> QED BY <3>2, <3>3 DEF Object
    <2>2. CASE ~\E f \in found : f.of = t
        <3>1. session'[t] = session[t]
            BY <1>2, <2>2
        <3> QED BY <2>2, <3>1
    <2> QED BY <2>1, <2>2
<1>7. /\ \A i \in Ids : Alive(i)' <=> Alive(i)
      /\ \A k \in Callers : ~Busy(k)' /\ call'[k].kind = "none"
    BY <1>0, <1>3 DEF Alive, Busy
<1>8. RestoredFirst' /\ CreatesAlone' /\ CallsListed(closed)'
    <2>1. restore'.over /\ restore'.found = {}
        BY <1>0
    <2> QED BY <1>7, <2>1 DEF RestoredFirst, CreatesAlone, CallsListed
<1>9. MapFollowsFiles'
    <2>1. ASSUME NEW i \in Ids, table'[i] # NoSession
          PROVE  file'[i].of = table'[i] /\ session'[table'[i]].status # "destroyed"
        BY <1>0, <1>4, <1>5, <1>6, <2>1
    <2> QED BY <2>1 DEF MapFollowsFiles
<1>10. Present' \subseteq Present
    <2> SUFFICES ASSUME NEW t \in Present' PROVE t \in Present
        OBVIOUS
    <2>1. t \in Sessions /\ \A k \in Callers : call[k].kind = "destroy" => Of(k) # t
        BY <1>3 DEF Present
    <2>2. CASE t \in Undestroyed'
        <3>1. PICK i \in Ids : table'[i] = t /\ t # NoSession
            BY <2>2 DEF Undestroyed, Listed
        <3>2. Alive(i) /\ file[i].of = t
            BY <1>5, <3>1
        <3> QED BY <2>1, <3>2 DEF Present
    <2>3. CASE \E i \in Ids : Alive(i)' /\ file'[i].of = t
        BY <1>0, <1>7, <2>1, <2>3 DEF Present
    <2>4. CASE \E k \in Callers : Busy(k)' /\ Of(k)' = t
        BY <1>7, <2>4
    <2> QED BY <2>2, <2>3, <2>4 DEF Present
<1>11. \A t \in Present : session'[t].workspace = session[t].workspace
    BY <1>6, PresentCreated
<1>12. Room'
    BY <1>0, <1>1, <1>10, <1>11, FewerHaveRoom
<1> QED BY <1>8, <1>9, <1>12 DEF ApartInv, Orderly

\* What goes on of calls and restore keeps sessions apart, on a live engine and
\* on a destroyed one.
LEMMA ContinuesApart ==
    ASSUME RegistryInv, RegistryInv', NEW closed, ApartInv(closed), RegistryContinues
    PROVE  ApartInv(closed)'
<1> SUFFICES ASSUME Quiet' PROVE ApartInv(closed)'
    BY DEF ApartInv
<1>1. ASSUME NEW k \in Callers, WriteLands(k) \/ WriteFails(k) \/ Return(k)
      PROVE  ApartInv(closed)'
    BY <1>1, LandingApart, FailureApart, ReturnApart
<1>2. ASSUME NEW id \in Ids, RestoreLoads(id) PROVE ApartInv(closed)'
    BY <1>2, LoadingApart
<1>3. CASE RestoreEnds
    BY <1>3, RestoreApart
<1> QED BY <1>1, <1>2, <1>3 DEF RegistryContinues

\* A new call keeps sessions apart; none is made on a destroyed engine.
LEMMA StepApart ==
    ASSUME RegistryInv, RegistryInv', ApartInv(FALSE), RegistryStep
    PROVE  ApartInv(FALSE)'
<1> SUFFICES ASSUME Quiet' PROVE ApartInv(FALSE)'
    BY DEF ApartInv
<1>1. ASSUME NEW k \in Callers, NEW s \in Sessions, NEW id \in Ids, NEW workspace \in Workspaces,
             Create(k, s, id, workspace)
      PROVE  ApartInv(FALSE)'
    BY <1>1, CreateApart
<1>2. ASSUME NEW k \in Callers, NEW id \in Ids, Pause(k, id) \/ Resume(k, id)
      PROVE  ApartInv(FALSE)'
    BY <1>2, UpdateApart DEF Pause, Resume
<1>3. ASSUME NEW k \in Callers, NEW id \in Ids, Destroy(k, id) PROVE ApartInv(FALSE)'
    BY <1>3, DestroyApart
<1> QED BY <1>1, <1>2, <1>3 DEF RegistryStep

\* dispose empties the Map under the calls that are under way.
LEMMA DisposeApart ==
    ASSUME RegistryInv, RegistryInv', ApartInv(FALSE), Dispose
    PROVE  ApartInv(TRUE)'
<1> SUFFICES ASSUME Quiet' PROVE ApartInv(TRUE)'
    BY DEF ApartInv
<1>0. /\ \A i \in Ids : table'[i] = NoSession
      /\ UNCHANGED <<session, file, call, restore, loose, crossed, maxConcurrentSessions>>
    BY DEF Dispose, counts
<1>1. Quiet /\ Orderly(FALSE) /\ Room
    BY <1>0 DEF Quiet, ApartInv
<1>2. /\ \A i \in Ids : Alive(i)' <=> Alive(i)
      /\ \A k \in Callers : /\ Busy(k)' <=> Busy(k)
                            /\ call'[k] = call[k] /\ Of(k)' = Of(k) /\ IdOf(k)' = IdOf(k)
    BY <1>0 DEF Alive, Busy, Of, IdOf
<1>3. RestoredFirst'
    BY <1>0, <1>1, <1>2 DEF Orderly, RestoredFirst
<1>4. CreatesAlone'
    <2> SUFFICES ASSUME NEW j \in Callers, call'[j].kind = "create"
                 PROVE  (/\ table[IdOf(j)] = NoSession
                         /\ Alive(IdOf(j)) => file[IdOf(j)].of = Of(j)
                         /\ \A i \in Callers : Busy(i) /\ IdOf(i) = IdOf(j) => i = j)'
        BY DEF CreatesAlone
    <2>1. /\ IdOf(j) \in Ids
          /\ Alive(IdOf(j)) => file[IdOf(j)].of = Of(j)
          /\ \A i \in Callers : Busy(i) /\ IdOf(i) = IdOf(j) => i = j
        BY <1>1, <1>2, References DEF Orderly, CreatesAlone
    <2> QED BY <1>0, <1>2, <2>1 DEF Alive
<1>5. CallsListed(TRUE)'
    <2>1. \A k \in Callers : call'[k].kind \in {"update", "destroy"} => table'[IdOf(k)'] = NoSession
        BY <1>0, <1>2, References
    <2> QED BY <2>1 DEF CallsListed
<1>6. MapFollowsFiles'
    BY <1>0 DEF MapFollowsFiles
<1>7. Present' \subseteq Present
    <2>1. Undestroyed' = {}
        BY <1>0 DEF Undestroyed, Listed
    <2> QED BY <1>0, <1>2, <2>1 DEF Present
<1>8. Room'
    BY <1>0, <1>1, <1>7, FewerHaveRoom
<1> QED BY <1>3, <1>4, <1>5, <1>6, <1>8 DEF ApartInv, Orderly

\* A restart: of a session that is about to end, no file says that it lives, or
\* its end is loose.
LEMMA RestartApart ==
    ASSUME RegistryInv, RegistryInv', NEW closed, ApartInv(closed), Restart
    PROVE  ApartInv(FALSE)'
<1> SUFFICES ASSUME Quiet' PROVE ApartInv(FALSE)'
    BY DEF ApartInv
<1>0. /\ \A i \in Ids : table'[i] = NoSession
      /\ \A k \in Callers : call'[k] = Idle
      /\ restore'.found = {}
      /\ loose' = loose \cup {Of(k) : k \in {j \in Callers : Pending(j) /\ call[j].kind = "destroy"}}
      /\ UNCHANGED <<session, file, crossed, maxConcurrentSessions>>
    BY DEF Restart, RestoreFrom, counts
<1>1. /\ Quiet /\ Orderly(closed) /\ Room /\ loose = {} /\ loose' = {}
    BY <1>0 DEF Quiet, ApartInv
<1>2. /\ \A i \in Ids : Alive(i)' <=> Alive(i)
      /\ \A k \in Callers : ~Busy(k)' /\ call'[k].kind = "none"
    BY <1>0 DEF Alive, Busy, Idle
<1>3. Orderly(FALSE)'
    <2>1. RestoredFirst'
        BY <1>0, <1>2 DEF RestoredFirst
    <2>2. CreatesAlone' /\ CallsListed(FALSE)'
        BY <1>2 DEF CreatesAlone, CallsListed
    <2>3. MapFollowsFiles'
        BY <1>0 DEF MapFollowsFiles
    <2> QED BY <2>1, <2>2, <2>3 DEF Orderly
<1>4. ASSUME NEW k \in Callers, call[k].kind = "destroy"
      PROVE  Sealed(Of(k))
    <2>1. Busy(k) /\ Of(k) \in Sessions
        BY <1>4, References
    <2>2. ~Pending(k)
        BY <1>0, <1>1, <1>4
    <2>3. call[k].write \in {"landed", "failed"}
        BY <2>1, <2>2, CallShape DEF RegistryInv, Busy, Pending
    <2> QED BY <1>1, <1>4, <2>3 DEF RegistryInv, EndInv, Ending
<1>5. Present' \subseteq Present
    <2> SUFFICES ASSUME NEW t \in Present' PROVE t \in Present
        OBVIOUS
    <2>1. Undestroyed' = {}
        BY <1>0 DEF Undestroyed, Listed
    <2>2. PICK i \in Ids : Alive(i) /\ file[i].of = t
        BY <1>0, <1>2, <2>1 DEF Present
    <2>3. \A k \in Callers : call[k].kind = "destroy" => Of(k) # t
        BY <1>4, <2>2 DEF Sealed, Alive
    <2> QED BY <2>2, <2>3 DEF Present
<1>6. Room'
    BY <1>0, <1>1, <1>5, FewerHaveRoom
<1> QED BY <1>3, <1>6 DEF ApartInv

\* What leaves the registry alone leaves the sessions apart.
LEMMA UnchangedApart ==
    ASSUME NEW closed, ApartInv(closed), UNCHANGED registryVars
    PROVE  ApartInv(closed)'
<1>0. UNCHANGED <<session, table, file, call, restore, loose, crossed, maxConcurrentSessions>>
    BY DEF registryVars, counts
<1>1. Quiet' <=> Quiet
    BY <1>0 DEF Quiet
<1>2. /\ \A i \in Ids : Alive(i)' <=> Alive(i)
      /\ \A k \in Callers : /\ Busy(k)' <=> Busy(k)
                            /\ call'[k] = call[k] /\ Of(k)' = Of(k) /\ IdOf(k)' = IdOf(k)
    BY <1>0 DEF Alive, Busy, Of, IdOf
<1>3. Present' = Present
    BY <1>0, <1>2 DEF Present, Undestroyed, Listed
<1>4. Room' <=> Room
    BY <1>0, <1>3 DEF Room
<1>5. Orderly(closed)' <=> Orderly(closed)
    BY <1>0 DEF Orderly, RestoredFirst, CreatesAlone, CallsListed, MapFollowsFiles, Busy, IdOf, Of, Alive
<1> QED BY <1>1, <1>4, <1>5 DEF ApartInv
==============================================================================
