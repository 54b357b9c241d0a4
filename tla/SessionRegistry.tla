-------------------------- MODULE SessionRegistry --------------------------
(***************************************************************************)
(* SessionManager over a FilesystemSessionStore: the sessions in memory,   *)
(* their files, and the calls that change both.                            *)
(*                                                                         *)
(* A call changes the session, hands a snapshot of it to the store and     *)
(* awaits the write; other calls run meanwhile, and writes of one session  *)
(* may land in either order.  Nothing forbids a sessionId that is in use.  *)
(* A new SessionManager reads the files back in the background.            *)
(***************************************************************************)
EXTENDS Naturals, FiniteSets

CONSTANTS Sessions,     \* session objects; bound: creations over all restarts
          Ids, Workspaces,
          Callers,      \* callers, one call at a time each
          Limits,       \* values of maxConcurrentSessions
          NoSession,
          MaxUpdates,   \* bound: calls of pauseSession and resumeSession, files listed late
          MaxFailures   \* bound: writes that fail

VARIABLES
    maxConcurrentSessions,
    session,     \* [Sessions -> the object, NoSession before its creation]
    table,       \* [Ids -> Sessions]: the Map
    file,        \* [Ids -> the snapshot in the id's file]
    call,        \* [Callers -> the call that awaits its write]
    storeAvailable,
    restore,     \* restoreFromStore: files still to load, snapshots loaded, or whether it is over
    updates, failures,
    gone,        \* history: sessions whose destroySession has returned
    loose,       \* history: sessions whose end the files may not tell
    crossed      \* history: a creation ran into another call, into a session with its id,
                 \* or past sessions that a failed restore left in their files

counts == <<maxConcurrentSessions, updates, failures>>
registryVars == <<session, table, file, call, storeAvailable, restore, gone, loose, crossed, counts>>

Statuses == {"active", "paused", "destroyed"}
Object == [id : Ids, workspace : Workspaces, status : Statuses]
Snapshot == [of : Sessions, status : Statuses]
Waiting == [kind : {"create", "update", "destroy"}, snapshot : Snapshot,
            write : {"pending", "landed", "failed"}]
Idle == [kind |-> "none"]

ASSUME RegistryNames ==
    /\ NoSession \notin Sessions \cup Snapshot \cup Object
    /\ Limits \in SUBSET Nat /\ {MaxUpdates, MaxFailures} \subseteq Nat

Pending(k) == call[k] # Idle /\ call[k].write = "pending"
Of(k) == call[k].snapshot.of

Listed == {table[i] : i \in Ids} \ {NoSession}
Undestroyed == {s \in Listed : session[s].status # "destroyed"}

\* A call on session s hands its status to the store, or is over at once when
\* the store has been given up.
Save(k, kind, s, status) ==
    call' = [call EXCEPT ![k] =
        IF storeAvailable
        THEN [kind |-> kind, snapshot |-> [of |-> s, status |-> status], write |-> "pending"]
        ELSE Idle]

------------------------------------------------------------------------------
(* createSession.                                                            *)

\* A call on the id is under way.
Underway(id) == \E j \in Callers : call[j] # Idle /\ session[Of(j)].id = id

\* A session lives in its file only: the restore that should have read it failed.
Unread(i) == file[i] # NoSession /\ file[i].status # "destroyed" /\ table[i] = NoSession

\* The creation of id runs into another one, into the restore, or into a
\* session that has the id, or does not see the sessions a restore left unread.
Crosses(id) ==
    \/ ~restore.over \/ table[id] # NoSession \/ Underway(id)
    \/ \E j \in Callers : call[j].kind = "create"
    \/ \E i \in Ids : Unread(i)

\* Seeded fault: the limit is compared with > .
CreateOneMore(k, s, id, workspace) ==
    /\ call[k] = Idle /\ session[s] = NoSession
    /\ \A t \in Undestroyed : session[t].workspace # workspace
    /\ ~(Cardinality(Undestroyed) > maxConcurrentSessions)
    /\ session' = [session EXCEPT ![s] =
           [id |-> id, workspace |-> workspace, status |-> "active"]]
    /\ Save(k, "create", s, "active")
    /\ table' = IF storeAvailable THEN table ELSE [table EXCEPT ![id] = s]
    /\ crossed' = (crossed \/ Crosses(id))
    /\ UNCHANGED <<file, storeAvailable, restore, gone, loose, counts>>

\* Workspace and limit are checked against the sessions in memory; the session
\* joins them when its first write has returned.
Create(k, s, id, workspace) ==
    /\ call[k] = Idle /\ session[s] = NoSession
    /\ \A t \in Undestroyed : session[t].workspace # workspace
    /\ Cardinality(Undestroyed) < maxConcurrentSessions
    /\ session' = [session EXCEPT ![s] =
           [id |-> id, workspace |-> workspace, status |-> "active"]]
    /\ Save(k, "create", s, "active")
    /\ table' = IF storeAvailable THEN table ELSE [table EXCEPT ![id] = s]
    /\ crossed' = (crossed \/ Crosses(id))
    /\ UNCHANGED <<file, storeAvailable, restore, gone, loose, counts>>

------------------------------------------------------------------------------
(* pauseSession, resumeSession, destroySession.                              *)

Update(k, id, status) ==
    LET s == table[id] IN
    /\ call[k] = Idle /\ s \in Undestroyed
    /\ updates < MaxUpdates /\ updates' = updates + 1
    /\ session' = [session EXCEPT ![s].status = status]
    /\ Save(k, "update", s, status)
    /\ UNCHANGED <<table, file, storeAvailable, restore, gone, loose, crossed, maxConcurrentSessions, failures>>

Pause(k, id) == Update(k, id, "paused")

\* Seeded fault: a status the type does not have.
ResumeAsRunning(k, id) == Update(k, id, "running")
Resume(k, id) == Update(k, id, "active")

\* The end of s may not be the last word: the store was given up, or another
\* call on the id is under way, or the restore may have read the file.
EndMayBeLost(s) ==
    ~storeAvailable \/ ~restore.over \/ Underway(session[s].id)

Destroy(k, id) ==
    LET s == table[id] IN
    /\ call[k] = Idle /\ s \in Undestroyed
    /\ session' = [session EXCEPT ![s].status = "destroyed"]
    /\ Save(k, "destroy", s, "destroyed")
    /\ loose' = IF EndMayBeLost(s) THEN loose \cup {s} ELSE loose
    /\ IF storeAvailable THEN UNCHANGED <<table, gone>>
       ELSE table' = [table EXCEPT ![id] = NoSession] /\ gone' = gone \cup {s}
    /\ UNCHANGED <<file, storeAvailable, restore, crossed, counts>>

------------------------------------------------------------------------------
(* The write (atomicWrite: rename is the last step) and the rest of the call.*)

\* Until it has answered, and no file is loaded before that, restoreFromStore's
\* readdir finds a file that is new.
MayList(id) ==
    \/ UNCHANGED <<restore, updates>>
    \/ /\ ~restore.over /\ restore.found = {} /\ id \notin restore.todo
       /\ updates < MaxUpdates /\ updates' = updates + 1
       /\ restore' = [restore EXCEPT !.todo = @ \cup {id}]

WriteLands(k) ==
    /\ Pending(k)
    /\ file' = [file EXCEPT ![session[Of(k)].id] = call[k].snapshot]
    /\ call' = [call EXCEPT ![k].write = "landed"]
    /\ MayList(session[Of(k)].id)
    /\ UNCHANGED <<session, table, storeAvailable, gone, loose, crossed, maxConcurrentSessions, failures>>

WriteFails(k) ==
    /\ Pending(k)
    /\ failures < MaxFailures /\ failures' = failures + 1
    /\ call' = [call EXCEPT ![k].write = "failed"]
    /\ loose' = IF call[k].kind = "destroy" THEN loose \cup {Of(k)} ELSE loose
    /\ UNCHANGED <<session, table, file, storeAvailable, restore, gone, crossed, maxConcurrentSessions, updates>>

\* A failed write gives the store up, save that of destroySession.  What the
\* call does to the Map it does by id, whoever has the id by now.
Return(k) ==
    LET s == Of(k) IN
    /\ call[k] # Idle /\ call[k].write # "pending"
    /\ call' = [call EXCEPT ![k] = Idle]
    /\ storeAvailable' = (storeAvailable /\ (call[k].write # "failed" \/ call[k].kind = "destroy"))
    /\ CASE call[k].kind = "create"  -> /\ table' = [table EXCEPT ![session[s].id] = s]
                                        /\ session' = [session EXCEPT ![s].status = "active"]
                                        /\ UNCHANGED gone
         [] call[k].kind = "destroy" -> /\ table' = [table EXCEPT ![session[s].id] = NoSession]
                                        /\ gone' = gone \cup {s}
                                        /\ UNCHANGED session
         [] call[k].kind = "update"  -> UNCHANGED <<table, session, gone>>
    /\ UNCHANGED <<file, restore, loose, crossed, counts>>

------------------------------------------------------------------------------
(* restoreFromStore, which the constructor starts and does not await.        *)

\* The files that are there to be listed when it starts.
RestoreFrom(files) == [over |-> FALSE, todo |-> {i \in Ids : files[i] # NoSession}, found |-> {}]

RestoreLoads(id) ==
    /\ id \in restore.todo
    /\ restore' = [restore EXCEPT !.todo = @ \ {id}, !.found = @ \cup {file[id]}]
    /\ UNCHANGED <<session, table, file, call, storeAvailable, gone, loose, crossed, counts>>

\* Seeded fault: destroyed sessions are restored, too.
RestoreEndsWithAll ==
    /\ ~restore.over /\ restore.todo = {}
    /\ restore' = [restore EXCEPT !.over = TRUE, !.found = {}]
    /\ table' = [i \in Ids |->
           IF \E f \in restore.found : session[f.of].id = i
           THEN (CHOOSE f \in restore.found : session[f.of].id = i).of ELSE table[i]]
    /\ session' = [s \in Sessions |->
           IF \E f \in restore.found : f.of = s
           THEN [session[s] EXCEPT !.status = (CHOOSE f \in restore.found : f.of = s).status]
           ELSE session[s]]
    /\ UNCHANGED <<file, call, storeAvailable, gone, loose, crossed, counts>>

\* Every session that is not destroyed takes its id in the Map, whoever has it
\* by now: one file per id, one session per file.  An unreadable directory
\* restores nothing.
RestoreEnds ==
    /\ ~restore.over
    /\ \E found \in {{}, {f \in restore.found : f.status # "destroyed"}} :
         /\ found # {} => restore.todo = {}
         /\ table' = [i \in Ids |->
                IF \E f \in found : session[f.of].id = i
                THEN (CHOOSE f \in found : session[f.of].id = i).of ELSE table[i]]
         /\ session' = [s \in Sessions |->
                IF \E f \in found : f.of = s
                THEN [session[s] EXCEPT !.status = (CHOOSE f \in found : f.of = s).status]
                ELSE session[s]]
    /\ restore' = [over |-> TRUE, todo |-> {}, found |-> {}]
    /\ UNCHANGED <<file, call, storeAvailable, gone, loose, crossed, counts>>

\* dispose.
Dispose ==
    /\ table' = [i \in Ids |-> NoSession]
    /\ UNCHANGED <<session, file, call, storeAvailable, restore, gone, loose, crossed, counts>>

\* The process ends, with the writes that have not landed, and a new
\* SessionManager is made.
Restart ==
    /\ table' = [i \in Ids |-> NoSession]
    /\ call' = [k \in Callers |-> Idle]
    /\ storeAvailable' = TRUE
    /\ restore' = RestoreFrom(file)
    /\ loose' = loose \cup {Of(k) : k \in {j \in Callers : Pending(j) /\ call[j].kind = "destroy"}}
    /\ UNCHANGED <<session, file, gone, crossed, counts>>

RegistryInit ==
    /\ maxConcurrentSessions \in Limits /\ updates = 0 /\ failures = 0
    /\ session = [s \in Sessions |-> NoSession]
    /\ table = [i \in Ids |-> NoSession]
    /\ file = [i \in Ids |-> NoSession]
    /\ call = [k \in Callers |-> Idle]
    /\ storeAvailable = TRUE
    /\ restore = RestoreFrom(file)
    /\ gone = {} /\ loose = {} /\ crossed = FALSE

RegistryStep ==
    \E k \in Callers :
        \/ \E s \in Sessions, id \in Ids, workspace \in Workspaces : Create(k, s, id, workspace)
        \/ \E id \in Ids : Pause(k, id) \/ Resume(k, id) \/ Destroy(k, id)

RegistryContinues ==
    \/ \E k \in Callers : WriteLands(k) \/ WriteFails(k) \/ Return(k)
    \/ \E id \in Ids : RestoreLoads(id)
    \/ RestoreEnds

------------------------------------------------------------------------------
(* Properties.                                                               *)

\* The type of every variable; what the Map has under an id has that id.
RegistryTypeOK ==
    /\ maxConcurrentSessions \in Limits
    /\ updates \in 0..MaxUpdates /\ failures \in 0..MaxFailures
    /\ session \in [Sessions -> Object \cup {NoSession}]
    /\ table \in [Ids -> Sessions \cup {NoSession}]
    /\ \A i \in Ids : table[i] # NoSession => session[table[i]].id = i
    /\ file \in [Ids -> Snapshot \cup {NoSession}]
    /\ call \in [Callers -> Waiting \cup {Idle}]
    /\ storeAvailable \in BOOLEAN
    /\ restore \in [over : BOOLEAN, todo : SUBSET Ids, found : SUBSET Snapshot]
    /\ gone \in SUBSET Sessions /\ loose \in SUBSET Sessions
    /\ crossed \in BOOLEAN

\* No two sessions share a workspace and there are no more than the limit,
\* across destruction, restart and restore: unless a creation was under way
\* together with another one, with the restore or with a call on its id, or
\* took an id that was in use, or came after a restore that could not read the
\* directory, whose sessions the next restart brings back; or the end of a
\* session did not reach its file (SessionManager.ts 54-82, 117-129, 133-151).
SessionsKeepApart ==
    ~crossed /\ loose = {} =>
        /\ \A s, t \in Undestroyed : s # t => session[s].workspace # session[t].workspace
        /\ Cardinality(Undestroyed) <= maxConcurrentSessions

\* A session whose destruction was acknowledged does not come back, not even
\* after a restart, unless the store had been given up, its write failed, or
\* another call on its id or the restore was under way (111-142).
DestroyedStaysDestroyed ==
    \A s \in gone \ loose : s \notin Listed
==============================================================================
