--------------------------- MODULE EngineSessions ---------------------------
(***************************************************************************)
(* AgentEngine's queries over its sessions: the lock and the abort         *)
(* controller each query holds under its sessionId, what destroySession    *)
(* and destroy do to a query that is under way, and SessionRegistry's      *)
(* calls between them.                                                     *)
(*                                                                         *)
(* query is an async generator: it takes the lock, may await the prompt,   *)
(* registers its controller, awaits an import and then loops.  Lock and    *)
(* controller belong to an id, which another session may have by then.     *)
(* External: the prompt function and the loop, which end when they like.   *)
(***************************************************************************)
EXTENDS SessionRegistry

CONSTANTS Queriers,      \* callers of query, one at a time each
          MaxRestarts    \* bound: restarts of the process

ASSUME EngineLimits == MaxRestarts \in Nat

VARIABLES
    query,           \* [Queriers -> the query under way]
    activeQueries,   \* ids that are locked
    controllers,     \* activeAbortControllers: [Ids -> whose controller]
    destroyed,       \* the engine is destroyed
    restarts,
    unheard          \* history: queries that had no controller when the engine was destroyed

engineVars == <<query, activeQueries, controllers, destroyed, restarts, unheard>>
vars == <<registryVars, engineVars>>

NoQuery == [stage |-> "none"]
NoOne == "none"
Running(q) == query[q] # NoQuery

\* The lock is held and the session was there; the prompt is next if it is a
\* function, else the import, with the controller registered.
At(q, id, stage, aborted) ==
    query' = [query EXCEPT ![q] = [stage |-> stage, id |-> id, aborted |-> aborted]]

Register(q, id) == controllers' = [controllers EXCEPT ![id] = q]

------------------------------------------------------------------------------
\* Seeded fault: the lock is taken when the prompt is there.
StartsUnlocked(q, id) ==
    /\ ~destroyed /\ query[q] = NoQuery /\ id \notin activeQueries
    /\ table[id] # NoSession /\ session[table[id]].status = "active"
    /\ \/ At(q, id, "prompt", FALSE) /\ UNCHANGED <<activeQueries, controllers>>
       \/ At(q, id, "import", FALSE) /\ Register(q, id) /\ activeQueries' = activeQueries \cup {id}
    /\ UNCHANGED <<registryVars, destroyed, restarts, unheard>>

\* A session that is busy, unknown, destroyed or paused is refused, and the
\* lock taken in between is given back in the same step.
Starts(q, id) ==
    /\ ~destroyed /\ query[q] = NoQuery /\ id \notin activeQueries
    /\ table[id] # NoSession /\ session[table[id]].status = "active"
    /\ activeQueries' = activeQueries \cup {id}
    /\ \/ At(q, id, "prompt", FALSE) /\ UNCHANGED controllers
       \/ At(q, id, "import", FALSE) /\ Register(q, id)
    /\ UNCHANGED <<registryVars, destroyed, restarts, unheard>>

\* The prompt is there, and nothing is checked again.
PromptIsThere(q) ==
    /\ Running(q) /\ query[q].stage = "prompt"
    /\ At(q, query[q].id, "import", FALSE)
    /\ Register(q, query[q].id)
    /\ UNCHANGED <<registryVars, activeQueries, destroyed, restarts, unheard>>

Loops(q) ==
    /\ Running(q) /\ query[q].stage = "import"
    /\ At(q, query[q].id, "loop", query[q].aborted)
    /\ UNCHANGED <<registryVars, activeQueries, controllers, destroyed, restarts, unheard>>

\* The prompt function throws, or the loop ends, throws or is left: the
\* finally block clears controller and lock by id.
Ends(q) ==
    /\ Running(q) /\ query[q].stage \in {"prompt", "loop"}
    /\ query' = [query EXCEPT ![q] = NoQuery]
    /\ controllers' = [controllers EXCEPT ![query[q].id] = NoOne]
    /\ activeQueries' = activeQueries \ {query[q].id}
    /\ unheard' = unheard \ {q}
    /\ UNCHANGED <<registryVars, destroyed, restarts>>

\* Seeded fault: the controllers are cleared before they are aborted.
DestroyEngineClearsFirst ==
    /\ ~destroyed /\ destroyed' = TRUE
    /\ controllers' = [i \in Ids |-> NoOne]
    /\ unheard' = {q \in Queriers : Running(q) /\ query[q].stage = "prompt"}
    /\ Dispose
    /\ UNCHANGED <<query, activeQueries, restarts>>

\* destroy: every registered controller is aborted; a query that still awaits
\* its prompt has none.
DestroyEngine ==
    /\ ~destroyed /\ destroyed' = TRUE
    /\ query' = [q \in Queriers |->
           IF Running(q) /\ controllers[query[q].id] = q
           THEN [query[q] EXCEPT !.aborted = TRUE] ELSE query[q]]
    /\ controllers' = [i \in Ids |-> NoOne]
    /\ unheard' = {q \in Queriers : Running(q) /\ query[q].stage = "prompt"}
    /\ Dispose
    /\ UNCHANGED <<activeQueries, restarts>>

\* createSession, pauseSession, resumeSession and destroySession: refused on a
\* destroyed engine.  A query under way is not told.
SessionCall == ~destroyed /\ RegistryStep /\ UNCHANGED engineVars

SessionCallGoesOn == RegistryContinues /\ UNCHANGED engineVars

\* The process ends and another engine is made over the same files.
EngineRestarts ==
    /\ restarts < MaxRestarts
    /\ restarts' = restarts + 1
    /\ Restart
    /\ query' = [q \in Queriers |-> NoQuery]
    /\ activeQueries' = {} /\ controllers' = [i \in Ids |-> NoOne]
    /\ destroyed' = FALSE /\ unheard' = {}

Init ==
    /\ RegistryInit
    /\ query = [q \in Queriers |-> NoQuery]
    /\ activeQueries = {} /\ controllers = [i \in Ids |-> NoOne]
    /\ destroyed = FALSE /\ restarts = 0 /\ unheard = {}

Next ==
    \/ \E q \in Queriers : \/ \E id \in Ids : Starts(q, id)
                           \/ PromptIsThere(q) \/ Loops(q) \/ Ends(q)
    \/ DestroyEngine \/ SessionCall \/ SessionCallGoesOn \/ EngineRestarts

Spec == Init /\ [][Next]_vars

------------------------------------------------------------------------------
(* Properties.                                                               *)

\* The type of every variable: a query, a lock and a controller belong to an id.
TypeOK ==
    /\ RegistryTypeOK
    /\ query \in [Queriers -> {NoQuery} \cup
                     [stage : {"prompt", "import", "loop"}, id : Ids, aborted : BOOLEAN]]
    /\ activeQueries \in SUBSET Ids
    /\ controllers \in [Ids -> Queriers \cup {NoOne}]
    /\ destroyed \in BOOLEAN /\ restarts \in 0..MaxRestarts
    /\ unheard \in SUBSET Queriers

\* At most one query runs under a sessionId, also when its session was
\* destroyed and the id given to another one while it ran: the lock is the
\* id's, and only its holder gives it back (AgentEngine.ts 569-574, 711).
QueryIsAlone ==
    \A p, q \in Queriers :
        Running(p) /\ Running(q) /\ query[p].id = query[q].id => p = q

\* Destroying the engine aborts every query under way, whatever has happened
\* to its session, save one that still awaited its prompt: that one registers
\* its controller on the destroyed engine and goes on (604-620, 819-828).
DestroyReachesQueries ==
    destroyed => \A q \in Queriers : Running(q) => query[q].aborted \/ q \in unheard
==============================================================================
