------------------------ MODULE EngineSessionsProofs ------------------------
(***************************************************************************)
(* For every number of sessions, callers, queries and restarts: one query  *)
(* runs under an id, destroying the engine reaches every query that has a  *)
(* controller, a session that is destroyed stays so, sessions keep apart   *)
(* in workspace and number, and every variable keeps its type.             *)
(***************************************************************************)
EXTENDS EngineSessions, SessionRegistryProofs, TLAPS

QueryShape == [stage : {"prompt", "import", "loop"}, id : Ids, aborted : BOOLEAN]

QueryTypes ==
    /\ query \in [Queriers -> {NoQuery} \cup QueryShape]
    /\ activeQueries \in SUBSET Ids
    /\ controllers \in [Ids -> Queriers \cup {NoOne}]
    /\ destroyed \in BOOLEAN
    /\ unheard \in SUBSET Queriers

\* A query holds its id's lock from its start to its finally block.
LockInv == \A q \in Queriers : Running(q) => query[q].id \in activeQueries

\* A query past its prompt is registered as long as the engine lives.
HeardInv ==
    /\ ~destroyed => \A q \in Queriers :
           Running(q) /\ query[q].stage # "prompt" => controllers[query[q].id] = q
    /\ destroyed => \A q \in Queriers : Running(q) =>
           q \in unheard \/ (query[q].aborted /\ query[q].stage # "prompt")

EngineInv == QueryTypes /\ LockInv /\ QueryIsAlone /\ HeardInv

\* A query under way has the fields of one.
LEMMA RunningShape ==
    ASSUME QueryTypes, NEW q \in Queriers, Running(q)
    PROVE  query[q] \in QueryShape
BY DEF QueryTypes, Running

\* A step that gives q a record of this shape leaves the other queries alone.
LEMMA AtShape ==
    ASSUME QueryTypes, NEW q \in Queriers, NEW id \in Ids, NEW aborted \in BOOLEAN,
           NEW stage \in {"prompt", "import", "loop"}, At(q, id, stage, aborted)
    PROVE  /\ query' \in [Queriers -> {NoQuery} \cup QueryShape]
           /\ query'[q] = [stage |-> stage, id |-> id, aborted |-> aborted]
           /\ Running(q)'
           /\ \A p \in Queriers \ {q} : query'[p] = query[p] /\ (Running(p)' <=> Running(p))
<1>1. [stage |-> stage, id |-> id, aborted |-> aborted] \in QueryShape
    BY DEF QueryShape
<1>2. [stage |-> stage, id |-> id, aborted |-> aborted] # NoQuery
    BY DEF NoQuery
<1> QED BY <1>1, <1>2 DEF QueryTypes, At, Running

\* No query runs at first.
LEMMA EngineInit == Init => EngineInv
BY DEF Init, EngineInv, QueryTypes, LockInv, QueryIsAlone, HeardInv, Running

\* Every step of a query, of the engine or of a session keeps the invariant.
LEMMA EngineStep == EngineInv /\ [Next]_vars => EngineInv'
<1> SUFFICES ASSUME EngineInv, [Next]_vars PROVE EngineInv'
    OBVIOUS
<1> USE DEF EngineInv
<1>1. ASSUME NEW q \in Queriers, NEW id \in Ids, Starts(q, id) PROVE EngineInv'
    <2>0. /\ ~destroyed /\ destroyed' = destroyed /\ ~Running(q) /\ id \notin activeQueries
          /\ activeQueries' = activeQueries \cup {id} /\ unheard' = unheard
        BY <1>1 DEF Starts, Running
    <2>1. PICK stage \in {"prompt", "import"} :
             /\ At(q, id, stage, FALSE)
             /\ controllers' = IF stage = "prompt" THEN controllers ELSE [controllers EXCEPT ![id] = q]
        BY <1>1 DEF Starts, Register
    <2>2. /\ query' \in [Queriers -> {NoQuery} \cup QueryShape]
          /\ query'[q] = [stage |-> stage, id |-> id, aborted |-> FALSE] /\ Running(q)'
          /\ \A p \in Queriers \ {q} : query'[p] = query[p] /\ (Running(p)' <=> Running(p))
        BY <2>1, AtShape
    <2>3. \A p \in Queriers : Running(p) => query[p].id \in Ids /\ query[p].id # id
        BY <2>0, RunningShape DEF LockInv, QueryShape
    <2>4. QueryTypes'
        BY <2>0, <2>1, <2>2 DEF QueryTypes
    <2>5. LockInv' /\ QueryIsAlone'
        BY <2>0, <2>2, <2>3 DEF LockInv, QueryIsAlone
    <2>6. HeardInv'
        BY <2>0, <2>1, <2>2, <2>3 DEF HeardInv, QueryTypes
    <2> QED BY <2>4, <2>5, <2>6
<1>2. ASSUME NEW q \in Queriers, PromptIsThere(q) PROVE EngineInv'
    <2>0. /\ Running(q) /\ query[q].stage = "prompt" /\ At(q, query[q].id, "import", FALSE)
          /\ controllers' = [controllers EXCEPT ![query[q].id] = q]
          /\ UNCHANGED <<activeQueries, destroyed, unheard>>
        BY <1>2 DEF PromptIsThere, Register
    <2>1. query[q] \in QueryShape
        BY <2>0, RunningShape
    <2>2. /\ query' \in [Queriers -> {NoQuery} \cup QueryShape]
          /\ query'[q] = [stage |-> "import", id |-> query[q].id, aborted |-> FALSE] /\ Running(q)'
          /\ \A p \in Queriers \ {q} : query'[p] = query[p] /\ (Running(p)' <=> Running(p))
        BY <2>0, <2>1, AtShape DEF QueryShape
    <2>3. \A p \in Queriers \ {q} : Running(p) => query[p].id \in Ids /\ query[p].id # query[q].id
        BY <2>0, RunningShape DEF QueryIsAlone, QueryShape
    <2>4. QueryTypes'
        BY <2>0, <2>1, <2>2 DEF QueryTypes, QueryShape
    <2>5. LockInv' /\ QueryIsAlone'
        BY <2>0, <2>2, <2>3 DEF LockInv, QueryIsAlone
    <2>6. HeardInv'
        BY <2>0, <2>1, <2>2, <2>3 DEF HeardInv, QueryTypes, QueryShape
    <2> QED BY <2>4, <2>5, <2>6
<1>3. ASSUME NEW q \in Queriers, Loops(q) PROVE EngineInv'
    <2>0. /\ Running(q) /\ query[q].stage = "import" /\ At(q, query[q].id, "loop", query[q].aborted)
          /\ UNCHANGED <<controllers, activeQueries, destroyed, unheard>>
        BY <1>3 DEF Loops
    <2>1. query[q] \in QueryShape
        BY <2>0, RunningShape
    <2>2. /\ query' \in [Queriers -> {NoQuery} \cup QueryShape]
          /\ query'[q] = [stage |-> "loop", id |-> query[q].id, aborted |-> query[q].aborted]
          /\ Running(q)'
          /\ \A p \in Queriers \ {q} : query'[p] = query[p] /\ (Running(p)' <=> Running(p))
        <3>1. query[q].id \in Ids /\ query[q].aborted \in BOOLEAN /\ "loop" \in {"prompt", "import", "loop"}
            BY <2>1 DEF QueryShape
        <3> HIDE DEF EngineInv
        <3>2. QueryTypes
            BY DEF EngineInv
        <3> QED BY <2>0, <3>1, <3>2, AtShape
    <2>4. QueryTypes'
        BY <2>0, <2>2 DEF QueryTypes
    <2>5. LockInv' /\ QueryIsAlone'
        BY <2>0, <2>2 DEF LockInv, QueryIsAlone
    <2>6. HeardInv'
        BY <2>0, <2>2 DEF HeardInv
    <2> QED BY <2>4, <2>5, <2>6
<1>4. ASSUME NEW q \in Queriers, Ends(q) PROVE EngineInv'
    <2>0. /\ Running(q)
          /\ query' = [query EXCEPT ![q] = NoQuery]
          /\ controllers' = [controllers EXCEPT ![query[q].id] = NoOne]
          /\ activeQueries' = activeQueries \ {query[q].id}
          /\ unheard' = unheard \ {q} /\ destroyed' = destroyed
        BY <1>4 DEF Ends
    <2>1. query[q] \in QueryShape
        BY <2>0, RunningShape
    <2>2. /\ query' \in [Queriers -> {NoQuery} \cup QueryShape] /\ ~Running(q)'
          /\ \A p \in Queriers \ {q} : query'[p] = query[p] /\ (Running(p)' <=> Running(p))
        BY <2>0 DEF QueryTypes, Running
    <2>3. \A p \in Queriers \ {q} : Running(p) => query[p].id \in Ids /\ query[p].id # query[q].id
        BY <2>0, RunningShape DEF QueryIsAlone, QueryShape
    <2>4. QueryTypes'
        BY <2>0, <2>1, <2>2 DEF QueryTypes, QueryShape
    <2>5. LockInv' /\ QueryIsAlone'
        BY <2>0, <2>2, <2>3 DEF LockInv, QueryIsAlone
    <2>6. HeardInv'
        BY <2>0, <2>2, <2>3 DEF HeardInv, QueryTypes
    <2> QED BY <2>4, <2>5, <2>6
<1>5. CASE DestroyEngine
    <2> DEFINE told(q) == IF Running(q) /\ controllers[query[q].id] = q
                          THEN [query[q] EXCEPT !.aborted = TRUE] ELSE query[q]
    <2>0. /\ ~destroyed /\ destroyed' /\ activeQueries' = activeQueries
          /\ query' = [q \in Queriers |-> told(q)]
          /\ controllers' = [i \in Ids |-> NoOne]
          /\ unheard' = {q \in Queriers : Running(q) /\ query[q].stage = "prompt"}
        BY <1>5 DEF DestroyEngine
    <2>1. ASSUME NEW q \in Queriers
          PROVE  /\ query'[q] \in {NoQuery} \cup QueryShape
                 /\ Running(q)' <=> Running(q)
                 /\ Running(q) => /\ query'[q].id = query[q].id
                                  /\ query'[q].stage = query[q].stage
                                  /\ query[q].stage # "prompt" => query'[q].aborted
        <3>1. CASE ~Running(q)
            BY <2>0, <3>1 DEF Running
        <3>2. CASE Running(q)
            <4>1. query[q] \in QueryShape
                BY <3>2, RunningShape
            <4>2. [query[q] EXCEPT !.aborted = TRUE] \in QueryShape
                BY <4>1 DEF QueryShape
            <4>3. query'[q] \in QueryShape /\ query'[q].id = query[q].id
                  /\ query'[q].stage = query[q].stage
                BY <2>0, <4>1, <4>2 DEF QueryShape
            <4>4. Running(q)'
                BY <4>3 DEF Running, QueryShape, NoQuery
            <4>5. query[q].stage # "prompt" => query'[q].aborted
                BY <2>0, <3>2, <4>1 DEF HeardInv, QueryShape
            <4> QED BY <3>2, <4>3, <4>4, <4>5
        <3> QED BY <3>1, <3>2
    <2>2. query' \in [Queriers -> {NoQuery} \cup QueryShape]
        BY <2>0, <2>1
    <2>3. QueryTypes'
        BY <2>0, <2>2 DEF QueryTypes
    <2>4. LockInv' /\ QueryIsAlone'
        <3>1. ASSUME NEW q \in Queriers, Running(q)' PROVE query'[q].id \in activeQueries'
            <4>1. Running(q) /\ query'[q].id = query[q].id
                BY <2>1, <3>1
            <4> QED BY <2>0, <4>1 DEF LockInv
        <3>2. \A p, q \in Queriers : Running(p)' /\ Running(q)' /\ query'[p].id = query'[q].id => p = q
            BY <2>1 DEF QueryIsAlone
        <3> QED BY <3>1, <3>2 DEF LockInv, QueryIsAlone
    <2>5. HeardInv'
        BY <2>0, <2>1 DEF HeardInv
    <2> QED BY <2>3, <2>4, <2>5
<1>6. CASE EngineRestarts
    <2>0. /\ query' = [q \in Queriers |-> NoQuery] /\ activeQueries' = {}
          /\ controllers' = [i \in Ids |-> NoOne] /\ destroyed' = FALSE /\ unheard' = {}
        BY <1>6 DEF EngineRestarts
    <2> QED BY <2>0 DEF QueryTypes, LockInv, QueryIsAlone, HeardInv, Running
<1>7. CASE SessionCall \/ SessionCallGoesOn \/ UNCHANGED vars
    <2>0. UNCHANGED engineVars
        BY <1>7 DEF SessionCall, SessionCallGoesOn, vars
    <2> QED BY <2>0 DEF engineVars, QueryTypes, LockInv, QueryIsAlone, HeardInv, Running
<1> QED BY <1>1, <1>2, <1>3, <1>4, <1>5, <1>6, <1>7 DEF Next

\* So it holds in every state.
LEMMA EngineAlways == Spec => []EngineInv
BY EngineInit, EngineStep, PTL DEF Spec

\* At most one query runs under an id, however its session comes and goes.
THEOREM OneQueryPerId == Spec => []QueryIsAlone
<1>1. EngineInv => QueryIsAlone
    BY DEF EngineInv
<1> QED BY <1>1, EngineAlways, PTL

\* Destroying the engine aborts every query but those that await their prompt.
THEOREM DestroyIsHeard == Spec => []DestroyReachesQueries
<1>1. EngineInv => DestroyReachesQueries
    BY DEF EngineInv, HeardInv, DestroyReachesQueries
<1> QED BY <1>1, EngineAlways, PTL

------------------------------------------------------------------------------
(* The sessions under the queries: the engine does what the registry does.   *)

RestartsOK == restarts \in 0..MaxRestarts

\* The invariants of the queries, the registry and the bound on restarts hold
\* in every state.
LEMMA AllAlways == Spec => [](EngineInv /\ RegistryInv /\ RestartsOK)
<1>1. Init => EngineInv /\ RegistryInv /\ RestartsOK
    BY EngineInit, RegistryStarts, EngineLimits DEF Init, RestartsOK
<1>2. RegistryInv /\ [Next]_vars => RegistryInv'
    <2> SUFFICES ASSUME RegistryInv, [Next]_vars PROVE RegistryMoves \/ UNCHANGED registryVars
        BY RegistryMovesKeep
    <2>1. CASE \E q \in Queriers : \/ \E id \in Ids : Starts(q, id)
                                   \/ PromptIsThere(q) \/ Loops(q) \/ Ends(q)
        BY <2>1 DEF Starts, PromptIsThere, Loops, Ends
    <2>2. CASE DestroyEngine \/ SessionCall \/ SessionCallGoesOn \/ EngineRestarts
        BY <2>2 DEF DestroyEngine, SessionCall, SessionCallGoesOn, EngineRestarts, RegistryMoves
    <2> QED BY <2>1, <2>2 DEF Next, vars
<1>3. RestartsOK /\ [Next]_vars => RestartsOK'
    <2> SUFFICES ASSUME RestartsOK, [Next]_vars PROVE RestartsOK'
        OBVIOUS
    <2>1. restarts' = restarts \/ (restarts < MaxRestarts /\ restarts' = restarts + 1)
        BY DEF Next, vars, engineVars, Starts, PromptIsThere, Loops, Ends, DestroyEngine,
               SessionCall, SessionCallGoesOn, EngineRestarts
    <2> QED BY <2>1, EngineLimits DEF RestartsOK
<1> QED BY <1>1, <1>2, <1>3, EngineStep, PTL DEF Spec

\* Every variable of registry and engine keeps its type.
THEOREM TypeCorrect == Spec => []TypeOK
<1>1. EngineInv /\ RegistryInv /\ RestartsOK => TypeOK
    BY DEF EngineInv, RegistryInv, RestartsOK, TypeOK, QueryTypes, QueryShape
<1> QED BY <1>1, AllAlways, PTL

\* A session whose destruction was acknowledged, and whose end no failed write,
\* given-up store or concurrent call can have lost, is never listed again,
\* whatever is created, restored or restarted afterwards.
THEOREM DestroyIsForGood == Spec => []DestroyedStaysDestroyed
<1> QED BY GoneIsGone, AllAlways, PTL

------------------------------------------------------------------------------
(* Sessions keep apart: nothing new starts on a destroyed engine, whose Map  *)
(* was emptied under the calls that are under way.                           *)

ApartOnEngine ==
    /\ ~destroyed => ApartInv(FALSE)
    /\ destroyed => ApartInv(TRUE)

\* At first there is nothing to keep apart.
LEMMA EngineStartsApart == Init => ApartOnEngine
BY ApartStarts DEF Init, ApartOnEngine

\* No step of engine, query or session brings sessions together.
LEMMA EngineKeepsApart ==
    EngineInv /\ RegistryInv /\ RegistryInv' /\ ApartOnEngine /\ [Next]_vars => ApartOnEngine'
<1> SUFFICES ASSUME EngineInv, RegistryInv, RegistryInv', ApartOnEngine, [Next]_vars
             PROVE  ApartOnEngine'
    OBVIOUS
<1>1. destroyed \in BOOLEAN
    BY DEF EngineInv, QueryTypes
<1>2. CASE UNCHANGED registryVars /\ destroyed' = destroyed
    <2>1. ApartInv(FALSE) => ApartInv(FALSE)'
        BY <1>2, UnchangedApart
    <2>2. ApartInv(TRUE) => ApartInv(TRUE)'
        BY <1>2, UnchangedApart
    <2> QED BY <1>2, <2>1, <2>2 DEF ApartOnEngine
<1>3. CASE DestroyEngine
    <2>1. ~destroyed /\ destroyed' /\ Dispose
        BY <1>3 DEF DestroyEngine
    <2>2. ApartInv(FALSE)
        BY <2>1 DEF ApartOnEngine
    <2>3. ApartInv(TRUE)'
        BY <2>1, <2>2, DisposeApart
    <2> QED BY <2>1, <2>3 DEF ApartOnEngine
<1>4. CASE SessionCall
    <2>1. ~destroyed /\ destroyed' = destroyed /\ RegistryStep
        BY <1>4 DEF SessionCall, engineVars
    <2>2. ApartInv(FALSE)
        BY <2>1 DEF ApartOnEngine
    <2>3. ApartInv(FALSE)'
        BY <2>1, <2>2, StepApart
    <2> QED BY <2>1, <2>3 DEF ApartOnEngine
<1>5. CASE SessionCallGoesOn
    <2>1. RegistryContinues /\ destroyed' = destroyed
        BY <1>5 DEF SessionCallGoesOn, engineVars
    <2>2. ApartInv(FALSE) => ApartInv(FALSE)'
        BY <2>1, ContinuesApart
    <2>3. ApartInv(TRUE) => ApartInv(TRUE)'
        BY <2>1, ContinuesApart
    <2> QED BY <2>1, <2>2, <2>3 DEF ApartOnEngine
<1>6. CASE EngineRestarts
    <2>1. Restart /\ destroyed' = FALSE
        BY <1>6 DEF EngineRestarts
    <2>2. ApartInv(FALSE) => ApartInv(FALSE)'
        BY <2>1, RestartApart
    <2>3. ApartInv(TRUE) => ApartInv(FALSE)'
        BY <2>1, RestartApart
    <2> QED BY <1>1, <2>1, <2>2, <2>3 DEF ApartOnEngine
<1>7. CASE \E q \in Queriers : \/ \E id \in Ids : Starts(q, id)
                               \/ PromptIsThere(q) \/ Loops(q) \/ Ends(q)
    <2>1. UNCHANGED registryVars /\ destroyed' = destroyed
        BY <1>7 DEF Starts, PromptIsThere, Loops, Ends
    <2> QED BY <1>2, <2>1
<1>8. CASE UNCHANGED vars
    <2>1. UNCHANGED registryVars /\ destroyed' = destroyed
        BY <1>8 DEF vars, engineVars
    <2> QED BY <1>2, <2>1
<1> QED BY <1>3, <1>4, <1>5, <1>6, <1>7, <1>8 DEF Next

\* No two sessions share a workspace and there are no more than the limit,
\* through destruction, restart and restore, as long as no creation has crossed
\* another call or missed a session the restore left unread.
THEOREM SessionsApart == Spec => []SessionsKeepApart
<1> DEFINE Sound == EngineInv /\ RegistryInv /\ RestartsOK
<1>1. Sound /\ ApartOnEngine => SessionsKeepApart
    <2> SUFFICES ASSUME Sound, ApartOnEngine PROVE SessionsKeepApart
        OBVIOUS
    <2>1. RegistryInv /\ destroyed \in BOOLEAN
        BY DEF EngineInv, QueryTypes
    <2>2. ApartInv(FALSE) \/ ApartInv(TRUE)
        BY <2>1 DEF ApartOnEngine
    <2>3. Quiet => Room
        BY <2>2 DEF ApartInv
    <2> QED BY <2>1, <2>3, RoomKeepsApart
<1>2. Sound /\ Sound' /\ ApartOnEngine /\ [Next]_vars => ApartOnEngine'
    BY EngineKeepsApart
<1> HIDE DEF Sound
<1>3. Spec => []Sound
    BY AllAlways DEF Sound
<1> QED BY <1>1, <1>2, <1>3, EngineStartsApart, PTL DEF Spec
==============================================================================
