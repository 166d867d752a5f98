---------------------------- MODULE SerialProofs ----------------------------
(***************************************************************************)
(* Proofs about Deployments: of what a request that deploys can rely on,   *)
(* and of what holds when callers keep to one request per vid.             *)
(***************************************************************************)
EXTENDS DeploymentsProofs

(***************************************************************************)
(* Who takes a deployment away, and what a DELETE can still be for.        *)
(***************************************************************************)
Hit(d) ==
  \/ \E r \in Requests : At(r, "remove") /\ old[r] = d
  \/ \E r \in Requests : At(r, "compensate") /\ req[r].new = d
  \/ \E p \in lateDeletes : p[2] = d
  \/ \E p \in tool.pids : p[2] = d

Hits ==
  /\ \A d \in Dids : engine[d] # "unborn" /\ engine'[d] # engine[d] => Hit(d)
  /\ \A p \in lateDeletes' : Hit(p[2])

LEMMA HitsOfNothing ==
  ASSUME engine' = engine, lateDeletes' \subseteq lateDeletes
  PROVE  Hits
BY DEF Hits, Hit

LEMMA HitsOfRemoval ==
  ASSUME TypeOK, NEW u, NEW d, Hit(d), RemoveProcess(u, d) \/ RemoveProcessFails(u, d)
  PROVE  Hits
<1>1. CASE UNCHANGED engineVars
  BY <1>1, HitsOfNothing DEF engineVars
<1>2. CASE RemoveProcess(u, d)
  BY <1>2 DEF RemoveProcess, Erased, Hits, Hit, TypeOK, EngineTypeOK
<1>3. CASE engine' = engine /\ lateDeletes' = lateDeletes \cup {<<shardOf[u], d>>}
  BY <1>3 DEF Hits, Hit
<1>4. QED
  BY <1>1, <1>2, <1>3 DEF RemoveProcessFails

LEMMA HitsOfCreation ==
  ASSUME IndInv, NEW r \in Requests, Create(r) \/ CreatePlaceholder(r)
  PROVE  Hits
<1>1. req[r].new \in Dids /\ Unsaved(r) /\ ~Created(r)
  BY DEF Create, CreatePlaceholder, At, Unsaved, Created, IndInv, TypeOK, ControllerTypeOK,
     Deploying
<1>2. engine[req[r].new] = "unborn"
  BY <1>1, NoneAssumption DEF IndInv, NewIds
<1>3. CASE UNCHANGED engineVars
  BY <1>3, HitsOfNothing DEF engineVars
<1>4. CASE CreateDeployment(req[r].user, req[r].new)
  BY <1>2, <1>4 DEF CreateDeployment, Hits, Hit, IndInv, TypeOK, EngineTypeOK
<1>5. QED
  BY <1>3, <1>4 DEF Create, CreatePlaceholder, CreateFails

LEMMA HitsInStep ==
  ASSUME IndInv, [Next]_vars
  PROVE  Hits
<1>1. ASSUME UNCHANGED engineVars PROVE Hits
  BY <1>1, HitsOfNothing DEF engineVars
<1>2. ASSUME NEW r \in Requests, Handle(r) PROVE Hits
  <2>1. CASE RemoveOld(r)
    BY <2>1, HitsOfRemoval DEF RemoveOld, Hit, IndInv
  <2>2. CASE Compensate(r)
    BY <2>2, HitsOfRemoval DEF Compensate, Hit, IndInv
  <2>3. CASE Create(r) \/ CreatePlaceholder(r)
    BY <2>3, HitsOfCreation
  <2>4. QED
    BY <1>1, <1>2, <2>1, <2>2, <2>3 DEF Handle, CheckExisting, Lookup,
       DeleteIncidentsAndIoVariables, Begin, DeleteNextRow, NextStatement, EndOfStatements,
       StatementFails, Abort, CommitRemoval, RollbackRemoval, FindDefinitions, SetHandler,
       Save, Answer
<1>3. ASSUME NEW r \in Requests, RequestStep(r) PROVE Hits
  BY <1>1, <1>2, <1>3 DEF RequestStep, Arrive, StartDelete, StartDeploy, DeadlockVictim, Abort
<1>4. CASE ToolStep
  <2>1. CASE RemovePid
    <3>1. PICK p \in tool.pids :
            \/ engine' = Erased(p[1], p[2]) /\ lateDeletes' = lateDeletes
            \/ engine' = engine /\ lateDeletes' = lateDeletes \cup {p}
      BY <2>1 DEF RemovePid
    <3>2. QED
      BY <3>1 DEF Erased, Hits, Hit, IndInv, TypeOK, EngineTypeOK
  <2>2. QED
    BY <1>1, <1>4, <2>1 DEF ToolStep, ReadRelations, ListShard, Stop
<1>5. CASE Environment
  <2>1. CASE \E p \in lateDeletes : LateDelete(p)
    <3>1. PICK p \in lateDeletes : LateDelete(p)
      BY <2>1
    <3>2. QED
      BY <3>1 DEF LateDelete, Erased, Hits, Hit, IndInv, TypeOK, EngineTypeOK
  <2>2. CASE \E u \in Users, s \in Shards : Remap(u, s)
    BY <2>2, HitsOfNothing DEF Remap
  <2>3. QED
    BY <1>5, <2>1, <2>2 DEF Environment
<1>6. CASE Crash \/ UNCHANGED vars
  BY <1>1, <1>6 DEF Crash, vars
<1>7. ASSUME NEW d \in Dids, Age(d) PROVE Hits
  BY <1>7, HitsOfNothing DEF Age
<1>8. QED
  BY <1>3, <1>4, <1>5, <1>6, <1>7 DEF Next

\* What a DELETE is for has been there.
LEMMA HitIsBorn ==
  ASSUME IndInv, LateDeletes, NEW d \in Dids, Hit(d)
  PROVE  engine[d] # "unborn"
<1>1. ASSUME NEW r \in Requests, At(r, "remove"), old[r] = d PROVE engine[d] # "unborn"
  BY <1>1 DEF IndInv, OldIds, At, Removing, InTransaction
<1>2. ASSUME NEW r \in Requests, At(r, "compensate"), req[r].new = d PROVE engine[d] # "unborn"
  BY <1>2, NoneAssumption DEF IndInv, NewIds, At, Created
<1>3. ASSUME NEW p \in lateDeletes, p[2] = d PROVE engine[d] # "unborn"
  BY <1>3 DEF LateDeletes
<1>4. ASSUME NEW p \in tool.pids, p[2] = d PROVE engine[d] # "unborn"
  BY <1>4 DEF IndInv, Scan
<1>5. QED
  BY <1>1, <1>2, <1>3, <1>4 DEF Hit

\* Nobody takes away what a request has not saved yet.
LEMMA UnsavedIsSafe ==
  ASSUME IndInv, LateDeletes, NEW r \in Requests, Unsaved(r), req[r].new # None
  PROVE  ~Hit(req[r].new)
<1>1. ASSUME NEW q \in Requests, At(q, "remove"), old[q] = req[r].new PROVE FALSE
  BY <1>1 DEF IndInv, OldIds, At, Removing, InTransaction
<1>2. ASSUME NEW q \in Requests, At(q, "compensate"), req[q].new = req[r].new PROVE FALSE
  BY <1>2 DEF IndInv, NewIds, At, Unsaved
<1>3. ASSUME NEW p \in lateDeletes, p[2] = req[r].new PROVE FALSE
  BY <1>3 DEF LateDeletes
<1>4. ASSUME NEW p \in tool.pids, p[2] = req[r].new PROVE FALSE
  BY <1>4 DEF IndInv, Scan, InHands
<1>5. QED
  BY <1>1, <1>2, <1>3, <1>4 DEF Hit

(***************************************************************************)
(* What becomes of the requests in a step.                                 *)
(***************************************************************************)
Kept(q) ==
  /\ req'[q] = req[q] /\ pc'[q] = pc[q] /\ old'[q] = old[q] /\ todo'[q] = todo[q]
  /\ defs'[q] = defs[q] /\ locked'[q] = locked[q]

\* A request that is answered or lost.
Forgotten(q) ==
  /\ req'[q] = NoRequest /\ pc'[q] = "idle" /\ old'[q] = None
  /\ At(q, "ok") \/ At(q, "error") \/ May("crash")

\* A step of a handler that goes on.
Works(r) == Handle(r) /\ ~Answer(r) /\ UNCHANGED <<req, tool>>

LEMMA WorkKeepsRequests ==
  ASSUME NEW r \in Requests, Handle(r), ~Answer(r)
  PROVE  UNCHANGED req
BY DEF Handle, CheckExisting, Lookup, DeleteIncidentsAndIoVariables, Begin, DeleteNextRow,
   NextStatement, EndOfStatements, StatementFails, Abort, RemoveOld, CommitRemoval,
   RollbackRemoval, Create, CreatePlaceholder, FindDefinitions, SetHandler, Save, Compensate

LEMMA OthersAreKept ==
  ASSUME IndInv, NEW r \in Requests, RequestStep(r), NEW q \in Requests \ {r}
  PROVE  Kept(q)
<1> USE DEF IndInv, TypeOK, ControllerTypeOK
<1>1. CASE Handle(r)
  <2>1. pc'[q] = pc[q] /\ old'[q] = old[q] /\ todo'[q] = todo[q] /\ locked'[q] = locked[q]
    BY <1>1, MovesOfHandle DEF Moves
  <2>2. req'[q] = req[q]
    BY <1>1, WorkKeepsRequests DEF Answer
  <2>3. defs'[q] = defs[q]
    BY <1>1 DEF Handle, CheckExisting, Lookup, DeleteIncidentsAndIoVariables, Begin,
       DeleteNextRow, NextStatement, EndOfStatements, StatementFails, Abort, RemoveOld,
       CommitRemoval, RollbackRemoval, Create, CreatePlaceholder, FindDefinitions, SetHandler,
       HandlerDone, Save, Compensate, Answer, locals
  <2>4. QED
    BY <2>1, <2>2, <2>3 DEF Kept
<1>2. CASE Arrive(r)
  BY <1>2 DEF Arrive, StartDelete, StartDeploy, Goto, vidVars, locals, Kept
<1>3. CASE DeadlockVictim(r)
  BY <1>3 DEF DeadlockVictim, Abort, Rollback, Goto, VidTypeOK, Kept
<1>4. QED
  BY <1>1, <1>2, <1>3 DEF RequestStep

\* What a step does to one request.
Fate(q) == Kept(q) \/ Forgotten(q) \/ Works(q) \/ Arrive(q) \/ DeadlockVictim(q)

LEMMA FateInStep ==
  ASSUME IndInv, [Next]_vars, NEW q \in Requests
  PROVE  Fate(q)
<1>1. ASSUME UNCHANGED <<vidVars, controllerVars>> PROVE Kept(q)
  BY <1>1 DEF vidVars, controllerVars, Kept
<1>2. ASSUME NEW r \in Requests, RequestStep(r) PROVE Fate(q)
  <2>1. CASE q # r
    BY <1>2, <2>1, OthersAreKept DEF Fate
  <2>2. CASE q = r /\ Handle(r) /\ ~Answer(r)
    BY <1>2, <2>2, WorkKeepsRequests DEF RequestStep, Fate, Works
  <2>3. CASE q = r /\ Answer(r)
    BY <2>3 DEF Answer, Goto, Fate, Forgotten, IndInv, TypeOK, ControllerTypeOK
  <2>4. QED
    BY <1>2, <2>1, <2>2, <2>3 DEF RequestStep, Fate
<1>3. CASE Crash
  BY <1>3 DEF Crash, Fate, Forgotten
<1>4. CASE \/ ToolStep /\ UNCHANGED controllerVars
           \/ \E d \in Dids : Age(d)
           \/ Environment
           \/ UNCHANGED vars
  BY <1>1, <1>4 DEF ToolStep, ReadRelations, ListShard, RemovePid, Stop, Age, Environment, vars,
     Fate
<1>5. QED
  BY <1>2, <1>3, <1>4 DEF Next

\* Ids of requests that have not saved yet do not come back.
LEMMA UnsavedInStep ==
  ASSUME IndInv, [Next]_vars, NEW q \in Requests, Unsaved(q)', req'[q].new # None
  PROVE  \/ Unsaved(q) /\ req'[q].new = req[q].new
         \/ req'[q].new \in Dids /\ engine[req'[q].new] = "unborn"
<1> USE DEF Unsaved
<1>1. CASE Kept(q)
  BY <1>1 DEF Kept
<1>2. CASE Forgotten(q)
  BY <1>2 DEF Forgotten, NoRequest
<1>3. CASE Works(q)
  BY <1>3, MovesOfHandle DEF Works, Moves, IndInv
<1>4. CASE Arrive(q)
  BY <1>4 DEF Arrive, StartDelete, StartDeploy, Fresh, IndInv, TypeOK, ControllerTypeOK
<1>5. CASE DeadlockVictim(q)
  BY <1>5 DEF DeadlockVictim, Abort, Goto, IndInv, TypeOK, ControllerTypeOK
<1>6. QED
  BY <1>1, <1>2, <1>3, <1>4, <1>5, FateInStep DEF Fate

\* Only DeployProcess makes a deployment, on the shard of its user.
LEMMA Births ==
  ASSUME IndInv, [Next]_vars, NEW d \in Dids, engine[d] = "unborn", engine'[d] # "unborn"
  PROVE  \E r \in Requests :
           /\ Create(r) \/ CreatePlaceholder(r)
           /\ req[r].new = d /\ req[r].user \in Users /\ engine'[d] = shardOf[req[r].user]
<1> DEFINE Goal == \E r \in Requests :
      /\ Create(r) \/ CreatePlaceholder(r)
      /\ req[r].new = d /\ req[r].user \in Users /\ engine'[d] = shardOf[req[r].user]
<1>1. engine' # engine /\ ~UNCHANGED engineVars
  BY DEF engineVars
<1>2. ASSUME NEW s \in Shards, NEW e, engine' = Erased(s, e) PROVE FALSE
  BY <1>2, StatesAreNotShards DEF Erased, IndInv, TypeOK, EngineTypeOK
<1>3. ASSUME NEW r \in Requests, Handle(r) PROVE Goal
  <2>1. CASE Create(r) \/ CreatePlaceholder(r)
    <3>1. CreateDeployment(req[r].user, req[r].new)
      BY <1>1, <2>1 DEF Create, CreatePlaceholder, CreateFails
    <3>2. req[r].user \in Users
      BY <2>1 DEF Create, CreatePlaceholder, At, IndInv, TypeOK, ControllerTypeOK
    <3>3. req[r].new = d /\ engine'[d] = shardOf[req[r].user]
      BY <3>1 DEF CreateDeployment, IndInv, TypeOK, EngineTypeOK
    <3>4. QED
      BY <2>1, <3>2, <3>3
  <2>2. CASE RemoveOld(r) \/ Compensate(r)
    <3>1. req[r].user \in Users
      BY <2>2 DEF RemoveOld, Compensate, At, IndInv, TypeOK, ControllerTypeOK
    <3>2. shardOf[req[r].user] \in Shards
      BY <3>1 DEF IndInv, TypeOK, EngineTypeOK
    <3>3. QED
      BY <1>1, <1>2, <2>2, <3>2 DEF RemoveOld, Compensate, RemoveProcess, RemoveProcessFails
  <2>3. QED
    BY <1>1, <1>3, <2>1, <2>2 DEF Handle, CheckExisting, Lookup,
       DeleteIncidentsAndIoVariables, Begin, DeleteNextRow, NextStatement, EndOfStatements,
       StatementFails, Abort, CommitRemoval, RollbackRemoval, FindDefinitions, SetHandler,
       Save, Answer
<1>4. ASSUME NEW r \in Requests, RequestStep(r) PROVE Goal
  BY <1>1, <1>3, <1>4 DEF RequestStep, Arrive, StartDelete, StartDeploy, DeadlockVictim, Abort
<1>5. CASE ToolStep
  <2>1. PICK p \in tool.pids : engine' = Erased(p[1], p[2])
    BY <1>1, <1>5 DEF ToolStep, ReadRelations, ListShard, RemovePid, Stop
  <2>2. p[1] \in Shards
    BY DEF IndInv, TypeOK, CleanupTypeOK, Tool
  <2>3. QED
    BY <1>2, <2>1, <2>2
<1>6. CASE Environment
  <2>1. PICK p \in lateDeletes : engine' = Erased(p[1], p[2])
    BY <1>1, <1>6 DEF Environment, LateDelete, Remap
  <2>2. p[1] \in Shards
    BY DEF IndInv, TypeOK, EngineTypeOK
  <2>3. QED
    BY <1>2, <2>1, <2>2
<1>7. CASE Crash \/ (\E e \in Dids : Age(e)) \/ UNCHANGED vars
  BY <1>1, <1>7 DEF Crash, Age, vars
<1>8. QED
  BY <1>4, <1>5, <1>6, <1>7 DEF Next

\* Only handlers set handlers, and none is ever taken back; without remap,
\* users stay on their shards.
LEMMA HandlersGrow ==
  ASSUME [Next]_vars
  PROVE  handlers \subseteq handlers'
<1>1. ASSUME NEW r \in Requests, RequestStep(r) PROVE handlers \subseteq handlers'
  <2>1. CASE SetHandler(r)
    BY <2>1 DEF SetHandler
  <2>2. QED
    BY <1>1, <2>1 DEF RequestStep, Handle, CheckExisting, Lookup,
       DeleteIncidentsAndIoVariables, Begin, DeleteNextRow, NextStatement, EndOfStatements,
       StatementFails, Abort, RemoveOld, CommitRemoval, RollbackRemoval, Create,
       CreatePlaceholder, FindDefinitions, Save, Compensate, Answer, Arrive, StartDelete,
       StartDeploy, DeadlockVictim
<1>2. QED
  BY <1>1 DEF Next, Crash, Age, Environment, vars, controllerVars

LEMMA UsersStay ==
  ASSUME ~May("remap"), [Next]_vars
  PROVE  shardOf' = shardOf
<1>1. ASSUME UNCHANGED engineVars PROVE shardOf' = shardOf
  BY <1>1 DEF engineVars
<1>2. ASSUME NEW r \in Requests, RequestStep(r) PROVE shardOf' = shardOf
  <2>1. CASE RemoveOld(r) \/ Compensate(r) \/ Create(r) \/ CreatePlaceholder(r)
    BY <1>1, <2>1 DEF RemoveOld, Compensate, Create, CreatePlaceholder, CreateFails,
       CreateDeployment, RemoveProcess, RemoveProcessFails
  <2>2. QED
    BY <1>1, <1>2, <2>1 DEF RequestStep, Handle, CheckExisting, Lookup,
       DeleteIncidentsAndIoVariables, Begin, DeleteNextRow, NextStatement, EndOfStatements,
       StatementFails, Abort, CommitRemoval, RollbackRemoval, FindDefinitions, SetHandler,
       Save, Answer, Arrive, StartDelete, StartDeploy, DeadlockVictim
<1>3. QED
  BY <1>1, <1>2 DEF Next, Crash, Age, Environment, LateDelete, ToolStep, ReadRelations,
     ListShard, RemovePid, Stop, vars

\* The table changes by the COMMIT of a removal and by the INSERT only.
LEMMA RowsInStep ==
  ASSUME [Next]_vars, NEW x
  PROVE  /\ x \in rows \ rows' => \E r \in Requests : CommitRemoval(r) /\ x \in locked[r]
         /\ x \in rows' \ rows => \E r \in Requests : Save(r) /\ x = OwnRow(r)
<1> DEFINE Goal == 
      /\ x \in rows \ rows' => \E r \in Requests : CommitRemoval(r) /\ x \in locked[r]
      /\ x \in rows' \ rows => \E r \in Requests : Save(r) /\ x = OwnRow(r)
<1>1. ASSUME UNCHANGED rows PROVE Goal
  BY <1>1
<1>2. ASSUME NEW r \in Requests, RequestStep(r) PROVE Goal
  <2>1. CASE Save(r)
    BY <1>1, <2>1 DEF Save, SaveVidRelation, OwnRow, vidVars
  <2>2. CASE CommitRemoval(r)
    BY <1>1, <2>2 DEF CommitRemoval, Commit, Rollback
  <2>3. UNCHANGED rows \/ Save(r) \/ CommitRemoval(r)
    BY <1>2 DEF RequestStep, Handle, CheckExisting, Lookup, DeleteIncidentsAndIoVariables,
       Begin, DeleteNextRow, DeleteRow, NextStatement, EndOfStatements, StatementFails, Abort,
       Rollback, RemoveOld, RollbackRemoval, Create, CreatePlaceholder, FindDefinitions,
       SetHandler, Compensate, Answer, Arrive, StartDelete, StartDeploy, DeadlockVictim, vidVars
  <2>4. QED
    BY <1>1, <2>1, <2>2, <2>3
<1>3. CASE \/ Crash \/ ToolStep \/ Environment \/ UNCHANGED vars
           \/ \E d \in Dids : Age(d)
  BY <1>1, <1>3 DEF Crash, RollbackAll, ToolStep, ReadRelations, ListShard, RemovePid, Stop,
     Environment, Age, vars, vidVars
<1>4. QED
  BY <1>2, <1>3 DEF Next

(***************************************************************************)
(* What a request that deploys can rely on.                                *)
(***************************************************************************)
LEMMA LateDeletesStep ==
  ASSUME WorkInv, [Next]_vars
  PROVE  LateDeletes'
<1>1. IndInv /\ LateDeletes
  BY DEF WorkInv
<1>2. SUFFICES ASSUME NEW p \in lateDeletes'
              PROVE  /\ engine'[p[2]] # "unborn"
                     /\ \A r \in Requests : Unsaved(r)' => req'[r].new # p[2]
  BY DEF LateDeletes
<1>3. Hit(p[2])
  BY <1>1, HitsInStep DEF Hits
<1>4. p[2] \in Dids /\ None \notin Dids
  BY <1>1, TypeStep, NoneAssumption DEF IndInv, TypeOK, EngineTypeOK
<1>5. engine[p[2]] # "unborn"
  BY <1>1, <1>3, <1>4, HitIsBorn
<1>6. engine'[p[2]] # "unborn"
  BY <1>1, <1>4, <1>5, LivesInStep, StatesAreNotShards DEF Lives
<1>7. ASSUME NEW r \in Requests, Unsaved(r)', req'[r].new = p[2] PROVE FALSE
  <2>1. req'[r].new # None
    BY <1>4, <1>7
  <2>2. Unsaved(r) /\ req'[r].new = req[r].new
    BY <1>1, <1>5, <1>7, <2>1, UnsavedInStep
  <2>3. QED
    BY <1>1, <1>3, <1>7, <2>1, <2>2, UnsavedIsSafe
<1>8. QED
  BY <1>6, <1>7

\* The work of the request itself.
LEMMA OwnNewDeployment ==
  ASSUME WorkInv, NEW r \in Requests, Works(r), ~May("remap") => shardOf' = shardOf
  PROVE  NewDeployment(r)'
<1> USE DEF WorkInv, IndInv, TypeOK, ControllerTypeOK, Works, Goto, At
<1>1. req' = req /\ NewDeployment(r)
  BY DEF NewDeployments
<1>2. ASSUME Create(r) \/ CreatePlaceholder(r) PROVE NewDeployment(r)'
  <2>1. /\ req[r].user \in Users /\ req[r].new \in Dids
        /\ shardOf[req[r].user] \in Shards
    BY <1>2 DEF Create, CreatePlaceholder, Deploying, EngineTypeOK
  <2>2. CASE CreateDeployment(req[r].user, req[r].new) /\ pc'[r] = Deployed(r)
    <3>1. engine'[req[r].new] = shardOf[req[r].user] /\ shardOf' = shardOf
      BY <2>1, <2>2 DEF CreateDeployment, EngineTypeOK
    <3>2. /\ pc'[r] # "handlers"
          /\ pc'[r] = "save" => ~req[r].incident
      BY <2>2 DEF Deployed
    <3>3. QED
      BY <1>1, <2>1, <3>1, <3>2 DEF NewDeployment, Running
  <2>3. CASE pc'[r] \in {"placeholder", "error"}
    BY <2>3 DEF NewDeployment
  <2>4. QED
    BY <1>2, <2>2, <2>3 DEF Create, CreatePlaceholder, CreateFails
<1>3. CASE FindDefinitions(r)
  <2>1. engine' = engine /\ shardOf' = shardOf /\ handlers' = handlers /\ pc[r] = "definitions"
    BY <1>3 DEF FindDefinitions, engineVars
  <2>2. CASE pc'[r] = "compensate"
    BY <2>2 DEF NewDeployment
  <2>3. CASE /\ defs'[r] = DefinitionsOf(req[r].user, req[r].new)
             /\ pc'[r] = IF defs'[r] = {} THEN "save" ELSE "handlers"
    <3>1. ~May("remap") => defs'[r] = Defs
      BY <1>1, <2>1, <2>3 DEF NewDeployment, DefinitionsOf
    <3>2. Running(req[r].new)' /\ pc'[r] \in {"save", "handlers"}
      BY <1>1, <2>1, <2>3 DEF NewDeployment, Running
    <3>3. QED
      BY <1>1, <2>3, <3>1, <3>2 DEF NewDeployment
  <2>4. QED
    BY <1>3, <2>2, <2>3 DEF FindDefinitions
<1>4. CASE SetHandler(r)
  <2>1. engine' = engine /\ shardOf' = shardOf /\ pc[r] = "handlers"
    BY <1>4 DEF SetHandler, engineVars
  <2>2. CASE pc'[r] = "compensate"
    BY <2>2 DEF NewDeployment
  <2>3. ASSUME NEW k \in defs[r], handlers' = handlers \cup {<<req[r].new, k>>},
               HandlerDone(r, k)
        PROVE  NewDeployment(r)'
    <3>1. defs'[r] = defs[r] \ {k} /\ pc'[r] = IF defs'[r] = {} THEN "save" ELSE "handlers"
      BY <1>4, <2>3 DEF HandlerDone
    <3>2. Running(req[r].new)' /\ pc'[r] \in {"save", "handlers"}
      BY <1>1, <2>1, <3>1 DEF NewDeployment, Running
    <3>3. ASSUME ~May("remap") PROVE {req[r].new} \X (Defs \ defs'[r]) \subseteq handlers'
      <4>1. {req[r].new} \X (Defs \ defs[r]) \subseteq handlers
        BY <1>1, <2>1, <3>3 DEF NewDeployment
      <4>2. QED
        BY <2>3, <3>1, <4>1
    <3>4. QED
      BY <1>1, <3>1, <3>2, <3>3 DEF NewDeployment
  <2>4. QED
    BY <1>4, <2>2, <2>3 DEF SetHandler
<1>5. CASE pc'[r] \notin {"definitions", "handlers", "save"}
  BY <1>5 DEF NewDeployment
<1>6. QED
  BY <1>2, <1>3, <1>4, <1>5 DEF Handle, CheckExisting, Lookup, Returned,
     DeleteIncidentsAndIoVariables, Begin, DeleteNextRow, InStatement, NextStatement,
     EndOfStatements, StatementFails, Abort, RemoveOld, CommitRemoval, RollbackRemoval, Save,
     Compensate

LEMMA NewDeploymentsStep ==
  ASSUME WorkInv, [Next]_vars
  PROVE  NewDeployments'
<1>1. IndInv /\ LateDeletes /\ NewDeployments
  BY DEF WorkInv
<1>2. SUFFICES ASSUME NEW r \in Requests PROVE NewDeployment(r)'
  BY DEF NewDeployments
<1>3. NewDeployment(r)
  BY <1>1 DEF NewDeployments
<1>4. CASE Kept(r)
  <2>1. ASSUME pc[r] \in {"definitions", "handlers", "save"}
        PROVE  engine'[req[r].new] = engine[req[r].new]
    <3>1. Unsaved(r) /\ Created(r)
      BY <2>1 DEF Unsaved, Created
    <3>2. req[r].new \in Dids /\ req[r].new # None
      BY <1>1, <2>1, NoneAssumption DEF IndInv, TypeOK, ControllerTypeOK, Deploying
    <3>3. engine[req[r].new] # "unborn"
      BY <1>1, <3>1, <3>2 DEF IndInv, NewIds
    <3>4. QED
      BY <1>1, <3>1, <3>2, <3>3, UnsavedIsSafe, HitsInStep DEF Hits
  <2>2. handlers \subseteq handlers' /\ (~May("remap") => shardOf' = shardOf)
    BY HandlersGrow, UsersStay
  <2>3. QED
    BY <1>3, <1>4, <2>1, <2>2 DEF NewDeployment, Kept, At, Running
<1>5. CASE Works(r)
  BY <1>5, OwnNewDeployment, UsersStay
<1>6. CASE pc'[r] \notin {"definitions", "handlers", "save"}
  BY <1>6 DEF NewDeployment, At
<1>7. QED
  BY <1>1, <1>4, <1>5, <1>6, FateInStep DEF Fate, Forgotten, Arrive, StartDelete, StartDeploy,
     DeadlockVictim, Abort, Goto, IndInv, TypeOK, ControllerTypeOK

LEMMA PlacedStep ==
  ASSUME WorkInv, [Next]_vars
  PROVE  Placed'
<1>1. IndInv /\ Placed
  BY DEF WorkInv
<1>2. SUFFICES ASSUME Together, NEW d \in Dids, NEW u \in Users, Running(d)'
              PROVE  engine'[d] = shardOf'[u]
  BY DEF Placed, Together
<1>3. shardOf' = shardOf /\ shardOf \in [Users -> Shards]
  BY <1>1, <1>2, UsersStay DEF Together, IndInv, TypeOK, EngineTypeOK
<1>4. engine'[d] \in Shards
  BY <1>2 DEF Running
<1>5. CASE engine[d] = "unborn"
  <2>1. PICK w \in Users : engine'[d] = shardOf[w]
    BY <1>1, <1>4, <1>5, Births, StatesAreNotShards
  <2>2. QED
    BY <1>2, <1>3, <2>1 DEF Together
<1>6. CASE engine[d] # "unborn"
  BY <1>1, <1>2, <1>3, <1>4, <1>6, LivesInStep, StatesAreNotShards DEF Lives, Placed, Running
<1>7. QED
  BY <1>5, <1>6

LEMMA OwnRelationsStep ==
  ASSUME WorkInv, [Next]_vars
  PROVE  OwnRelations'
<1>1. IndInv /\ OwnRelations
  BY DEF WorkInv
<1>2. SUFFICES ASSUME NEW x \in rows', NEW q \in Requests, req'[q].new = x.did
              PROVE  x.vid = req'[q].vid
  BY DEF OwnRelations
<1>3. CASE x \in rows
  <2>1. x.did \in Dids /\ x.did # None /\ engine[x.did] # "unborn"
    BY <1>1, <1>3, NoneAssumption DEF IndInv, Relations, TypeOK, VidTypeOK, Row
  <2>2. req'[q] = req[q]
    BY <1>1, <1>2, <2>1, FateInStep DEF Fate, Kept, Works, Forgotten, NoRequest, Arrive,
       StartDelete, StartDeploy, Fresh, DeadlockVictim, Abort, IndInv, TypeOK, ControllerTypeOK
  <2>3. QED
    BY <1>1, <1>2, <1>3, <2>2 DEF OwnRelations
<1>4. CASE x \notin rows
  <2>1. PICK r \in Requests : Save(r) /\ x = OwnRow(r)
    BY <1>2, <1>4, RowsInStep
  <2>2. req' = req /\ x.did = req[r].new /\ x.vid = req[r].vid /\ req[r].new # None
    BY <1>1, <2>1, NoneAssumption DEF Save, OwnRow, At, Deploying, IndInv, TypeOK,
       ControllerTypeOK
  <2>3. q = r
    BY <1>1, <1>2, <2>2 DEF IndInv, NewIds
  <2>4. QED
    BY <2>2, <2>3
<1>5. QED
  BY <1>3, <1>4

LEMMA WorkInit ==
  ASSUME Init PROVE WorkInv
<1>1. IndInv
  BY InvInit
<1>2. /\ lateDeletes = {} /\ engine = [d \in Dids |-> "unborn"] /\ rows = {}
      /\ pc = [r \in Requests |-> "idle"]
  BY DEF Init, VidInit, EngineInit, ControllerInit
<1>3. QED
  BY <1>1, <1>2, StatesAreNotShards DEF WorkInv, LateDeletes, NewDeployments, NewDeployment,
     OwnRelations, Placed, Running, At

LEMMA WorkStep ==
  ASSUME WorkInv, [Next]_vars PROVE WorkInv'
<1>1. IndInv'
  BY InvStep DEF WorkInv
<1>2. QED
  BY <1>1, LateDeletesStep, NewDeploymentsStep, OwnRelationsStep, PlacedStep DEF WorkInv

\* What requests rely on from the answer of the engine to the INSERT, whatever
\* else goes on: their deployment runs, and has the handlers set so far.
THEOREM WorkInvariance == Spec => []WorkInv
<1>1. Init => WorkInv
  BY WorkInit
<1>2. WorkInv /\ [Next]_vars => WorkInv'
  BY WorkStep
<1>3. QED
  BY <1>1, <1>2, PTL DEF Spec

\* The definitions a request found all have their handler when its relation is
\* saved, and as long as users are not moved it finds them all: no handler
\* another request sets or fails to set gets in the way.
THEOREM HandlersComeFirst ==
  ASSUME ~May("remap")
  PROVE  Spec => HandledBeforeLinked
<1>1. WorkInv =>
        \A x \in rows' \ rows, r \in Requests :
          At(r, "save") /\ req[r].new = x.did /\ req[r].incident =>
            {x.did} \X Defs \subseteq handlers
  BY DEF WorkInv, NewDeployments, NewDeployment
<1>2. QED
  BY <1>1, WorkInvariance, PTL DEF HandledBeforeLinked

(***************************************************************************)
(* Callers that keep to one request per vid.                               *)
(***************************************************************************)

LEMMA OneAtATimeStep ==
  ASSUME Serial, TypeOK, OneAtATime, [Next]_vars
  PROVE  OneAtATime'
<1>1. CASE UNCHANGED req
  BY <1>1 DEF OneAtATime
<1>2. ASSUME NEW r \in Requests, Arrive(r) PROVE OneAtATime'
  <2>1. PICK v \in Vids : MayStart(v) /\ \E n : req' = [req EXCEPT ![r] = n] /\ n.vid = v
    BY <1>2 DEF Arrive, StartDelete, StartDeploy
  <2>2. /\ \A q \in Requests : req[q].vid # v
        /\ req'[r].vid = v
        /\ \A q \in Requests \ {r} : req'[q] = req[q]
    BY <2>1 DEF MayStart, TypeOK, ControllerTypeOK
  <2>3. QED
    BY <2>2 DEF OneAtATime
<1>3. ASSUME NEW r \in Requests, Answer(r) PROVE OneAtATime'
  <2>1. /\ req'[r].vid = None
        /\ \A q \in Requests \ {r} : req'[q] = req[q]
    BY <1>3 DEF Answer, NoRequest, TypeOK, ControllerTypeOK
  <2>2. QED
    BY <2>1 DEF OneAtATime
<1>4. CASE Crash
  BY <1>4 DEF Crash, NoRequest, OneAtATime
<1>5. ASSUME NEW r \in Requests, RequestStep(r), ~Arrive(r), ~Answer(r) PROVE UNCHANGED req
  BY <1>5, WorkKeepsRequests DEF RequestStep, DeadlockVictim, Abort
<1>6. CASE \/ ToolStep /\ UNCHANGED controllerVars
           \/ Environment \/ UNCHANGED vars
           \/ \E d \in Dids : Age(d)
  BY <1>1, <1>6 DEF Environment, Age, vars, controllerVars
<1>7. QED
  BY <1>1, <1>2, <1>3, <1>4, <1>5, <1>6 DEF Next

\* Nobody else changes what is related to the vid of a request.
LEMMA OwnVid ==
  ASSUME IndInv, OneAtATime, [Next]_vars, NEW q \in Requests, Kept(q), req[q].vid # None
  PROVE  RowsOfVid(req[q].vid)' = RowsOfVid(req[q].vid)
<1>1. ASSUME NEW x \in rows \ rows', x.vid = req[q].vid PROVE FALSE
  <2>1. PICK r \in Requests : CommitRemoval(r) /\ x \in locked[r]
    BY RowsInStep
  <2>2. req[r].vid = x.vid
    BY <2>1 DEF IndInv, Transactions, OwnTransaction
  <2>3. r = q
    BY <1>1, <2>2 DEF OneAtATime
  <2>4. pc'[r] # pc[r]
    BY <2>1 DEF CommitRemoval, At, Goto, Returned, IndInv, TypeOK, ControllerTypeOK
  <2>5. QED
    BY <2>3, <2>4 DEF Kept
<1>2. ASSUME NEW x \in rows' \ rows, x.vid = req[q].vid PROVE FALSE
  <2>1. PICK r \in Requests : Save(r) /\ x = OwnRow(r)
    BY RowsInStep
  <2>2. r = q
    BY <1>2, <2>1 DEF OwnRow, OneAtATime
  <2>3. pc'[r] # pc[r]
    BY <2>1 DEF Save, At, Goto, IndInv, TypeOK, ControllerTypeOK
  <2>4. QED
    BY <2>2, <2>3 DEF Kept
<1>3. req'[q].vid = req[q].vid
  BY DEF Kept
<1>4. QED
  BY <1>1, <1>2, <1>3 DEF RowsOfVid

\* What a request removes is related to its own vid, so it is nobody else's.
LEMMA OldIsOwn ==
  ASSUME IndInv, OneAtATime, NEW r \in Requests, Alone(r), pc[r] \in Removing,
         NEW q \in Requests, [did |-> old[r], vid |-> req[q].vid] \in rows
  PROVE  q = r
<1>1. [did |-> old[r], vid |-> req[r].vid] \in rows
  BY DEF Alone, RowsOfVid
<1>2. req[r].vid = req[q].vid
  BY <1>1 DEF IndInv, Relations, OneVidPerDeployment
<1>3. req[r].vid # None
  BY NoneAssumption DEF IndInv, TypeOK, ControllerTypeOK, Removing, InTransaction
<1>4. QED
  BY <1>2, <1>3 DEF OneAtATime

\* Nobody takes away what has been promised to a caller, before the caller
\* knows of it.
LEMMA PromisedIsSafe ==
  ASSUME IndInv, OneAtATime, \A r \in Requests : Alone(r),
         NEW q \in Requests, At(q, "ok"), req[q].op = "deploy"
  PROVE  ~Hit(req[q].new)
<1>1. /\ req[q].new \in Dids /\ req[q].new # None
      /\ [did |-> req[q].new, vid |-> req[q].vid] \in rows
      /\ \A p \in lateDeletes : p[2] # req[q].new
  BY NoneAssumption DEF IndInv, TypeOK, ControllerTypeOK, Alone, RowsOfVid
<1>2. ASSUME NEW r \in Requests, At(r, "remove"), old[r] = req[q].new PROVE FALSE
  <2>1. pc[r] \in Removing /\ pc[q] \notin Removing
    BY <1>2 DEF At, Removing, InTransaction
  <2>2. QED
    BY <1>1, <1>2, <2>1, OldIsOwn
<1>3. ASSUME NEW r \in Requests, At(r, "compensate"), req[r].new = req[q].new PROVE FALSE
  BY <1>1, <1>3 DEF IndInv, NewIds, At
<1>4. ASSUME NEW p \in tool.pids, p[2] = req[q].new PROVE FALSE
  BY <1>4 DEF IndInv, Scan, InHands
<1>5. QED
  BY <1>1, <1>2, <1>3, <1>4 DEF Hit

(***************************************************************************)
(* The steps of a request, one by one.                                     *)
(***************************************************************************)
LEMMA AloneWhenLookingUp ==
  ASSUME IndInv, ~May("read"), OneDeploymentPerVid, NEW r \in Requests, Alone(r),
         UNCHANGED req, CheckExisting(r) \/ Lookup(r)
  PROVE  Alone(r)'
<1> USE DEF At, Goto, locals, vidVars, engineVars, IndInv, TypeOK, ControllerTypeOK
<1>1. rows' = rows /\ old[r] = None
  BY DEF CheckExisting, Lookup, Alone
<1>2. CASE CheckExisting(r)
  <2>1. CASE pc'[r] = "create"
    <3>1. ~VidExists(req[r].vid)
      BY <1>2, <2>1 DEF CheckExisting
    <3>2. RowsOfVid(req[r].vid)' = {}
      BY <1>1, <3>1 DEF VidExists, RowsOfVid
    <3>3. QED
      BY <2>1, <3>2 DEF Alone, Removed, Removing, InTransaction
  <2>2. CASE pc'[r] \in {"lookup", "error"}
    BY <1>1, <1>2, <2>2 DEF CheckExisting, Alone, Removed, Removing, InTransaction, Deploying
  <2>3. QED
    BY <1>2, <2>1, <2>2 DEF CheckExisting
<1>3. CASE Lookup(r)
  <2>1. CASE pc'[r] = "external"
    <3>1. old'[r] \in GetDeploymentId(req[r].vid)
      BY <1>3, <2>1 DEF Lookup, Returned
    <3>2. PICK x \in rows : x.vid = req[r].vid /\ x.did = old'[r]
      BY <3>1 DEF GetDeploymentId, RowsOfVid
    <3>3. x = [did |-> old'[r], vid |-> req[r].vid]
      BY <3>2 DEF VidTypeOK, Row
    <3>4. \A y \in rows : y.vid = req[r].vid => y = x
      BY <3>2 DEF OneDeploymentPerVid
    <3>5. RowsOfVid(req[r].vid)' = {x}
      BY <1>1, <3>2, <3>4 DEF RowsOfVid
    <3>6. QED
      BY <2>1, <3>3, <3>5 DEF Alone, Removed, Removing, InTransaction, Deploying
  <2>2. CASE pc'[r] = Returned(r) /\ old' = old
    <3>1. GetDeploymentId(req[r].vid) = {}
      BY <1>3, <2>2 DEF Lookup, Returned
    <3>2. RowsOfVid(req[r].vid) = {}
      BY <3>1 DEF GetDeploymentId
    <3>3. RowsOfVid(req[r].vid)' = {}
      BY <1>1, <3>2 DEF RowsOfVid
    <3>4. /\ pc'[r] \in {"create", "ok"}
          /\ pc'[r] = "ok" => req[r].op # "deploy"
      BY <2>2 DEF Returned
    <3>5. QED
      BY <1>1, <2>2, <3>3, <3>4 DEF Alone, Removed, Removing, InTransaction
  <2>3. CASE pc'[r] = "error"
    BY <2>3 DEF Alone, Removed, Removing, InTransaction, Deploying
  <2>4. QED
    BY <1>3, <2>1, <2>2, <2>3 DEF Lookup
<1>4. QED
  BY <1>2, <1>3

\* As long as it stays in the transaction before the removal, or fails.
LEMMA AloneWhenWaiting ==
  ASSUME NEW r \in Requests, Alone(r), req'[r] = req[r], rows' = rows, old'[r] = old[r],
         \/ pc[r] \in Removing /\ pc'[r] \in Removing \ {"commit"}
         \/ pc'[r] \in {"error", "compensate"}
         \/ /\ pc[r] \in {"create", "placeholder", "definitions", "handlers"}
            /\ pc'[r] \in {"placeholder", "definitions", "handlers", "save", "compensate"}
  PROVE  Alone(r)'
BY DEF Alone, At, Removed, Removing, InTransaction, Deploying, RowsOfVid

LEMMA AloneWhenRemoving ==
  ASSUME IndInv, Placed, NEW r \in Requests, Alone(r), UNCHANGED req, RemoveOld(r)
  PROVE  Alone(r)'
<1> USE DEF At, Goto, locals, vidVars, IndInv, TypeOK, ControllerTypeOK
<1>1. /\ rows' = rows /\ old' = old /\ pc[r] = "remove" /\ pc[r] \in Removing
  BY DEF RemoveOld, Removing, InTransaction
<1>2. CASE pc'[r] = "rollback"
  BY <1>1, <1>2, AloneWhenWaiting DEF Removing, InTransaction
<1>3. CASE pc'[r] = "commit" /\ RemoveProcess(req[r].user, old[r])
  <2>1. req[r].user \in Users /\ old[r] \in Dids /\ engine[old[r]] # "unborn"
    BY <1>1 DEF OldIds
  <2>2. RowsOfVid(req[r].vid)' = {[did |-> old'[r], vid |-> req'[r].vid]}
    BY <1>1 DEF Alone, RowsOfVid
  <2>3. ASSUME Together PROVE engine'[old[r]] = "gone"
    <3>1. engine[old[r]] \in Shards => engine[old[r]] = shardOf[req[r].user]
      BY <2>1, <2>3 DEF Placed, Running
    <3>2. engine[old[r]] \in Shards \cup {"gone"}
      BY <2>1 DEF EngineTypeOK
    <3>3. QED
      BY <1>3, <2>1, <3>1, <3>2 DEF RemoveProcess, Erased, EngineTypeOK
  <2>4. QED
    BY <1>1, <1>3, <2>2, <2>3 DEF Alone, Together, Removed, Removing, InTransaction, Deploying
<1>4. QED
  BY <1>2, <1>3 DEF RemoveOld

LEMMA AloneWhenCommitting ==
  ASSUME IndInv, NEW r \in Requests, Alone(r), UNCHANGED req, CommitRemoval(r)
  PROVE  Alone(r)'
<1> USE DEF At, Goto, locals, engineVars, IndInv, TypeOK, ControllerTypeOK
<1>1. engine' = engine /\ old' = old /\ pc[r] = "commit"
  BY DEF CommitRemoval
<1>2. CASE pc'[r] = "error"
  BY <1>2 DEF Alone, Removed, Removing, InTransaction, Deploying
<1>3. CASE pc'[r] = Returned(r) /\ Commit(r)
  <2>1. RowsOfVid(req[r].vid) = {[did |-> old[r], vid |-> req[r].vid]}
    BY <1>1 DEF Alone, Removing, InTransaction
  <2>2. \A x \in RowsOfVid(req[r].vid) : x \in RowsOfDid(old[r])
    BY <2>1 DEF RowsOfDid, RowsOfVid
  <2>3. RowsOfDid(old[r]) \subseteq locked[r]
    BY <1>1 DEF Transactions, OwnTransaction, InTransaction
  <2>4. RowsOfVid(req[r].vid)' = {}
    BY <1>3, <2>2, <2>3 DEF Commit, RowsOfVid
  <2>5. Together /\ old[r] # None => engine[old[r]] = "gone"
    BY <1>1 DEF Alone, Removed
  <2>6. /\ pc'[r] \in {"create", "ok"}
        /\ pc'[r] = "ok" => req[r].op # "deploy"
    BY <1>3 DEF Returned
  <2>7. QED
    BY <1>1, <2>4, <2>5, <2>6 DEF Alone, Together, Removed, Removing, InTransaction
<1>4. QED
  BY <1>2, <1>3 DEF CommitRemoval

LEMMA AloneWhenSaving ==
  ASSUME WorkInv, NEW r \in Requests, Alone(r), UNCHANGED req, Save(r)
  PROVE  Alone(r)'
<1> USE DEF At, Goto, locals, engineVars, WorkInv, IndInv, TypeOK, ControllerTypeOK
<1>1. engine' = engine /\ lateDeletes' = lateDeletes /\ old' = old /\ pc[r] = "save"
  BY DEF Save
<1>2. CASE pc'[r] = "compensate"
  BY <1>2 DEF Alone, Removed, Removing, InTransaction, Deploying
<1>3. CASE pc'[r] = "ok" /\ SaveVidRelation(req[r].vid, req[r].new)
  <2>1. RowsOfVid(req[r].vid) = {}
    BY <1>1 DEF Alone, Deploying
  <2>2. RowsOfVid(req[r].vid)' = {[did |-> req[r].new, vid |-> req[r].vid]}
    BY <1>3, <2>1 DEF SaveVidRelation, RowsOfVid
  <2>3. Running(req[r].new)'
    BY <1>1 DEF NewDeployments, NewDeployment, Running
  <2>4. \A p \in lateDeletes' : p[2] # req[r].new
    BY <1>1 DEF LateDeletes, Unsaved
  <2>5. req[r].op = "deploy"
    BY <1>1 DEF Deploying
  <2>6. QED
    BY <1>3, <2>2, <2>3, <2>4, <2>5 DEF Alone, Removed, Removing, InTransaction, Deploying
<1>4. QED
  BY <1>2, <1>3 DEF Save

LEMMA AloneWhenWorking ==
  ASSUME ~May("read"), WorkInv, OneDeploymentPerVid, NEW r \in Requests, Alone(r), Works(r)
  PROVE  Alone(r)'
<1> USE DEF At, Goto, locals, vidVars, Works
<1>1. IndInv /\ Placed /\ pc \in [Requests -> Control]
  BY DEF WorkInv, IndInv, TypeOK, ControllerTypeOK
<1>2. CASE CheckExisting(r) \/ Lookup(r)
  BY <1>1, <1>2, AloneWhenLookingUp
<1>3. CASE \/ DeleteIncidentsAndIoVariables(r) \/ Begin(r) \/ NextStatement(r)
           \/ EndOfStatements(r)
  <2>1. /\ pc[r] \in Removing /\ pc'[r] \in (Removing \ {"commit"}) \cup {"error"}
        /\ old' = old /\ rows' = rows
    BY <1>1, <1>3 DEF DeleteIncidentsAndIoVariables, Begin, NextStatement, EndOfStatements,
       Removing, InTransaction
  <2>2. QED
    BY <2>1, AloneWhenWaiting
<1>4. CASE DeleteNextRow(r)
  <2>1. /\ pc[r] \in Removing /\ pc'[r] \in Removing \ {"commit"}
        /\ old' = old /\ rows' = rows
    BY <1>4 DEF DeleteNextRow, DeleteRow, InStatement, Removing, InTransaction
  <2>2. QED
    BY <2>1, AloneWhenWaiting
<1>5. CASE StatementFails(r) \/ RollbackRemoval(r)
  <2>1. pc'[r] = "error" /\ old' = old /\ rows' = rows
    BY <1>1, <1>5 DEF StatementFails, Abort, RollbackRemoval, Rollback
  <2>2. QED
    BY <2>1, AloneWhenWaiting
<1>6. CASE RemoveOld(r)
  BY <1>1, <1>6, AloneWhenRemoving
<1>7. CASE CommitRemoval(r)
  BY <1>1, <1>7, AloneWhenCommitting
<1>8. CASE Create(r) \/ CreatePlaceholder(r) \/ FindDefinitions(r) \/ SetHandler(r)
  <2>1. /\ pc[r] \in {"create", "placeholder", "definitions", "handlers"}
        /\ pc'[r] \in {"placeholder", "definitions", "handlers", "save", "compensate", "error"}
        /\ old' = old /\ rows' = rows
    BY <1>1, <1>8 DEF Create, CreatePlaceholder, CreateFails, Deployed, FindDefinitions,
       SetHandler, HandlerDone
  <2>2. QED
    BY <2>1, AloneWhenWaiting
<1>9. CASE Save(r)
  BY <1>9, AloneWhenSaving
<1>10. CASE Compensate(r)
  <2>1. pc'[r] = "error" /\ old' = old /\ rows' = rows
    BY <1>1, <1>10 DEF Compensate
  <2>2. QED
    BY <2>1, AloneWhenWaiting
<1>11. QED
  BY <1>2, <1>3, <1>4, <1>5, <1>6, <1>7, <1>8, <1>9, <1>10 DEF Handle

LEMMA AloneWhenKept ==
  ASSUME IndInv, OneAtATime, \A r \in Requests : Alone(r), [Next]_vars,
         NEW q \in Requests, Kept(q)
  PROVE  Alone(q)'
<1>1. Alone(q) /\ req'[q] = req[q] /\ pc'[q] = pc[q] /\ old'[q] = old[q]
  BY DEF Kept
<1>2. pc[q] # "idle" => RowsOfVid(req[q].vid)' = RowsOfVid(req[q].vid)
  <2>1. pc[q] # "idle" => req[q].vid # None
    BY NoneAssumption DEF IndInv, TypeOK, ControllerTypeOK
  <2>2. QED
    BY <1>1, <2>1, OwnVid
<1>3. ASSUME At(q, "ok"), req[q].op = "deploy"
      PROVE  engine'[req[q].new] \in Shards /\ \A p \in lateDeletes' : p[2] # req[q].new
  <2>1. ~Hit(req[q].new) /\ Hits
    BY <1>3, PromisedIsSafe, HitsInStep
  <2>2. req[q].new \in Dids /\ engine[req[q].new] \in Shards
    BY <1>1, <1>3 DEF Alone, Running, IndInv, TypeOK, ControllerTypeOK
  <2>3. engine'[req[q].new] = engine[req[q].new]
    BY <2>1, <2>2, StatesAreNotShards DEF Hits
  <2>4. QED
    BY <2>1, <2>2, <2>3 DEF Hits
<1>4. ASSUME Together, Removed(q) PROVE engine'[old[q]] = "gone"
  <2>1. engine[old[q]] = "gone" /\ old[q] \in Dids
    BY <1>1, <1>4 DEF Alone, Removed, IndInv, TypeOK, ControllerTypeOK
  <2>2. QED
    BY <2>1, LivesInStep DEF Lives
<1>5. ASSUME pc[q] \in Removing PROVE Alone(q)'
  BY <1>1, <1>2, <1>4, <1>5 DEF Alone, At, Removed, Together, Removing, InTransaction, Deploying
<1>6. ASSUME pc[q] \in Deploying PROVE Alone(q)'
  BY <1>1, <1>2, <1>6 DEF Alone, At, Removed, Removing, InTransaction, Deploying
<1>7. CASE At(q, "ok")
  BY <1>1, <1>2, <1>3, <1>4, <1>7 DEF Alone, At, Removed, Together, Running, Removing,
     InTransaction, Deploying
<1>8. CASE pc[q] \in {"idle", "lookup", "error"}
  BY <1>1, <1>8 DEF Alone, At, Removed, Removing, InTransaction, Deploying
<1>9. QED
  BY <1>5, <1>6, <1>7, <1>8 DEF Control, At, IndInv, TypeOK, ControllerTypeOK

LEMMA AloneStep ==
  ASSUME ~May("read"), WorkInv, OneAtATime, OneDeploymentPerVid, \A r \in Requests : Alone(r),
         [Next]_vars, NEW q \in Requests
  PROVE  Alone(q)'
<1>1. IndInv /\ Alone(q) /\ Fate(q)
  BY FateInStep DEF WorkInv
<1>2. CASE Kept(q)
  BY <1>1, <1>2, AloneWhenKept
<1>3. CASE Works(q)
  BY <1>1, <1>3, AloneWhenWorking
<1>4. CASE Forgotten(q)
  BY <1>4 DEF Forgotten, Alone, At, Removed, Removing, InTransaction, Deploying
<1>5. CASE Arrive(q)
  <2>1. pc[q] = "idle" /\ pc'[q] \in {"exists", "lookup", "error"} /\ old' = old
    BY <1>1, <1>5 DEF Arrive, StartDelete, StartDeploy, At, Goto, locals, IndInv, TypeOK,
       ControllerTypeOK
  <2>2. QED
    BY <1>1, <2>1 DEF Alone, At, Removed, Removing, InTransaction, Deploying
<1>6. CASE DeadlockVictim(q)
  <2>1. pc'[q] = "error"
    BY <1>1, <1>6 DEF DeadlockVictim, Abort, Goto, IndInv, TypeOK, ControllerTypeOK
  <2>2. QED
    BY <2>1 DEF Alone, At, Removed, Removing, InTransaction, Deploying
<1>7. QED
  BY <1>1, <1>2, <1>3, <1>4, <1>5, <1>6 DEF Fate

LEMMA OneDeploymentPerVidStep ==
  ASSUME IndInv, OneAtATime, OneDeploymentPerVid, \A r \in Requests : Alone(r), [Next]_vars
  PROVE  OneDeploymentPerVid'
<1>1. SUFFICES ASSUME NEW x \in rows', NEW y \in rows', x.vid = y.vid PROVE x = y
  BY DEF OneDeploymentPerVid
<1>2. ASSUME NEW z \in rows', z \notin rows
      PROVE  \E r \in Requests : /\ z = OwnRow(r) /\ z.vid = req[r].vid /\ req[r].vid # None
                                 /\ \A w \in rows : w.vid # req[r].vid
  <2>1. PICK r \in Requests : Save(r) /\ z = OwnRow(r)
    BY <1>2, RowsInStep
  <2>2. RowsOfVid(req[r].vid) = {}
    BY <2>1 DEF Save, Alone, At, Deploying
  <2>3. req[r].vid # None
    BY <2>1, NoneAssumption DEF Save, At, IndInv, TypeOK, ControllerTypeOK
  <2>4. QED
    BY <2>1, <2>2, <2>3 DEF OwnRow, RowsOfVid
<1>3. CASE x \in rows /\ y \in rows
  BY <1>1, <1>3 DEF OneDeploymentPerVid
<1>4. CASE x \notin rows
  <2>1. PICK r \in Requests : /\ x = OwnRow(r) /\ x.vid = req[r].vid /\ req[r].vid # None
                              /\ \A w \in rows : w.vid # req[r].vid
    BY <1>2, <1>4
  <2>2. y \notin rows
    BY <1>1, <2>1
  <2>3. PICK q \in Requests : y = OwnRow(q) /\ y.vid = req[q].vid
    BY <1>2, <2>2
  <2>4. q = r
    BY <1>1, <2>1, <2>3 DEF OneAtATime
  <2>5. QED
    BY <2>1, <2>3, <2>4
<1>5. CASE y \notin rows
  <2>1. PICK r \in Requests : y.vid = req[r].vid /\ \A w \in rows : w.vid # req[r].vid
    BY <1>2, <1>5
  <2>2. x \notin rows
    BY <1>1, <2>1
  <2>3. QED
    BY <1>4, <2>2
<1>6. QED
  BY <1>3, <1>4, <1>5

LEMMA SerialInit ==
  ASSUME Init PROVE SerialInv
<1>1. /\ rows = {} /\ pc = [r \in Requests |-> "idle"] /\ old = [r \in Requests |-> None]
      /\ req = [r \in Requests |-> NoRequest]
  BY DEF Init, VidInit, ControllerInit
<1>2. QED
  BY <1>1, WorkInit DEF SerialInv, OneAtATime, OneDeploymentPerVid, Alone, At, NoRequest,
     Removed, Removing, InTransaction, Deploying

LEMMA SerialStep ==
  ASSUME SerialInv, [Next]_vars PROVE SerialInv'
<1>1. WorkInv /\ WorkInv'
  BY WorkStep DEF SerialInv
<1>2. ASSUME Serial, ~May("read")
      PROVE  OneAtATime' /\ OneDeploymentPerVid' /\ \A r \in Requests : Alone(r)'
  <2>1. IndInv /\ TypeOK
    BY <1>1 DEF WorkInv, IndInv
  <2>2. OneAtATime /\ OneDeploymentPerVid /\ \A r \in Requests : Alone(r)
    BY <1>2 DEF SerialInv
  <2>3. QED
    BY <1>1, <1>2, <2>1, <2>2, OneAtATimeStep, OneDeploymentPerVidStep, AloneStep
<1>3. QED
  BY <1>1, <1>2 DEF SerialInv

\* What each request knows of its vid, as long as no other request for the
\* vid is on its way: whatever fails, and whatever happens to other vids.
THEOREM SerialInvariance == Spec => []SerialInv
<1>1. Init => SerialInv
  BY SerialInit
<1>2. SerialInv /\ [Next]_vars => SerialInv'
  BY SerialStep
<1>3. QED
  BY <1>1, <1>2, PTL DEF Spec

\* An answer of 200 tells the truth to callers that keep to one request per
\* vid, whatever else fails in the wrapper, the engines and the database.
THEOREM AnswersAreTrue ==
  ASSUME Serial, ~May("read")
  PROVE  Spec => []OkIsTrue
<1>1. SerialInv => OkIsTrue
  <2>1. SUFFICES ASSUME SerialInv, NEW r \in Requests, At(r, "ok")
                PROVE  IF req[r].op = "deploy"
                       THEN RowsOfVid(req[r].vid) = {[did |-> req[r].new, vid |-> req[r].vid]}
                              /\ Running(req[r].new)
                       ELSE /\ RowsOfVid(req[r].vid) = {}
                            /\ Together /\ old[r] # None => ~Running(old[r])
    BY DEF OkIsTrue
  <2>2. Alone(r)
    BY <2>1 DEF SerialInv
  <2>3. QED
    BY <2>1, <2>2, StatesAreNotShards DEF Alone, Removed, Running
<1>2. QED
  BY <1>1, SerialInvariance, PTL

\* What the repository's test of a second PUT expects, for every caller that
\* waits for the answer to the first.
THEOREM VidsHaveOneDeployment ==
  ASSUME Serial, ~May("read")
  PROVE  Spec => []OneDeploymentPerVid
<1>1. SerialInv => OneDeploymentPerVid
  BY DEF SerialInv
<1>2. QED
  BY <1>1, SerialInvariance, PTL

(***************************************************************************)
(* Nothing is left behind as long as only the incident API fails.          *)
(***************************************************************************)

\* Whose work it is when a deployment goes.
Eraser(d) ==
  \/ \E r \in Requests : RemoveOld(r) /\ old[r] = d
  \/ \E r \in Requests : Compensate(r) /\ req[r].new = d
  \/ Environment /\ UNCHANGED rows /\ \E p \in lateDeletes : p[2] = d
  \/ RemovePid /\ UNCHANGED <<rows, req>> /\ \E p \in tool.pids : p[2] = d

LEMMA Erasures ==
  ASSUME IndInv, [Next]_vars, NEW d \in Dids, Running(d), engine'[d] = "gone"
  PROVE  Eraser(d)
<1>1. engine[d] \in Shards /\ engine'[d] # engine[d]
  BY StatesAreNotShards DEF Running
<1>2. engine' # engine
  BY <1>1
<1>3. ASSUME NEW s, NEW e, engine' = Erased(s, e) PROVE e = d
  BY <1>1, <1>3 DEF Erased, IndInv, TypeOK, EngineTypeOK
<1>4. ASSUME NEW r \in Requests, RemoveOld(r) \/ Compensate(r) PROVE Eraser(d)
  BY <1>2, <1>3, <1>4 DEF RemoveOld, Compensate, RemoveProcess, RemoveProcessFails, engineVars,
     Eraser
<1>5. ASSUME NEW r \in Requests, Create(r) \/ CreatePlaceholder(r) PROVE FALSE
  <2>1. Unsaved(r) /\ ~Created(r) /\ req[r].new \in Dids
    BY <1>5 DEF Create, CreatePlaceholder, At, Unsaved, Created, IndInv, TypeOK,
       ControllerTypeOK, Deploying
  <2>2. engine[req[r].new] = "unborn"
    BY <2>1, NoneAssumption DEF IndInv, NewIds
  <2>3. CreateDeployment(req[r].user, req[r].new)
    BY <1>2, <1>5 DEF Create, CreatePlaceholder, CreateFails, engineVars
  <2>4. QED
    BY <1>1, <2>2, <2>3, StatesAreNotShards DEF CreateDeployment, IndInv, TypeOK, EngineTypeOK
<1>6. ASSUME NEW r \in Requests, RequestStep(r) PROVE Eraser(d)
  BY <1>2, <1>4, <1>5, <1>6 DEF RequestStep, Handle, CheckExisting, Lookup,
     DeleteIncidentsAndIoVariables, Begin, DeleteNextRow, NextStatement, EndOfStatements,
     StatementFails, Abort, CommitRemoval, RollbackRemoval, FindDefinitions, SetHandler,
     Save, Answer, Arrive, StartDelete, StartDeploy, DeadlockVictim, engineVars
<1>7. CASE ToolStep /\ UNCHANGED controllerVars
  <2>1. RemovePid /\ UNCHANGED <<rows, req>>
    BY <1>2, <1>7 DEF ToolStep, ReadRelations, ListShard, RemovePid, Stop, engineVars, vidVars,
       controllerVars
  <2>2. PICK p \in tool.pids : engine' = Erased(p[1], p[2])
    BY <1>2, <2>1 DEF RemovePid
  <2>3. QED
    BY <1>3, <2>1, <2>2 DEF Eraser
<1>8. CASE Environment
  <2>1. PICK p \in lateDeletes : engine' = Erased(p[1], p[2])
    BY <1>2, <1>8 DEF Environment, LateDelete, Remap
  <2>2. UNCHANGED rows
    BY <1>8 DEF Environment, vidVars
  <2>3. QED
    BY <1>3, <1>8, <2>1, <2>2 DEF Eraser
<1>9. CASE Crash \/ (\E e \in Dids : Age(e)) \/ UNCHANGED vars
  BY <1>2, <1>9 DEF Crash, Age, vars, engineVars
<1>10. QED
  BY <1>6, <1>7, <1>8, <1>9 DEF Next

\* Nobody gets an id into his hands that has been used.
LEMMA HandsInStep ==
  ASSUME IndInv, [Next]_vars, NEW d \in Dids, engine[d] # "unborn", InHands(d)'
  PROVE  InHands(d)
<1>1. PICK q \in Requests : req'[q].new = d
  BY DEF InHands
<1>2. CASE req'[q] = req[q]
  BY <1>1, <1>2 DEF InHands
<1>3. CASE Forgotten(q)
  BY <1>1, <1>3, NoneAssumption DEF Forgotten, NoRequest
<1>4. CASE Arrive(q)
  <2>1. req'[q].new \in Fresh \cup {None}
    BY <1>4 DEF Arrive, StartDelete, StartDeploy, IndInv, TypeOK, ControllerTypeOK
  <2>2. QED
    BY <1>1, <2>1, NoneAssumption DEF Fresh
<1>5. QED
  BY <1>2, <1>3, <1>4, FateInStep DEF Fate, Kept, Works, DeadlockVictim, Abort

\* Nor does an id get a relation that no request works on.
LEMMA RelatedInStep ==
  ASSUME [Next]_vars, NEW d, d \in RelatedDids', d \notin RelatedDids
  PROVE  \E r \in Requests : Save(r) /\ req[r].new = d
<1>1. PICK x \in rows' : x.did = d
  BY DEF RelatedDids
<1>2. x \notin rows
  BY <1>1 DEF RelatedDids
<1>3. PICK r \in Requests : Save(r) /\ x = OwnRow(r)
  BY <1>1, <1>2, RowsInStep
<1>4. QED
  BY <1>1, <1>3 DEF OwnRow

Clean == Serial /\ Faults \subseteq {"incident"} /\ Together

LEMMA CleanMeans ==
  ASSUME Clean
  PROVE  /\ ~May("engine") /\ ~May("database") /\ ~May("read") /\ ~May("crash")
         /\ Serial /\ Together
BY DEF Clean, May

\* The new deployment of a request that has not reached the engine, or has
\* been undone, is not there.
LEMMA NewIsNotBorn ==
  ASSUME IndInv, ~May("engine"), [Next]_vars, NEW r \in Requests, req[r].new # None,
         engine[req[r].new] \notin Shards, pc'[r] = "error"
  PROVE  engine'[req[r].new] \notin Shards
<1>1. req[r].new \in Dids
  BY DEF IndInv, TypeOK, ControllerTypeOK, Request
<1>2. CASE engine[req[r].new] = "unborn"
  <2>1. SUFFICES ASSUME engine'[req[r].new] # "unborn" PROVE FALSE
    BY StatesAreNotShards
  <2>2. PICK q \in Requests : (Create(q) \/ CreatePlaceholder(q)) /\ req[q].new = req[r].new
    BY <1>1, <1>2, <2>1, Births
  <2>3. q = r
    BY <2>2 DEF IndInv, NewIds
  <2>4. pc'[q] # "error"
    BY <2>2 DEF Create, CreatePlaceholder, CreateFails, Deployed, Goto, IndInv, TypeOK,
       ControllerTypeOK
  <2>5. QED
    BY <2>3, <2>4
<1>3. CASE engine[req[r].new] = "gone"
  BY <1>1, <1>3, LivesInStep, StatesAreNotShards DEF Lives
<1>4. QED
  BY <1>1, <1>2, <1>3 DEF IndInv, TypeOK, EngineTypeOK

LEMMA NoOrphansStep ==
  ASSUME Clean, SerialInv, NothingLeft, [Next]_vars
  PROVE  NoOrphans'
<1>1. /\ IndInv /\ OneAtATime /\ Together /\ ~May("crash")
      /\ \A r \in Requests : Alone(r)
  BY CleanMeans DEF SerialInv, WorkInv
<1>2. SUFFICES ASSUME NEW d \in Dids, Running(d)' PROVE d \in RelatedDids' \/ InHands(d)'
  BY DEF NoOrphans
<1>3. CASE engine[d] = "unborn"
  <2>1. PICK r \in Requests : (Create(r) \/ CreatePlaceholder(r)) /\ req[r].new = d
    BY <1>1, <1>2, <1>3, Births, StatesAreNotShards DEF Running
  <2>2. req' = req
    BY <2>1 DEF Create, CreatePlaceholder
  <2>3. QED
    BY <2>1, <2>2 DEF InHands
<1>4. CASE engine[d] # "unborn"
  <2>1. Running(d)
    BY <1>1, <1>2, <1>4, LivesInStep, StatesAreNotShards DEF Lives, Running
  <2>2. ASSUME NEW x \in rows \ rows', x.did = d PROVE FALSE
    <3>1. PICK r \in Requests : CommitRemoval(r) /\ x \in locked[r]
      BY <2>2, RowsInStep
    <3>2. /\ At(r, "commit") /\ x.vid = req[r].vid /\ old[r] \in Dids
          /\ RowsOfVid(req[r].vid) = {[did |-> old[r], vid |-> req[r].vid]}
          /\ engine[old[r]] = "gone"
      BY <1>1, <3>1, NoneAssumption DEF CommitRemoval, At, Alone, Removed, Removing,
         InTransaction, IndInv, Transactions, OwnTransaction, TypeOK, ControllerTypeOK
    <3>3. x.did = old[r]
      BY <3>2 DEF RowsOfVid
    <3>4. QED
      BY <2>1, <2>2, <3>2, <3>3, StatesAreNotShards DEF Running
  <2>3. CASE d \in RelatedDids
    BY <2>2, <2>3 DEF RelatedDids
  <2>4. ASSUME NEW r \in Requests, req[r].new = d, d \notin RelatedDids PROVE InHands(d)'
    <3>1. ~At(r, "error") /\ req[r].new # None /\ req[r].op = "deploy"
      BY <1>1, <2>1, <2>4, NoneAssumption DEF NothingLeft, IndInv, TypeOK, ControllerTypeOK
    <3>2. ~At(r, "ok")
      <4>1. At(r, "ok") => [did |-> req[r].new, vid |-> req[r].vid] \in rows
        BY <1>1, <3>1 DEF Alone, RowsOfVid
      <4>2. QED
        BY <2>4, <4>1 DEF RelatedDids
    <3>3. ~At(r, "idle")
      BY <1>1, <3>1 DEF Alone, NoRequest
    <3>4. req'[r] = req[r]
      BY <1>1, <3>1, <3>2, <3>3, FateInStep DEF Fate, Kept, Works, Forgotten, Arrive,
         StartDelete, StartDeploy, DeadlockVictim, Abort
    <3>5. QED
      BY <2>4, <3>4 DEF InHands
  <2>5. QED
    BY <1>1, <2>1, <2>3, <2>4 DEF NothingLeft, NoOrphans, InHands
<1>5. QED
  BY <1>3, <1>4

LEMMA NoDanglingStep ==
  ASSUME Clean, SerialInv, NothingLeft, [Next]_vars
  PROVE  NoDanglingRelations'
<1>1. /\ IndInv /\ NewDeployments /\ ~May("crash") /\ ~May("database") /\ ~May("read")
      /\ ~May("engine") /\ \A r \in Requests : Alone(r)
  BY CleanMeans DEF SerialInv, WorkInv
<1>2. SUFFICES ASSUME NEW x \in rows'
              PROVE  Running(x.did)' \/ \E r \in Requests : At(r, "commit")' /\ x \in locked'[r]
  BY DEF NoDanglingRelations
<1>3. CASE x \notin rows
  <2>1. PICK r \in Requests : Save(r) /\ x = OwnRow(r)
    BY <1>2, <1>3, RowsInStep
  <2>2. x.did = req[r].new /\ engine' = engine /\ At(r, "save")
    BY <2>1 DEF OwnRow, Save, engineVars
  <2>3. QED
    BY <1>1, <2>2 DEF NewDeployments, NewDeployment, At, Running
<1>4. ASSUME x \in rows, NEW r \in Requests, At(r, "commit"), x \in locked[r]
      PROVE  At(r, "commit")' /\ x \in locked'[r]
  <2>1. CASE Kept(r)
    BY <1>4, <2>1 DEF Kept, At
  <2>2. CASE CommitRemoval(r)
    <3>1. Commit(r)
      BY <1>1, <2>2 DEF CommitRemoval
    <3>2. QED
      BY <1>2, <1>4, <3>1 DEF Commit
  <2>3. ~Works(r) \/ CommitRemoval(r)
    BY <1>4 DEF Works, At, Handle, CheckExisting, Lookup, DeleteIncidentsAndIoVariables, Begin,
       DeleteNextRow, InStatement, NextStatement, EndOfStatements, StatementFails, RemoveOld,
       RollbackRemoval, Create, CreatePlaceholder, FindDefinitions, SetHandler, Save, Compensate
  <2>4. ~Forgotten(r) /\ ~Arrive(r) /\ ~DeadlockVictim(r)
    BY <1>1, <1>4 DEF Forgotten, At, Arrive, StartDelete, StartDeploy, DeadlockVictim, WaitsFor,
       InStatement
  <2>5. QED
    BY <1>1, <2>1, <2>2, <2>3, <2>4, FateInStep DEF Fate
<1>5. CASE x \in rows /\ Running(x.did)
  <2>1. x.did \in Dids /\ x.did \in RelatedDids
    BY <1>1, <1>5 DEF IndInv, TypeOK, VidTypeOK, Row, RelatedDids
  <2>2. CASE engine'[x.did] # "gone"
    BY <1>1, <1>5, <2>1, <2>2, LivesInStep, StatesAreNotShards DEF Running, Lives
  <2>3. CASE engine'[x.did] = "gone"
    <3>1. Eraser(x.did)
      BY <1>1, <1>5, <2>1, <2>3, Erasures
    <3>2. ASSUME NEW r \in Requests, RemoveOld(r), old[r] = x.did
          PROVE  At(r, "commit")' /\ x \in locked'[r]
      <4>1. x \in locked[r] /\ locked' = locked
        BY <1>1, <1>5, <3>2 DEF RemoveOld, At, IndInv, Transactions, OwnTransaction, RowsOfDid,
           InTransaction, vidVars
      <4>2. pc'[r] = "commit"
        BY <1>1, <3>2 DEF RemoveOld, Goto, IndInv, TypeOK, ControllerTypeOK
      <4>3. QED
        BY <4>1, <4>2 DEF At
    <3>3. ASSUME NEW r \in Requests, Compensate(r), req[r].new = x.did PROVE FALSE
      BY <2>1, <3>3 DEF NothingLeft, Compensate
    <3>4. ASSUME NEW p \in lateDeletes, p[2] = x.did PROVE FALSE
      BY <2>1, <3>4 DEF NothingLeft
    <3>5. ASSUME NEW p \in tool.pids, p[2] = x.did PROVE FALSE
      BY <1>1, <2>1, <3>5 DEF IndInv, Scan
    <3>6. QED
      BY <3>1, <3>2, <3>3, <3>4, <3>5 DEF Eraser
  <2>4. QED
    BY <2>2, <2>3
<1>6. QED
  BY <1>3, <1>4, <1>5 DEF NothingLeft, NoDanglingRelations

\* A request that fails leaves no process, and undoes only what has no
\* relation.
FailsCleanly(r) ==
  /\ At(r, "error") /\ req[r].new # None => ~Running(req[r].new)
  /\ At(r, "compensate") => req[r].new \notin RelatedDids

LEMMA FailuresStep ==
  ASSUME Clean, SerialInv, NothingLeft, [Next]_vars, NEW r \in Requests
  PROVE  FailsCleanly(r)'
<1>1. /\ IndInv /\ Placed /\ ~May("database") /\ ~May("engine") /\ Together
      /\ FailsCleanly(r) /\ Alone(r)
      /\ pc \in [Requests -> Control]
  BY CleanMeans DEF SerialInv, WorkInv, NothingLeft, FailsCleanly, IndInv, TypeOK,
     ControllerTypeOK
<1>2. ASSUME At(r, "error")', req'[r].new # None, req'[r] = req[r]
      PROVE  engine'[req[r].new] \notin Shards
  <2>1. req[r].new \in Dids /\ req[r].new # None /\ req[r].op = "deploy" /\ pc'[r] = "error"
    BY <1>1, <1>2 DEF IndInv, TypeOK, ControllerTypeOK, Request, At
  <2>2. CASE engine[req[r].new] \notin Shards
    BY <1>1, <2>1, <2>2, NewIsNotBorn
  <2>3. CASE engine[req[r].new] \in Shards
    <3>1. ~At(r, "error") /\ ~(Unsaved(r) /\ ~Created(r))
      BY <1>1, <2>1, <2>3, StatesAreNotShards DEF FailsCleanly, Running, IndInv, NewIds
    <3>2. ~Kept(r) /\ ~Forgotten(r) /\ ~Arrive(r) /\ ~DeadlockVictim(r)
      BY <1>1, <1>2, <2>1, <3>1 DEF Alone, NoRequest, Kept, At, Forgotten, Arrive, StartDelete,
         StartDeploy, DeadlockVictim, WaitsFor, InStatement, Unsaved, Created
    <3>3. Works(r)
      BY <1>1, <3>2, FateInStep DEF Fate
    <3>4. Compensate(r)
      BY <1>1, <2>1, <3>1, <3>3 DEF Works, At, Unsaved, Created, Goto, Handle, CheckExisting,
         Lookup, DeleteIncidentsAndIoVariables, Begin, DeleteNextRow, InStatement,
         NextStatement, EndOfStatements, StatementFails, RemoveOld, CommitRemoval,
         RollbackRemoval, Create, CreatePlaceholder, FindDefinitions, SetHandler, HandlerDone,
         Save
    <3>5. RemoveProcess(req[r].user, req[r].new) /\ req[r].user \in Users
      BY <1>1, <3>4 DEF Compensate, At, IndInv, TypeOK, ControllerTypeOK
    <3>6. engine[req[r].new] = shardOf[req[r].user]
      BY <1>1, <2>1, <2>3, <3>5 DEF Placed, Running
    <3>7. engine'[req[r].new] = "gone"
      BY <1>1, <2>1, <3>5, <3>6 DEF RemoveProcess, Erased, IndInv, TypeOK, EngineTypeOK
    <3>8. QED
      BY <3>7, StatesAreNotShards
  <2>4. QED
    BY <2>2, <2>3
<1>3. ASSUME At(r, "error")', Arrive(r), req'[r].new # None PROVE engine'[req'[r].new] \notin Shards
  BY <1>1, <1>3, StatesAreNotShards DEF Arrive, StartDelete, StartDeploy, Fresh, engineVars,
     IndInv, TypeOK, ControllerTypeOK
<1>4. ASSUME At(r, "compensate")', req'[r] = req[r] PROVE req[r].new \notin RelatedDids'
  <2>1. SUFFICES ASSUME req[r].new \in RelatedDids' PROVE FALSE
    OBVIOUS
  <2>2. req[r].new # None
    BY <1>1, <1>4, TypeStep, NoneAssumption DEF IndInv, TypeOK, ControllerTypeOK, At, Deploying
  <2>3. CASE req[r].new \notin RelatedDids
    <3>1. PICK q \in Requests : Save(q) /\ req[q].new = req[r].new
      BY <2>1, <2>3, RelatedInStep
    <3>2. q = r
      BY <1>1, <2>2, <3>1 DEF IndInv, NewIds
    <3>3. pc'[q] = "ok"
      BY <1>1, <3>1 DEF Save, Goto
    <3>4. QED
      BY <1>4, <3>2, <3>3 DEF At
  <2>4. CASE req[r].new \in RelatedDids
    <3>1. ~At(r, "compensate") /\ ~Unsaved(r)
      BY <1>1, <2>2, <2>4 DEF FailsCleanly, IndInv, NewIds
    <3>2. ~Works(r)
      BY <1>1, <1>4, <3>1 DEF Works, Unsaved, At, Handle, CheckExisting, Lookup,
         DeleteIncidentsAndIoVariables, Begin, DeleteNextRow, InStatement, NextStatement,
         EndOfStatements, StatementFails, RemoveOld, CommitRemoval, RollbackRemoval, Create,
         CreatePlaceholder, FindDefinitions, SetHandler, Save, Compensate
    <3>3. ~Kept(r) /\ ~Forgotten(r) /\ ~Arrive(r) /\ ~DeadlockVictim(r)
      BY <1>1, <1>4, <3>1 DEF Kept, At, Forgotten, Arrive, StartDelete, StartDeploy,
         DeadlockVictim, Abort, Goto
    <3>4. QED
      BY <1>1, <3>2, <3>3, FateInStep DEF Fate
  <2>5. QED
    BY <2>3, <2>4
<1>5. CASE req'[r] = req[r]
  BY <1>2, <1>4, <1>5 DEF FailsCleanly, At, Running
<1>6. CASE Forgotten(r)
  BY <1>6 DEF Forgotten, FailsCleanly, At
<1>7. CASE Arrive(r)
  <2>1. ~At(r, "compensate")'
    BY <1>1, <1>7 DEF Arrive, StartDelete, StartDeploy, Goto, At
  <2>2. QED
    BY <1>3, <1>7, <2>1 DEF FailsCleanly, Running
<1>8. QED
  BY <1>1, <1>5, <1>6, <1>7, FateInStep DEF Fate, Kept, Works, DeadlockVictim, Abort

LEMMA LateStep ==
  ASSUME Clean, SerialInv, NothingLeft, [Next]_vars, NEW p \in lateDeletes'
  PROVE  p[2] \notin RelatedDids' /\ ~InHands(p[2])'
<1>1. IndInv /\ LateDeletes /\ ~May("engine") /\ ~May("read")
  BY CleanMeans DEF SerialInv, WorkInv
<1>2. p \in lateDeletes \/ p \in tool.pids
  <2>1. ASSUME UNCHANGED lateDeletes PROVE p \in lateDeletes
    BY <2>1
  <2>2. ASSUME NEW r \in Requests, RequestStep(r) PROVE p \in lateDeletes
    BY <1>1, <2>1, <2>2 DEF RequestStep, Handle, CheckExisting, Lookup,
       DeleteIncidentsAndIoVariables, Begin, DeleteNextRow, NextStatement, EndOfStatements,
       StatementFails, Abort, RemoveOld, CommitRemoval, RollbackRemoval, Create, CreateFails,
       CreatePlaceholder, CreateDeployment, FindDefinitions, SetHandler, Save, Compensate,
       RemoveProcess, Answer, Arrive, StartDelete, StartDeploy, DeadlockVictim, engineVars
  <2>3. CASE ToolStep
    BY <2>1, <2>3 DEF ToolStep, ReadRelations, ListShard, RemovePid, Stop, engineVars
  <2>4. CASE Environment
    BY <2>4 DEF Environment, LateDelete, Remap
  <2>5. CASE Crash \/ (\E d \in Dids : Age(d)) \/ UNCHANGED vars
    BY <2>1, <2>5 DEF Crash, Age, vars, engineVars
  <2>6. QED
    BY <2>2, <2>3, <2>4, <2>5 DEF Next
<1>3. p[2] \in Dids /\ engine[p[2]] # "unborn" /\ p[2] \notin RelatedDids /\ ~InHands(p[2])
  <2>1. CASE p \in lateDeletes
    BY <1>1, <2>1 DEF LateDeletes, NothingLeft, IndInv, TypeOK, EngineTypeOK
  <2>2. CASE p \in tool.pids
    BY <1>1, <2>2 DEF IndInv, Scan, TypeOK, EngineTypeOK
  <2>3. QED
    BY <1>2, <2>1, <2>2
<1>4. ~InHands(p[2])'
  BY <1>1, <1>3, HandsInStep
<1>5. p[2] \notin RelatedDids'
  BY <1>3, RelatedInStep DEF InHands
<1>6. QED
  BY <1>4, <1>5

LEMMA CleanStep ==
  ASSUME CleanInv, [Next]_vars PROVE CleanInv'
<1>1. SerialInv /\ SerialInv'
  BY SerialStep DEF CleanInv
<1>2. ASSUME Clean PROVE NothingLeft'
  <2>1. NothingLeft
    BY <1>2 DEF CleanInv, Clean
  <2>2. NoOrphans' /\ NoDanglingRelations'
    BY <1>1, <1>2, <2>1, NoOrphansStep, NoDanglingStep
  <2>3. \A r \in Requests : FailsCleanly(r)'
    BY <1>1, <1>2, <2>1, FailuresStep
  <2>4. \A p \in lateDeletes' : p[2] \notin RelatedDids' /\ ~InHands(p[2])'
    BY <1>1, <1>2, <2>1, LateStep
  <2>5. QED
    BY <2>2, <2>3, <2>4 DEF NothingLeft, FailsCleanly
<1>3. QED
  BY <1>1, <1>2 DEF CleanInv, Clean, Together

LEMMA CleanInit ==
  ASSUME Init PROVE CleanInv
<1>1. SerialInv
  BY SerialInit
<1>2. /\ rows = {} /\ engine = [d \in Dids |-> "unborn"] /\ lateDeletes = {}
      /\ pc = [r \in Requests |-> "idle"]
  BY DEF Init, VidInit, EngineInit, ControllerInit
<1>3. QED
  BY <1>1, <1>2, StatesAreNotShards DEF CleanInv, NothingLeft, NoOrphans, NoDanglingRelations,
     Running, At

THEOREM CleanInvariance == Spec => []CleanInv
<1>1. Init => CleanInv
  BY CleanInit
<1>2. CleanInv /\ [Next]_vars => CleanInv'
  BY CleanStep
<1>3. QED
  BY <1>1, <1>2, PTL DEF Spec

\* With an incident API that may fail, callers that keep to one request per
\* vid, and the cleanup running beside them, every process of a user is
\* behind a vid: what could not get its handlers has been taken back.
THEOREM NoOrphansAreLeft ==
  ASSUME Serial, Faults \subseteq {"incident"}, Together
  PROVE  Spec => []NoOrphans
<1>1. CleanInv => NoOrphans
  BY DEF CleanInv, NothingLeft
<1>2. QED
  BY <1>1, CleanInvariance, PTL

\* And every vid has its process, except while one request removes both.
THEOREM NoRelationsDangle ==
  ASSUME Serial, Faults \subseteq {"incident"}, Together
  PROVE  Spec => []NoDanglingRelations
<1>1. CleanInv => NoDanglingRelations
  BY DEF CleanInv, NothingLeft
<1>2. QED
  BY <1>1, CleanInvariance, PTL
=============================================================================
