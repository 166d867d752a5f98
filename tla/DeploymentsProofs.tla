-------------------------- MODULE DeploymentsProofs --------------------------
(***************************************************************************)
(* Proofs about Deployments, for any number of request slots, vids,        *)
(* deployment ids, users and shards, whatever fails, with requests that    *)
(* overlap and with the cleanup tool running beside them.                  *)
(***************************************************************************)
EXTENDS Deployments, TLAPS

(***************************************************************************)
(* Type correctness.                                                       *)
(***************************************************************************)

\* The calls to the engine keep its state well typed.
LEMMA EngineCalls ==
  ASSUME EngineTypeOK, NEW u \in Users, NEW d \in Dids,
         \/ UNCHANGED engineVars
         \/ CreateDeployment(u, d)
         \/ RemoveProcess(u, d)
         \/ RemoveProcessFails(u, d)
  PROVE  EngineTypeOK'
<1>1. CASE UNCHANGED engineVars
  BY <1>1 DEF EngineTypeOK, engineVars
<1>2. CASE CreateDeployment(u, d)
  BY <1>2 DEF EngineTypeOK, CreateDeployment
<1>3. CASE RemoveProcess(u, d)
  BY <1>3 DEF EngineTypeOK, RemoveProcess, Erased
<1>4. CASE RemoveProcessFails(u, d)
  BY <1>1, <1>3, <1>4 DEF EngineTypeOK, RemoveProcessFails
<1>5. QED
  BY <1>1, <1>2, <1>3, <1>4

\* So do the updates of the table.
LEMMA VidCalls ==
  ASSUME VidTypeOK, NEW r \in Requests, NEW v \in Vids, NEW d \in Dids,
         \/ UNCHANGED vidVars
         \/ SaveVidRelation(v, d)
         \/ \E x \in Row : DeleteRow(r, x)
         \/ Commit(r)
         \/ Rollback(r)
  PROVE  VidTypeOK'
<1>1. CASE UNCHANGED vidVars
  BY <1>1 DEF VidTypeOK, vidVars
<1>2. CASE SaveVidRelation(v, d)
  BY <1>2 DEF VidTypeOK, SaveVidRelation, Row
<1>3. CASE \E x \in Row : DeleteRow(r, x)
  BY <1>3 DEF VidTypeOK, DeleteRow
<1>4. CASE Commit(r) \/ Rollback(r)
  BY <1>4 DEF VidTypeOK, Commit, Rollback
<1>5. QED
  BY <1>1, <1>2, <1>3, <1>4

\* What the local variables of a handler may become.
LEMMA HandlerTypes ==
  ASSUME ControllerTypeOK, NEW r \in Requests, NEW l \in Control,
         UNCHANGED req, Goto(r, l),
         l # "idle" => ~At(r, "idle"),
         l \in Deploying => req[r].op = "deploy",
         old' \in [Requests -> Dids \cup {None}],
         todo' \in [Requests -> SUBSET Row],
         defs' \in [Requests -> SUBSET Defs],
         handlers' \in SUBSET (Dids \X Defs),
         l \in Removing => old'[r] \in Dids,
         \A q \in Requests \ {r} : old'[q] = old[q]
  PROVE  ControllerTypeOK'
BY DEF ControllerTypeOK, Goto, At, Request

LEMMA AbortTypes ==
  ASSUME VidTypeOK, EngineTypeOK, ControllerTypeOK, NEW r \in Requests,
         pc[r] \in Removing, Abort(r)
  PROVE  VidTypeOK' /\ EngineTypeOK' /\ ControllerTypeOK'
<1>1. VidTypeOK'
  BY DEF Abort, Rollback, VidTypeOK
<1>2. todo' \in [Requests -> SUBSET Row]
  BY DEF Abort, ControllerTypeOK
<1>3. ControllerTypeOK'
  BY <1>2, HandlerTypes DEF Abort, ControllerTypeOK, At, Control, Removing, Deploying, InTransaction
<1>4. QED
  BY <1>1, <1>3 DEF Abort, engineVars, EngineTypeOK

LEMMA TypeHandle ==
  ASSUME VidTypeOK, EngineTypeOK, ControllerTypeOK, NEW r \in Requests, Handle(r)
  PROVE  VidTypeOK' /\ EngineTypeOK' /\ ControllerTypeOK'
<1> USE DEF locals, At
<1> DEFINE Same == old' = old /\ todo' = todo /\ defs' = defs /\ handlers' = handlers
<1>1. ASSUME UNCHANGED req, Same, NEW l \in Control \ {"idle"}, Goto(r, l), ~At(r, "idle"),
             l \in Deploying => req[r].op = "deploy", l \in Removing => old[r] \in Dids
      PROVE  ControllerTypeOK'
  BY <1>1, HandlerTypes DEF ControllerTypeOK
<1>2. req[r].op = "deploy" => req[r].new \in Dids
  BY DEF ControllerTypeOK
<1>3. pc[r] \in Deploying => /\ req[r].op = "deploy" /\ req[r].new \in Dids
                             /\ req[r].vid \in Vids /\ req[r].user \in Users
  BY DEF ControllerTypeOK, Deploying
<1>4. pc[r] \in Removing => /\ old[r] \in Dids /\ req[r].vid \in Vids /\ req[r].user \in Users
  BY DEF ControllerTypeOK, Removing, InTransaction
<1> USE DEF Control, Removing, Deploying, InTransaction
<1>5. ASSUME UNCHANGED vidVars, UNCHANGED engineVars PROVE VidTypeOK' /\ EngineTypeOK'
  BY <1>5 DEF vidVars, engineVars, VidTypeOK, EngineTypeOK
<1>6. CASE CheckExisting(r)
  <2>1. PICK l \in {"lookup", "create", "error"} : Goto(r, l)
    BY <1>6 DEF CheckExisting
  <2>2. QED
    BY <1>1, <1>3, <1>5, <1>6, <2>1 DEF CheckExisting
<1>7. CASE Lookup(r)
  <2>1. PICK l \in {"external", "create", "ok", "error"} : Goto(r, l)
    BY <1>7 DEF Lookup, Returned
  <2>2. /\ old' \in [Requests -> Dids \cup {None}]
        /\ l = "external" => old'[r] \in Dids
        /\ \A q \in Requests \ {r} : old'[q] = old[q]
        /\ l = "create" => req[r].op = "deploy"
    BY <1>7, <2>1 DEF Lookup, GetDeploymentId, RowsOfVid, Row, VidTypeOK, ControllerTypeOK,
       Goto, Returned
  <2>3. ControllerTypeOK'
    BY <1>7, <2>1, <2>2, HandlerTypes DEF Lookup, ControllerTypeOK
  <2>4. QED
    BY <1>5, <1>7, <2>3 DEF Lookup
<1>8. CASE DeleteIncidentsAndIoVariables(r)
  BY <1>1, <1>4, <1>5, <1>8 DEF DeleteIncidentsAndIoVariables
<1>9. CASE Begin(r)
  <2>1. PICK l \in {"byDid", "error"} : Goto(r, l)
    BY <1>9 DEF Begin
  <2>2. todo' \in [Requests -> SUBSET Row]
    BY <1>9 DEF Begin, ControllerTypeOK, RowsOfDid, VidTypeOK
  <2>3. ControllerTypeOK'
    BY <1>4, <1>9, <2>1, <2>2, HandlerTypes DEF Begin, ControllerTypeOK
  <2>4. QED
    BY <1>5, <1>9, <2>3 DEF Begin
<1>10. CASE DeleteNextRow(r)
  <2>1. PICK x \in todo[r] : DeleteRow(r, x) /\ todo' = [todo EXCEPT ![r] = @ \ {x}]
    BY <1>10 DEF DeleteNextRow
  <2>2. x \in Row /\ todo' \in [Requests -> SUBSET Row]
    BY <2>1 DEF ControllerTypeOK
  <2>3. Goto(r, pc[r]) /\ pc[r] \in Removing \ Deploying
    BY <1>10 DEF DeleteNextRow, InStatement, Goto, ControllerTypeOK
  <2>4. ControllerTypeOK'
    BY <1>4, <1>10, <2>2, <2>3, HandlerTypes DEF DeleteNextRow, ControllerTypeOK
  <2>5. QED
    BY <1>4, <1>10, <2>1, <2>2, <2>3, <2>4, VidCalls DEF DeleteNextRow, engineVars, EngineTypeOK
<1>11. CASE NextStatement(r)
  <2>1. todo' \in [Requests -> SUBSET Row]
    BY <1>11 DEF NextStatement, ControllerTypeOK, RowsOfVid, VidTypeOK
  <2>2. ControllerTypeOK'
    BY <1>4, <1>11, <2>1, HandlerTypes DEF NextStatement, ControllerTypeOK
  <2>3. QED
    BY <1>5, <1>11, <2>2 DEF NextStatement
<1>12. CASE EndOfStatements(r)
  BY <1>1, <1>4, <1>5, <1>12 DEF EndOfStatements
<1>13. CASE StatementFails(r)
  <2>1. pc[r] \in Removing /\ Abort(r)
    BY <1>13 DEF StatementFails, InStatement
  <2>2. QED
    BY <1>4, <2>1, AbortTypes
<1>14. CASE RemoveOld(r)
  <2>1. EngineTypeOK'
    BY <1>4, <1>14, EngineCalls DEF RemoveOld
  <2>2. ControllerTypeOK'
    BY <1>1, <1>4, <1>14 DEF RemoveOld
  <2>3. QED
    BY <1>14, <2>1, <2>2 DEF RemoveOld, vidVars, VidTypeOK
<1>15. CASE CommitRemoval(r)
  <2>1. PICK l \in {"create", "ok", "error"} : Goto(r, l) /\ (l = "create" => req[r].op = "deploy")
    BY <1>15 DEF CommitRemoval, Returned
  <2>2. ControllerTypeOK'
    BY <1>1, <1>15, <2>1 DEF CommitRemoval
  <2>3. VidTypeOK'
    BY <1>4, <1>15, VidCalls DEF CommitRemoval
  <2>4. QED
    BY <1>15, <2>2, <2>3 DEF CommitRemoval, engineVars, EngineTypeOK
<1>16. CASE RollbackRemoval(r)
  <2>1. VidTypeOK'
    BY <1>4, <1>16, VidCalls DEF RollbackRemoval
  <2>2. QED
    BY <1>1, <1>16, <2>1 DEF RollbackRemoval, engineVars, EngineTypeOK
<1>17. CASE Create(r) \/ CreatePlaceholder(r)
  <2>1. PICK l \in {"definitions", "save", "placeholder", "error"} : Goto(r, l)
    BY <1>17 DEF Create, CreatePlaceholder, CreateFails, Deployed
  <2>2. EngineTypeOK'
    BY <1>3, <1>17, EngineCalls DEF Create, CreatePlaceholder, CreateFails
  <2>3. ControllerTypeOK'
    BY <1>1, <1>3, <1>17, <2>1 DEF Create, CreatePlaceholder
  <2>4. QED
    BY <1>17, <2>2, <2>3 DEF Create, CreatePlaceholder, vidVars, VidTypeOK
<1>18. CASE FindDefinitions(r)
  <2>1. PICK l \in {"save", "handlers", "compensate"} : Goto(r, l)
    BY <1>18 DEF FindDefinitions
  <2>2. defs' \in [Requests -> SUBSET Defs]
    BY <1>18 DEF FindDefinitions, DefinitionsOf, ControllerTypeOK
  <2>3. ControllerTypeOK'
    BY <1>3, <1>18, <2>1, <2>2, HandlerTypes DEF FindDefinitions, ControllerTypeOK
  <2>4. QED
    BY <1>5, <1>18, <2>3 DEF FindDefinitions
<1>19. CASE SetHandler(r)
  <2>1. PICK l \in {"save", "handlers", "compensate"} : Goto(r, l)
    BY <1>19 DEF SetHandler, HandlerDone
  <2>2. defs' \in [Requests -> SUBSET Defs]
    BY <1>19 DEF SetHandler, HandlerDone, ControllerTypeOK
  <2>3. handlers' \in SUBSET (Dids \X Defs)
    BY <1>3, <1>19 DEF SetHandler, ControllerTypeOK
  <2>4. ControllerTypeOK'
    BY <1>3, <1>19, <2>1, <2>2, <2>3, HandlerTypes DEF SetHandler, ControllerTypeOK
  <2>5. QED
    BY <1>5, <1>19, <2>4 DEF SetHandler
<1>20. CASE Save(r)
  <2>1. VidTypeOK'
    BY <1>3, <1>20, VidCalls DEF Save
  <2>2. ControllerTypeOK'
    BY <1>1, <1>3, <1>20 DEF Save
  <2>3. QED
    BY <1>20, <2>1, <2>2 DEF Save, engineVars, EngineTypeOK
<1>21. CASE Compensate(r)
  <2>1. EngineTypeOK'
    BY <1>3, <1>21, EngineCalls DEF Compensate
  <2>2. ControllerTypeOK'
    BY <1>1, <1>21 DEF Compensate
  <2>3. QED
    BY <1>21, <2>1, <2>2 DEF Compensate, vidVars, VidTypeOK
<1>22. CASE Answer(r)
  <2>1. ControllerTypeOK'
    BY <1>22, NoneAssumption DEF Answer, Goto, NoRequest, ControllerTypeOK, Request
  <2>2. QED
    BY <1>5, <1>22, <2>1 DEF Answer
<1>23. QED
  BY <1>6, <1>7, <1>8, <1>9, <1>10, <1>11, <1>12, <1>13, <1>14, <1>15, <1>16, <1>17, <1>18,
     <1>19, <1>20, <1>21, <1>22 DEF Handle

LEMMA TypeArrive ==
  ASSUME VidTypeOK, EngineTypeOK, ControllerTypeOK, NEW r \in Requests, Arrive(r)
  PROVE  VidTypeOK' /\ EngineTypeOK' /\ ControllerTypeOK'
<1>1. PICK v \in Vids, u \in Users :
        \/ StartDelete(r, v, u)
        \/ \E i \in BOOLEAN, d \in Fresh : StartDeploy(r, v, u, i, d)
  BY DEF Arrive
<1>2. UNCHANGED <<vidVars, engineVars, locals, handlers>>
  BY <1>1 DEF StartDelete, StartDeploy
<1>3. VidTypeOK' /\ EngineTypeOK'
  BY <1>2 DEF VidTypeOK, vidVars, EngineTypeOK, engineVars
<1>4. CASE StartDelete(r, v, u)
  <2>1. req' \in [Requests -> Request] /\ pc' \in [Requests -> Control]
    BY <1>4 DEF StartDelete, Goto, ControllerTypeOK, Request, Control
  <2>2. /\ req'[r].op # "deploy" /\ req'[r].new \notin Dids
        /\ req'[r].vid \in Vids /\ req'[r].user \in Users /\ pc'[r] = "lookup"
        /\ \A q \in Requests \ {r} : req'[q] = req[q] /\ pc'[q] = pc[q]
    BY <1>4, NoneAssumption DEF StartDelete, Goto, ControllerTypeOK
  <2>3. old' = old /\ todo' = todo /\ defs' = defs /\ handlers' = handlers
    BY <1>2 DEF locals
  <2>4. ASSUME NEW q \in Requests
        PROVE  /\ pc'[q] \in Removing => old'[q] \in Dids
               /\ pc'[q] \in Deploying => req'[q].op = "deploy"
               /\ pc'[q] # "idle" => req'[q].vid \in Vids /\ req'[q].user \in Users
               /\ req'[q].op = "deploy" <=> req'[q].new \in Dids
    BY <2>2, <2>3 DEF ControllerTypeOK, Removing, Deploying, InTransaction
  <2>5. QED
    BY <1>3, <2>1, <2>3, <2>4 DEF ControllerTypeOK
<1>5. CASE \E i \in BOOLEAN, d \in Fresh : StartDeploy(r, v, u, i, d)
  <2>1. req' \in [Requests -> Request] /\ pc' \in [Requests -> Control]
    BY <1>5 DEF StartDeploy, Fresh, Goto, ControllerTypeOK, Request, Control, Deploying
  <2>2. /\ req'[r].op = "deploy" /\ req'[r].new \in Dids
        /\ req'[r].vid \in Vids /\ req'[r].user \in Users /\ pc'[r] \in {"exists", "error"}
        /\ \A q \in Requests \ {r} : req'[q] = req[q] /\ pc'[q] = pc[q]
    BY <1>5 DEF StartDeploy, Fresh, Goto, ControllerTypeOK
  <2>3. old' = old /\ todo' = todo /\ defs' = defs /\ handlers' = handlers
    BY <1>2 DEF locals
  <2>4. ASSUME NEW q \in Requests
        PROVE  /\ pc'[q] \in Removing => old'[q] \in Dids
               /\ pc'[q] \in Deploying => req'[q].op = "deploy"
               /\ pc'[q] # "idle" => req'[q].vid \in Vids /\ req'[q].user \in Users
               /\ req'[q].op = "deploy" <=> req'[q].new \in Dids
    BY <2>2, <2>3 DEF ControllerTypeOK, Removing, Deploying, InTransaction
  <2>5. QED
    BY <1>3, <2>1, <2>3, <2>4 DEF ControllerTypeOK
<1>6. QED
  BY <1>1, <1>3, <1>4, <1>5

LEMMA TypeCrash ==
  ASSUME VidTypeOK, EngineTypeOK, ControllerTypeOK, Crash
  PROVE  VidTypeOK' /\ EngineTypeOK' /\ ControllerTypeOK'
<1>1. VidTypeOK' /\ EngineTypeOK'
  BY DEF Crash, RollbackAll, VidTypeOK, EngineTypeOK, engineVars
<1>2. ControllerTypeOK'
  BY NoneAssumption DEF Crash, NoRequest, ControllerTypeOK, Request, Control, Removing,
     Deploying, InTransaction
<1>3. QED
  BY <1>1, <1>2

LEMMA TypeTool ==
  ASSUME VidTypeOK, EngineTypeOK, CleanupTypeOK, ToolStep
  PROVE  VidTypeOK' /\ EngineTypeOK' /\ CleanupTypeOK'
<1>1. CASE ReadRelations
  <2>1. RelatedDids \in SUBSET Dids
    BY DEF RelatedDids, VidTypeOK, Row
  <2>2. CleanupTypeOK'
    BY <1>1, <2>1 DEF ReadRelations, CleanupTypeOK, Tool
  <2>3. QED
    BY <1>1, <2>2 DEF ReadRelations, vidVars, engineVars, VidTypeOK, EngineTypeOK
<1>2. CASE ListShard
  <2>1. PICK s \in tool.left :
          tool' = [tool EXCEPT !.left = @ \ {s}, !.pids = @ \cup ({s} \X Unlinked(s)),
                               !.pc = IF tool.left = {s} THEN "listed" ELSE @]
    BY <1>2 DEF ListShard
  <2>2. {s} \X Unlinked(s) \subseteq Shards \X Dids
    BY DEF Unlinked, CleanupTypeOK, Tool
  <2>3. CleanupTypeOK'
    BY <2>1, <2>2 DEF CleanupTypeOK, Tool
  <2>4. QED
    BY <1>2, <2>3 DEF ListShard, vidVars, engineVars, VidTypeOK, EngineTypeOK
<1>3. CASE RemovePid
  <2>1. PICK p \in tool.pids :
          \/ /\ engine' = Erased(p[1], p[2])
             /\ tool' \in {NoTask, [tool EXCEPT !.pids = @ \ {p}]}
             /\ UNCHANGED lateDeletes
          \/ /\ lateDeletes' = lateDeletes \cup {p}
             /\ tool' = NoTask
             /\ UNCHANGED engine
    BY <1>3 DEF RemovePid
  <2>2. p \in Shards \X Dids
    BY DEF CleanupTypeOK, Tool
  <2>3. EngineTypeOK'
    BY <1>3, <2>1, <2>2 DEF RemovePid, Erased, EngineTypeOK
  <2>4. CleanupTypeOK'
    BY <2>1 DEF CleanupTypeOK, Tool, NoTask
  <2>5. QED
    BY <1>3, <2>3, <2>4 DEF RemovePid, vidVars, VidTypeOK
<1>4. CASE Stop
  BY <1>4 DEF Stop, NoTask, vidVars, engineVars, VidTypeOK, EngineTypeOK, CleanupTypeOK, Tool
<1>5. QED
  BY <1>1, <1>2, <1>3, <1>4 DEF ToolStep

LEMMA TypeStep ==
  ASSUME TypeOK, [Next]_vars
  PROVE  TypeOK'
<1> USE DEF TypeOK
<1>1. ASSUME UNCHANGED controllerVars PROVE ControllerTypeOK'
  BY <1>1 DEF controllerVars, ControllerTypeOK
<1>2. ASSUME UNCHANGED vidVars PROVE VidTypeOK'
  BY <1>2 DEF vidVars, VidTypeOK
<1>3. ASSUME UNCHANGED tool PROVE CleanupTypeOK'
  BY <1>3 DEF CleanupTypeOK
<1>4. ASSUME NEW r \in Requests, RequestStep(r) PROVE TypeOK'
  <2>1. CASE Handle(r)
    BY <1>3, <1>4, <2>1, TypeHandle DEF RequestStep
  <2>2. CASE Arrive(r)
    BY <1>3, <1>4, <2>2, TypeArrive DEF RequestStep
  <2>3. CASE DeadlockVictim(r)
    <3>1. pc[r] \in Removing /\ Abort(r)
      BY <2>3 DEF DeadlockVictim, WaitsFor, InStatement, Removing, InTransaction
    <3>2. QED
      BY <1>3, <1>4, <3>1, AbortTypes DEF RequestStep
  <2>4. QED
    BY <1>4, <2>1, <2>2, <2>3 DEF RequestStep
<1>5. CASE Crash /\ UNCHANGED tool
  BY <1>3, <1>5, TypeCrash
<1>6. CASE ToolStep /\ UNCHANGED controllerVars
  BY <1>1, <1>6, TypeTool
<1>7. ASSUME NEW d \in Dids, Age(d) PROVE TypeOK'
  BY <1>1, <1>2, <1>3, <1>7 DEF Age, EngineTypeOK
<1>8. CASE Environment
  <2>1. EngineTypeOK'
    BY <1>8 DEF Environment, LateDelete, Remap, Erased, EngineTypeOK
  <2>2. QED
    BY <1>1, <1>2, <1>3, <1>8, <2>1 DEF Environment
<1>9. CASE UNCHANGED vars
  BY <1>1, <1>2, <1>3, <1>9 DEF vars, EngineTypeOK, engineVars
<1>10. QED
  BY <1>4, <1>5, <1>6, <1>7, <1>8, <1>9 DEF Next

\* Every variable of the composed system keeps its type, and a handler that
\* removes a deployment knows which.
THEOREM TypeCorrect == Spec => []TypeOK
<1>1. Init => TypeOK
  BY NoneAssumption, StatesAreNotShards DEF Init, TypeOK, VidInit, VidTypeOK, EngineInit,
     EngineTypeOK, ControllerInit, ControllerTypeOK, CleanupInit, CleanupTypeOK, Tool,
     NoTask, NoRequest, Request, Control, Removing, Deploying, InTransaction
<1>2. TypeOK /\ [Next]_vars => TypeOK'
  BY TypeStep
<1>3. QED
  BY <1>1, <1>2, PTL DEF Spec

(***************************************************************************)
(* Safety.  What the steps of a handler have in common: they leave the     *)
(* other requests alone, they add at most the relation of the request and  *)
(* only at its INSERT, no deployment becomes unborn again, and a request   *)
(* starts to remove a deployment only when it has looked it up.            *)
(***************************************************************************)
OwnRow(r) == [did |-> req[r].new, vid |-> req[r].vid]

Moves(r) ==
  /\ \A q \in Requests \ {r} :
       pc'[q] = pc[q] /\ old'[q] = old[q] /\ todo'[q] = todo[q] /\ locked'[q] = locked[q]
  /\ rows' \subseteq rows \cup {OwnRow(r)}
  /\ rows' \subseteq rows \/ At(r, "save")
  /\ \A d \in Dids : engine[d] # "unborn" => engine'[d] # "unborn"
  /\ \A d \in Dids : engine[d] = "unborn" =>
       engine'[d] = "unborn" \/ (d = req[r].new /\ (Unsaved(r)' => Created(r)'))
  /\ Unsaved(r)' => Unsaved(r) /\ rows' \subseteq rows
  /\ Unsaved(r)' /\ ~Created(r)' => ~Created(r)
  /\ Created(r)' => Created(r) \/ (req[r].new \in Dids /\ engine'[req[r].new] # "unborn")
  /\ pc'[r] \in Removing =>
       \/ pc[r] \in Removing /\ old'[r] = old[r]
       \/ At(r, "lookup") /\ old'[r] \in GetDeploymentId(req[r].vid)

LEMMA MovesOfAbort ==
  ASSUME TypeOK, NEW r \in Requests, Abort(r)
  PROVE  Moves(r)
BY DEF TypeOK, VidTypeOK, EngineTypeOK, ControllerTypeOK, Abort, Rollback, engineVars, Goto,
   Moves, Unsaved, Created, Removing, InTransaction

LEMMA MovesOfHandle ==
  ASSUME TypeOK, NEW r \in Requests, Handle(r)
  PROVE  Moves(r)
<1> USE DEF TypeOK, ControllerTypeOK, Moves, Unsaved, Created, Goto, At, locals
<1>1. ASSUME UNCHANGED <<vidVars, engineVars>>
      PROVE  /\ rows' = rows /\ locked' = locked /\ engine' = engine
  BY <1>1 DEF vidVars, engineVars
<1>2. CASE CheckExisting(r)
  BY <1>1, <1>2 DEF CheckExisting, Removing, InTransaction
<1>3. CASE Lookup(r)
  <2>1. rows' = rows /\ locked' = locked /\ engine' = engine
    BY <1>1, <1>3 DEF Lookup
  <2>2. pc'[r] = "external" => old'[r] \in GetDeploymentId(req[r].vid)
    BY <1>3 DEF Lookup, Returned
  <2>3. pc'[r] \in {"external", "create", "ok", "error"}
    BY <1>3 DEF Lookup, Returned
  <2>4. QED
    BY <1>3, <2>1, <2>2, <2>3 DEF Lookup, Removing, InTransaction
<1>4. CASE DeleteIncidentsAndIoVariables(r) \/ Begin(r) \/ NextStatement(r) \/ EndOfStatements(r)
  <2>1. rows' = rows /\ locked' = locked /\ engine' = engine
    BY <1>1, <1>4 DEF DeleteIncidentsAndIoVariables, Begin, NextStatement, EndOfStatements
  <2>2. pc[r] \in Removing /\ pc'[r] \in Removing \cup {"error"} /\ old' = old
    BY <1>4 DEF DeleteIncidentsAndIoVariables, Begin, NextStatement, EndOfStatements,
       Removing, InTransaction
  <2>3. \A q \in Requests \ {r} : pc'[q] = pc[q] /\ todo'[q] = todo[q]
    BY <1>4 DEF DeleteIncidentsAndIoVariables, Begin, NextStatement, EndOfStatements
  <2>4. QED
    BY <2>1, <2>2, <2>3 DEF Removing, InTransaction
<1>5. CASE DeleteNextRow(r)
  BY <1>5 DEF DeleteNextRow, DeleteRow, InStatement, engineVars, VidTypeOK, Removing, InTransaction
<1>6. CASE StatementFails(r)
  BY <1>6, MovesOfAbort DEF StatementFails
<1>7. CASE RemoveOld(r)
  <2>1. shardOf[req[r].user] \in Shards
    BY <1>7 DEF RemoveOld, EngineTypeOK
  <2>2. \A d \in Dids : engine[d] # "unborn" <=> engine'[d] # "unborn"
    BY <1>7, <2>1, StatesAreNotShards DEF RemoveOld, RemoveProcess, RemoveProcessFails, Erased,
       EngineTypeOK, engineVars
  <2>3. QED
    BY <1>7, <2>2 DEF RemoveOld, vidVars, Removing, InTransaction
<1>8. CASE CommitRemoval(r) \/ RollbackRemoval(r)
  BY <1>8 DEF CommitRemoval, RollbackRemoval, Commit, Rollback, Returned, VidTypeOK,
     engineVars, Removing, InTransaction
<1>9. CASE Create(r) \/ CreatePlaceholder(r)
  <2>1. rows' = rows /\ locked' = locked /\ old' = old /\ todo' = todo
    BY <1>9 DEF Create, CreatePlaceholder, vidVars
  <2>2. req[r].new \in Dids /\ req[r].user \in Users
    BY <1>9 DEF Create, CreatePlaceholder, Deploying
  <2>3. CASE CreateDeployment(req[r].user, req[r].new)
    <3>1. shardOf[req[r].user] \in Shards
      BY <2>2 DEF EngineTypeOK
    <3>2. engine'[req[r].new] # "unborn"
      BY <2>2, <2>3, <3>1, StatesAreNotShards DEF CreateDeployment, EngineTypeOK
    <3>3. \A d \in Dids : engine[d] # "unborn" => engine'[d] # "unborn"
      BY <2>3, <3>2 DEF CreateDeployment, EngineTypeOK
    <3>4. \A d \in Dids : engine[d] = "unborn" => engine'[d] = "unborn" \/ d = req[r].new
      BY <2>3 DEF CreateDeployment, EngineTypeOK
    <3>5. ASSUME engine[req[r].new] = "unborn", Unsaved(r)' PROVE Created(r)'
      <4>1. engine' # engine
        BY <3>2, <3>5
      <4>2. pc'[r] \in {Deployed(r), "error"}
        BY <1>9, <4>1 DEF Create, CreatePlaceholder, CreateFails, engineVars
      <4>3. QED
        BY <3>5, <4>2 DEF Deployed
    <3>6. QED
      BY <1>9, <2>1, <2>2, <3>2, <3>3, <3>4, <3>5 DEF Create, CreatePlaceholder, CreateFails,
         Deployed, Removing, InTransaction
  <2>4. CASE UNCHANGED engineVars
    BY <1>9, <2>1, <2>3, <2>4 DEF Create, CreatePlaceholder, CreateFails, Deployed, engineVars,
       Removing, InTransaction
  <2>5. QED
    BY <1>9, <2>3, <2>4 DEF Create, CreatePlaceholder, CreateFails
<1>10. CASE FindDefinitions(r) \/ SetHandler(r)
  <2>1. rows' = rows /\ locked' = locked /\ engine' = engine
    BY <1>1, <1>10 DEF FindDefinitions, SetHandler
  <2>2. pc'[r] \in {"save", "handlers", "compensate"}
    BY <1>10 DEF FindDefinitions, SetHandler, HandlerDone
  <2>3. QED
    BY <1>10, <2>1, <2>2 DEF FindDefinitions, SetHandler, HandlerDone, Removing, InTransaction
<1>11. CASE Save(r)
  BY <1>11 DEF Save, SaveVidRelation, OwnRow, vidVars, engineVars, Removing, InTransaction
<1>12. CASE Compensate(r)
  BY <1>12 DEF Compensate, RemoveProcess, RemoveProcessFails, Erased, EngineTypeOK, vidVars,
     engineVars, Removing, InTransaction
<1>13. CASE Answer(r)
  BY <1>1, <1>13 DEF Answer, Removing, InTransaction
<1>14. QED
  BY <1>2, <1>3, <1>4, <1>5, <1>6, <1>7, <1>8, <1>9, <1>10, <1>11, <1>12, <1>13 DEF Handle

(***************************************************************************)
(* The parts of the invariant that speak about ids are kept by every step  *)
(* that Moves describes and that leaves the requests as they are.          *)
(***************************************************************************)

\* A relation that appears is the one of r, whose id nobody else has.
LEMMA AddedRow ==
  ASSUME IndInv, NEW r \in Requests, Moves(r), NEW x \in rows' \ rows
  PROVE  /\ x = OwnRow(r) /\ At(r, "save")
         /\ x.did = req[r].new /\ req[r].new \in Dids
         /\ engine[x.did] # "unborn" /\ x.did \notin RelatedDids
         /\ Unsaved(r)
<1>1. x = OwnRow(r) /\ At(r, "save")
  BY DEF Moves
<1>2. req[r].new \in Dids
  BY <1>1 DEF IndInv, TypeOK, ControllerTypeOK, At, Deploying
<1>3. Unsaved(r) /\ Created(r)
  BY <1>1 DEF At, Unsaved, Created
<1>4. QED
  BY <1>1, <1>2, <1>3, NoneAssumption DEF OwnRow, IndInv, NewIds

LEMMA KeepsNewIds ==
  ASSUME IndInv, NEW r \in Requests, Moves(r), UNCHANGED req
  PROVE  NewIds'
<1> SUFFICES ASSUME NEW p \in Requests, req[p].new # None
             PROVE  /\ \A q \in Requests \ {p} : req[q].new # req[p].new
                    /\ Unsaved(p)' => req[p].new \notin RelatedDids'
                    /\ Created(p)' => engine'[req[p].new] # "unborn"
                    /\ Unsaved(p)' /\ ~Created(p)' => engine'[req[p].new] = "unborn"
  BY DEF NewIds
<1>1. req[p].new \in Dids
  BY DEF IndInv, TypeOK, ControllerTypeOK, Request
<1>2. \A q \in Requests \ {p} : req[q].new # req[p].new
  BY DEF IndInv, NewIds
<1>3. ASSUME Unsaved(p)' PROVE req[p].new \notin RelatedDids'
  <2>1. Unsaved(p) /\ (p = r => rows' \subseteq rows)
    BY <1>3 DEF Moves, Unsaved
  <2>2. req[p].new \notin RelatedDids
    BY <2>1 DEF IndInv, NewIds
  <2>3. \A x \in rows' \ rows : x.did # req[p].new
    BY <1>2, <2>1, AddedRow
  <2>4. QED
    BY <2>2, <2>3 DEF RelatedDids
<1>4. ASSUME Created(p)' PROVE engine'[req[p].new] # "unborn"
  <2>1. CASE Created(p)
    BY <1>1, <2>1 DEF IndInv, NewIds, Moves
  <2>2. CASE ~Created(p)
    BY <1>4, <2>2 DEF Moves, Created
  <2>3. QED
    BY <2>1, <2>2
<1>5. ASSUME Unsaved(p)', ~Created(p)' PROVE engine'[req[p].new] = "unborn"
  <2>1. Unsaved(p) /\ ~Created(p)
    BY <1>5 DEF Moves, Unsaved, Created
  <2>2. engine[req[p].new] = "unborn"
    BY <2>1 DEF IndInv, NewIds
  <2>3. QED
    BY <1>1, <1>2, <1>5, <2>2 DEF Moves
<1>6. QED
  BY <1>2, <1>3, <1>4, <1>5

LEMMA KeepsRelations ==
  ASSUME IndInv, NEW r \in Requests, Moves(r)
  PROVE  Relations'
<1>1. ASSUME NEW x \in rows' PROVE engine'[x.did] # "unborn"
  <2>1. engine[x.did] # "unborn" /\ x.did \in Dids
    BY AddedRow DEF IndInv, Relations, TypeOK, VidTypeOK, Row
  <2>2. QED
    BY <2>1 DEF Moves
<1>2. ASSUME NEW x \in rows', NEW y \in rows', x.did = y.did PROVE x = y
  <2>1. CASE x \in rows /\ y \in rows
    BY <1>2, <2>1 DEF IndInv, Relations, OneVidPerDeployment
  <2>2. CASE x \notin rows /\ y \notin rows
    BY <2>2, AddedRow
  <2>3. CASE x \in rows /\ y \notin rows
    BY <1>2, <2>3, AddedRow DEF RelatedDids
  <2>4. CASE x \notin rows /\ y \in rows
    BY <1>2, <2>4, AddedRow DEF RelatedDids
  <2>5. QED
    BY <2>1, <2>2, <2>3, <2>4
<1>3. QED
  BY <1>1, <1>2 DEF Relations, OneVidPerDeployment

LEMMA KeepsOldIds ==
  ASSUME IndInv, NEW r \in Requests, Moves(r), UNCHANGED req
  PROVE  OldIds'
<1> SUFFICES ASSUME NEW p \in Requests, pc'[p] \in Removing
             PROVE  /\ engine'[old'[p]] # "unborn"
                    /\ \A q \in Requests : Unsaved(q)' => req[q].new # old'[p]
                    /\ \A x \in rows' : x.did = old'[p] => x.vid = req[p].vid
  BY DEF OldIds, RowsOfDid
<1>1. \A q \in Requests : Unsaved(q)' => Unsaved(q)
  BY DEF Moves, Unsaved
<1>2. CASE pc[p] \in Removing /\ old'[p] = old[p]
  <2>1. /\ engine[old[p]] # "unborn" /\ old[p] \in Dids
        /\ \A q \in Requests : Unsaved(q) => req[q].new # old[p]
        /\ \A x \in rows : x.did = old[p] => x.vid = req[p].vid
    BY <1>2 DEF IndInv, OldIds, RowsOfDid, TypeOK, ControllerTypeOK
  <2>2. \A x \in rows' \ rows : x.did # old[p]
    BY <2>1, AddedRow
  <2>3. QED
    BY <1>1, <1>2, <2>1, <2>2 DEF Moves
<1>3. CASE p = r /\ At(r, "lookup") /\ old'[r] \in GetDeploymentId(req[r].vid)
  <2>1. PICK x \in rows : x.vid = req[r].vid /\ x.did = old'[r]
    BY <1>3 DEF GetDeploymentId, RowsOfVid
  <2>2. x.did \in Dids /\ engine[x.did] # "unborn" /\ x.did \in RelatedDids
    BY DEF RelatedDids, IndInv, Relations, TypeOK, VidTypeOK, Row
  <2>3. engine'[old'[r]] # "unborn"
    BY <2>1, <2>2 DEF Moves
  <2>4. \A q \in Requests : Unsaved(q) => req[q].new # x.did
    BY <2>2, NoneAssumption DEF IndInv, NewIds
  <2>5. rows' \subseteq rows
    BY <1>3 DEF Moves, At
  <2>6. \A y \in rows : y.did = x.did => y = x
    BY DEF IndInv, Relations, OneVidPerDeployment
  <2>7. QED
    BY <1>1, <1>3, <2>1, <2>3, <2>4, <2>5, <2>6
<1>4. QED
  BY <1>2, <1>3 DEF Moves

LEMMA KeepsTransactions ==
  ASSUME IndInv, NEW r \in Requests, Moves(r), UNCHANGED req, OwnTransaction(r)'
  PROVE  Transactions'
<1> SUFFICES ASSUME NEW q \in Requests \ {r} PROVE OwnTransaction(q)'
  BY DEF Transactions
<1>1. OwnTransaction(q)
  BY DEF IndInv, Transactions
<1>2. /\ pc'[q] = pc[q] /\ old'[q] = old[q] /\ todo'[q] = todo[q] /\ locked'[q] = locked[q]
  BY DEF Moves
<1>3. pc[q] \in InTransaction => \A x \in rows' \ rows : x.did # old[q]
  BY AddedRow DEF IndInv, OldIds, Removing
<1>4. QED
  BY <1>1, <1>2, <1>3 DEF OwnTransaction, InStatement, At, RowsOfDid

LEMMA KeepsScan ==
  ASSUME IndInv, NEW r \in Requests, Moves(r), UNCHANGED <<req, aged, tool>>
  PROVE  Scan'
<1>1. \A d \in aged : d \in Dids /\ engine[d] # "unborn" /\ ~InHands(d)
  BY DEF IndInv, Scan, TypeOK, EngineTypeOK
<1>2. \A d \in aged : engine'[d] # "unborn" /\ ~InHands(d)'
  BY <1>1 DEF Moves, InHands
<1>3. \A d \in aged : d \notin RelatedDids => d \notin RelatedDids'
  BY <1>1, AddedRow DEF RelatedDids, InHands
<1>4. QED
  BY <1>2, <1>3 DEF IndInv, Scan

(***************************************************************************)
(* A handler keeps its own transaction in order.                           *)
(***************************************************************************)
LEMMA OwnTransactionOfAbort ==
  ASSUME IndInv, NEW r \in Requests, pc[r] \in Removing, Abort(r)
  PROVE  OwnTransaction(r)'
BY DEF IndInv, TypeOK, VidTypeOK, ControllerTypeOK, Abort, Rollback, Goto, OwnTransaction,
   InTransaction, InStatement

LEMMA OwnTransactionOfHandle ==
  ASSUME IndInv, NEW r \in Requests, Handle(r), UNCHANGED req
  PROVE  OwnTransaction(r)'
<1> USE DEF Goto, At, locals
<1>1. /\ OwnTransaction(r)
      /\ locked \in [Requests -> SUBSET Row] /\ todo \in [Requests -> SUBSET Row]
      /\ pc \in [Requests -> Control] /\ rows \subseteq Row
  BY DEF IndInv, Transactions, TypeOK, VidTypeOK, ControllerTypeOK
<1>2. ASSUME rows' = rows, locked' = locked, todo' = todo, pc[r] \notin InTransaction,
             pc'[r] \notin InTransaction
      PROVE  OwnTransaction(r)'
  BY <1>1, <1>2 DEF OwnTransaction, InStatement, InTransaction
<1>3. ASSUME UNCHANGED <<vidVars, locals>>
      PROVE  rows' = rows /\ locked' = locked /\ todo' = todo /\ old' = old
  BY <1>3 DEF vidVars
<1>4. CASE CheckExisting(r) \/ DeleteIncidentsAndIoVariables(r) \/ Compensate(r)
             \/ Create(r) \/ CreatePlaceholder(r)
  <2>1. pc'[r] \in Control \ InTransaction /\ pc[r] \notin InTransaction
    BY <1>1, <1>4 DEF CheckExisting, DeleteIncidentsAndIoVariables, Compensate, Create,
       CreatePlaceholder, CreateFails, Deployed, Control, InTransaction, Removing, Deploying
  <2>2. UNCHANGED <<vidVars, locals>>
    BY <1>4 DEF CheckExisting, DeleteIncidentsAndIoVariables, Compensate, Create,
       CreatePlaceholder
  <2>3. QED
    BY <1>2, <1>3, <2>1, <2>2
<1>5. CASE Lookup(r) \/ FindDefinitions(r) \/ SetHandler(r) \/ Answer(r)
  <2>1. pc'[r] \notin InTransaction /\ pc[r] \notin InTransaction
    BY <1>1, <1>5 DEF Lookup, FindDefinitions, SetHandler, HandlerDone, Answer, Returned,
       InTransaction
  <2>2. rows' = rows /\ locked' = locked /\ todo' = todo
    BY <1>5 DEF Lookup, FindDefinitions, SetHandler, Answer, vidVars
  <2>3. QED
    BY <1>2, <2>1, <2>2
<1>6. CASE Begin(r)
  <2>1. /\ rows' = rows /\ locked' = locked /\ old' = old
        /\ \/ pc'[r] = "byDid" /\ todo'[r] = RowsOfDid(old[r])
           \/ pc'[r] = "error" /\ todo'[r] = todo[r]
    BY <1>1, <1>6 DEF Begin, vidVars
  <2>2. \A x \in RowsOfDid(old[r]) : x.vid = req[r].vid
    BY <1>6 DEF Begin, IndInv, OldIds, Removing
  <2>3. locked[r] = {} /\ todo[r] = {}
    BY <1>1, <1>6 DEF Begin, OwnTransaction, InStatement, InTransaction
  <2>4. QED
    BY <2>1, <2>2, <2>3 DEF OwnTransaction, InStatement, InTransaction, RowsOfDid
<1>7. CASE DeleteNextRow(r)
  <2>1. PICK x \in todo[r] : DeleteRow(r, x) /\ todo' = [todo EXCEPT ![r] = @ \ {x}]
    BY <1>7 DEF DeleteNextRow
  <2>2. /\ rows' = rows /\ old' = old /\ pc' = pc
        /\ locked'[r] = locked[r] \cup ({x} \cap rows)
        /\ todo'[r] = todo[r] \ {x}
    BY <1>1, <1>7, <2>1 DEF DeleteNextRow, DeleteRow
  <2>3. pc[r] \in InTransaction /\ InStatement(r)
    BY <1>7 DEF DeleteNextRow, InStatement, InTransaction
  <2>4. QED
    BY <1>1, <2>2, <2>3 DEF OwnTransaction, InStatement, RowsOfDid
<1>8. CASE NextStatement(r)
  <2>1. /\ rows' = rows /\ old' = old /\ locked' = locked /\ todo[r] = {}
        /\ pc[r] = "byDid" /\ pc'[r] = "byVid" /\ todo'[r] = RowsOfVid(req[r].vid)
    BY <1>1, <1>8 DEF NextStatement, vidVars
  <2>2. QED
    BY <1>1, <2>1 DEF OwnTransaction, InStatement, InTransaction, RowsOfDid, RowsOfVid
<1>9. CASE EndOfStatements(r)
  <2>1. UNCHANGED <<vidVars, locals>> /\ todo[r] = {} /\ pc[r] = "byVid" /\ pc'[r] = "remove"
    BY <1>1, <1>9 DEF EndOfStatements
  <2>2. QED
    BY <1>1, <1>3, <2>1 DEF OwnTransaction, InStatement, InTransaction, RowsOfDid
<1>10. CASE StatementFails(r)
  BY <1>10, OwnTransactionOfAbort DEF StatementFails, InStatement, Removing, InTransaction
<1>11. CASE RemoveOld(r)
  <2>1. UNCHANGED <<vidVars, locals>> /\ pc[r] = "remove" /\ pc'[r] \in {"commit", "rollback"}
    BY <1>1, <1>11 DEF RemoveOld
  <2>2. QED
    BY <1>1, <1>3, <2>1 DEF OwnTransaction, InStatement, InTransaction, RowsOfDid
<1>12. CASE CommitRemoval(r) \/ RollbackRemoval(r)
  <2>1. locked'[r] = {} /\ todo' = todo
    BY <1>1, <1>12 DEF CommitRemoval, RollbackRemoval, Commit, Rollback
  <2>2. pc[r] \in {"commit", "rollback"} /\ pc'[r] \in {"create", "ok", "error"}
    BY <1>1, <1>12 DEF CommitRemoval, RollbackRemoval, Returned
  <2>3. QED
    BY <1>1, <2>1, <2>2 DEF OwnTransaction, InStatement, InTransaction
<1>13. CASE Save(r)
  <2>1. locked' = locked /\ todo' = todo
    BY <1>13 DEF Save, SaveVidRelation, vidVars
  <2>2. pc[r] = "save" /\ pc'[r] \in {"ok", "compensate"}
    BY <1>1, <1>13 DEF Save
  <2>3. QED
    BY <1>1, <2>1, <2>2 DEF OwnTransaction, InStatement, InTransaction
<1>14. QED
  BY <1>4, <1>5, <1>6, <1>7, <1>8, <1>9, <1>10, <1>11, <1>12, <1>13 DEF Handle

(***************************************************************************)
(* The steps one by one.                                                   *)
(***************************************************************************)
LEMMA InvOfMove ==
  ASSUME IndInv, TypeOK', NEW r \in Requests, Moves(r), OwnTransaction(r)',
         UNCHANGED <<req, aged, tool>>
  PROVE  IndInv'
BY KeepsNewIds, KeepsRelations, KeepsOldIds, KeepsTransactions, KeepsScan DEF IndInv

\* The engine calls of a handler do not make anything older.
LEMMA AgeOfHandle ==
  ASSUME NEW r \in Requests, Handle(r)
  PROVE  aged' = aged
BY DEF Handle, At, CheckExisting, Lookup, DeleteIncidentsAndIoVariables, Begin,
   DeleteNextRow, NextStatement, EndOfStatements, StatementFails, Abort, RemoveOld,
   RemoveProcess, RemoveProcessFails, CommitRemoval, RollbackRemoval, Create,
   CreatePlaceholder, CreateFails, CreateDeployment, FindDefinitions, SetHandler, Save,
   Compensate, Answer, InStatement, engineVars

LEMMA InvAnswer ==
  ASSUME IndInv, TypeOK', NEW r \in Requests, Answer(r), UNCHANGED tool
  PROVE  IndInv'
<1> USE DEF At, Goto
<1>1. /\ rows' = rows /\ locked' = locked /\ engine' = engine /\ aged' = aged
      /\ todo' = todo /\ tool' = tool
  BY DEF Answer, vidVars, engineVars
<1>2. \A q \in Requests \ {r} : req'[q] = req[q] /\ pc'[q] = pc[q] /\ old'[q] = old[q]
  BY DEF Answer, IndInv, TypeOK, ControllerTypeOK
<1>3. req'[r].new = None /\ pc'[r] = "idle" /\ pc[r] \in {"ok", "error"}
  BY DEF Answer, NoRequest, IndInv, TypeOK, ControllerTypeOK
<1>4. NewIds'
  <2> SUFFICES ASSUME NEW p \in Requests, req'[p].new # None
               PROVE  /\ \A q \in Requests \ {p} : req'[q].new # req'[p].new
                      /\ Unsaved(p)' => req'[p].new \notin RelatedDids'
                      /\ Created(p)' => engine'[req'[p].new] # "unborn"
                      /\ Unsaved(p)' /\ ~Created(p)' => engine'[req'[p].new] = "unborn"
    BY DEF NewIds
  <2>1. /\ p # r /\ req'[p].new = req[p].new /\ pc'[p] = pc[p]
    BY <1>2, <1>3
  <2>2. \A q \in Requests \ {p} : req'[q].new # req'[p].new
    BY <1>2, <1>3, <2>1 DEF IndInv, NewIds
  <2>3. QED
    BY <1>1, <2>1, <2>2 DEF IndInv, NewIds, Unsaved, Created, RelatedDids
<1>5. Relations'
  BY <1>1 DEF IndInv, Relations, OneVidPerDeployment
<1>6. OldIds'
  <2> SUFFICES ASSUME NEW p \in Requests, pc'[p] \in Removing
               PROVE  /\ engine'[old'[p]] # "unborn"
                      /\ \A q \in Requests : Unsaved(q)' => req'[q].new # old'[p]
                      /\ \A x \in rows' : x.did = old'[p] => x.vid = req'[p].vid
    BY DEF OldIds, RowsOfDid
  <2>1. p # r
    BY <1>3 DEF Removing, InTransaction
  <2>2. \A q \in Requests : Unsaved(q)' => q # r /\ Unsaved(q)
    BY <1>2, <1>3 DEF Unsaved
  <2>3. QED
    BY <1>1, <1>2, <2>1, <2>2 DEF IndInv, OldIds, RowsOfDid
<1>7. Transactions'
  <2>1. OwnTransaction(r) /\ locked[r] = {} /\ todo[r] = {}
    BY <1>3 DEF IndInv, Transactions, OwnTransaction, InStatement, InTransaction
  <2>2. OwnTransaction(r)'
    BY <1>1, <1>3, <2>1 DEF OwnTransaction, InTransaction
  <2>3. \A q \in Requests \ {r} : OwnTransaction(q)'
    BY <1>1, <1>2 DEF IndInv, Transactions, OwnTransaction, InStatement, RowsOfDid
  <2>4. QED
    BY <2>2, <2>3 DEF Transactions
<1>8. Scan'
  <2>1. \A d \in Dids : InHands(d)' => InHands(d)
    BY <1>2, <1>3, NoneAssumption DEF InHands
  <2>2. QED
    BY <1>1, <2>1 DEF IndInv, Scan, RelatedDids, TypeOK, EngineTypeOK
<1>9. QED
  BY <1>4, <1>5, <1>6, <1>7, <1>8 DEF IndInv

LEMMA InvHandle ==
  ASSUME IndInv, TypeOK', NEW r \in Requests, Handle(r), UNCHANGED tool
  PROVE  IndInv'
<1>1. CASE Answer(r)
  BY <1>1, InvAnswer
<1>2. CASE ~Answer(r)
  <2>1. req' = req
    BY <1>2 DEF Handle, CheckExisting, Lookup, DeleteIncidentsAndIoVariables, Begin,
       DeleteNextRow, NextStatement, EndOfStatements, StatementFails, Abort, RemoveOld,
       CommitRemoval, RollbackRemoval, Create, CreatePlaceholder, FindDefinitions,
       SetHandler, Save, Compensate
  <2>2. Moves(r)
    BY MovesOfHandle DEF IndInv
  <2>3. OwnTransaction(r)'
    BY <2>1, OwnTransactionOfHandle
  <2>4. QED
    BY <2>1, <2>2, <2>3, AgeOfHandle, InvOfMove
<1>3. QED
  BY <1>1, <1>2

LEMMA InvDeadlockVictim ==
  ASSUME IndInv, TypeOK', NEW r \in Requests, DeadlockVictim(r), UNCHANGED tool
  PROVE  IndInv'
<1>1. pc[r] \in Removing /\ Abort(r)
  BY DEF DeadlockVictim, WaitsFor, InStatement, Removing, InTransaction
<1>2. Moves(r) /\ OwnTransaction(r)'
  BY <1>1, MovesOfAbort, OwnTransactionOfAbort DEF IndInv
<1>3. QED
  BY <1>1, <1>2, InvOfMove DEF Abort, engineVars

\* A new request gets an id no request and no relation has.
LEMMA InvArrive ==
  ASSUME IndInv, TypeOK', NEW r \in Requests, Arrive(r), UNCHANGED tool
  PROVE  IndInv'
<1> USE DEF At, Goto
<1>1. PICK v \in Vids, u \in Users :
        \/ StartDelete(r, v, u)
        \/ \E i \in BOOLEAN, d \in Fresh : StartDeploy(r, v, u, i, d)
  BY DEF Arrive
<1>2. /\ rows' = rows /\ locked' = locked /\ engine' = engine /\ aged' = aged
      /\ old' = old /\ todo' = todo /\ tool' = tool
  BY <1>1 DEF StartDelete, StartDeploy, vidVars, engineVars, locals
<1>3. \A q \in Requests \ {r} : req'[q] = req[q] /\ pc'[q] = pc[q]
  BY <1>1 DEF StartDelete, StartDeploy, IndInv, TypeOK, ControllerTypeOK
<1>4. pc[r] = "idle" /\ pc'[r] \in {"lookup", "exists", "error"}
  BY <1>1 DEF StartDelete, StartDeploy, IndInv, TypeOK, ControllerTypeOK
<1>5. req'[r].new \in Fresh \cup {None}
  BY <1>1 DEF StartDelete, StartDeploy, IndInv, TypeOK, ControllerTypeOK
<1>6. \A d \in Fresh : d \in Dids /\ engine[d] = "unborn" /\ \A q \in Requests : req[q].new # d
  BY DEF Fresh
<1>7. NewIds'
  <2> SUFFICES ASSUME NEW p \in Requests, req'[p].new # None
               PROVE  /\ \A q \in Requests \ {p} : req'[q].new # req'[p].new
                      /\ Unsaved(p)' => req'[p].new \notin RelatedDids'
                      /\ Created(p)' => engine'[req'[p].new] # "unborn"
                      /\ Unsaved(p)' /\ ~Created(p)' => engine'[req'[p].new] = "unborn"
    BY DEF NewIds
  <2>1. \A q \in Requests \ {p} : req'[q].new # req'[p].new
    BY <1>3, <1>5, <1>6 DEF IndInv, NewIds
  <2>2. CASE p = r
    <3>1. req'[r].new \notin RelatedDids
      BY <1>5, <1>6, <2>2 DEF RelatedDids, IndInv, Relations
    <3>2. engine[req'[r].new] = "unborn"
      BY <1>5, <1>6, <2>2
    <3>3. QED
      BY <1>2, <1>4, <2>1, <2>2, <3>1, <3>2 DEF Created, RelatedDids
  <2>3. CASE p # r
    BY <1>2, <1>3, <2>1, <2>3 DEF IndInv, NewIds, Unsaved, Created, RelatedDids
  <2>4. QED
    BY <2>2, <2>3
<1>8. Relations'
  BY <1>2 DEF IndInv, Relations, OneVidPerDeployment
<1>9. OldIds'
  <2> SUFFICES ASSUME NEW p \in Requests, pc'[p] \in Removing
               PROVE  /\ engine'[old'[p]] # "unborn"
                      /\ \A q \in Requests : Unsaved(q)' => req'[q].new # old'[p]
                      /\ \A x \in rows' : x.did = old'[p] => x.vid = req'[p].vid
    BY DEF OldIds, RowsOfDid
  <2>1. p # r
    BY <1>4 DEF Removing, InTransaction
  <2>2. /\ engine[old[p]] # "unborn" /\ old[p] \in Dids
        /\ \A q \in Requests : Unsaved(q) => req[q].new # old[p]
        /\ \A x \in rows : x.did = old[p] => x.vid = req[p].vid
    BY <1>3, <2>1 DEF IndInv, OldIds, RowsOfDid, TypeOK, ControllerTypeOK
  <2>3. req'[r].new # old[p]
    BY <1>5, <1>6, <2>2, NoneAssumption
  <2>4. \A q \in Requests \ {r} : Unsaved(q)' => Unsaved(q)
    BY <1>3 DEF Unsaved
  <2>5. QED
    BY <1>2, <1>3, <2>1, <2>2, <2>3, <2>4
<1>10. Transactions'
  <2>1. OwnTransaction(r) /\ locked[r] = {} /\ todo[r] = {}
    BY <1>4 DEF IndInv, Transactions, OwnTransaction, InStatement, InTransaction
  <2>2. OwnTransaction(r)'
    BY <1>2, <1>4, <2>1 DEF OwnTransaction, InTransaction
  <2>3. \A q \in Requests \ {r} : OwnTransaction(q)'
    BY <1>2, <1>3 DEF IndInv, Transactions, OwnTransaction, InStatement, RowsOfDid
  <2>4. QED
    BY <2>2, <2>3 DEF Transactions
<1>11. Scan'
  <2>1. \A d \in aged : d \in Dids /\ engine[d] # "unborn" /\ ~InHands(d)
    BY DEF IndInv, Scan, TypeOK, EngineTypeOK
  <2>2. \A d \in aged : ~InHands(d)'
    BY <1>3, <1>5, <1>6, <2>1, NoneAssumption DEF InHands
  <2>3. QED
    BY <1>2, <2>1, <2>2 DEF IndInv, Scan, RelatedDids
<1>12. QED
  BY <1>7, <1>8, <1>9, <1>10, <1>11 DEF IndInv

LEMMA InvCrash ==
  ASSUME IndInv, TypeOK', Crash, UNCHANGED tool
  PROVE  IndInv'
<1>1. \A r \in Requests : /\ req'[r] = NoRequest /\ pc'[r] = "idle"
                          /\ todo'[r] = {} /\ locked'[r] = {}
  BY DEF Crash, RollbackAll
<1>2. rows' = rows /\ engine' = engine /\ aged' = aged
  BY DEF Crash, RollbackAll, engineVars
<1>3. NewIds' /\ OldIds'
  BY <1>1 DEF NewIds, OldIds, NoRequest, Removing, InTransaction
<1>4. Relations'
  BY <1>2 DEF IndInv, Relations, OneVidPerDeployment
<1>5. Transactions'
  BY <1>1 DEF Transactions, OwnTransaction, InTransaction
<1>6. Scan'
  BY <1>1, <1>2, NoneAssumption DEF IndInv, Scan, InHands, RelatedDids, NoRequest, TypeOK,
     EngineTypeOK
<1>7. QED
  BY <1>3, <1>4, <1>5, <1>6 DEF IndInv

\* Steps that leave relations and requests alone.
LEMMA InvElsewhere ==
  ASSUME IndInv, TypeOK', UNCHANGED <<vidVars, controllerVars>>,
         \A d \in Dids : engine[d] # "unborn" <=> engine'[d] # "unborn",
         Scan'
  PROVE  IndInv'
<1>1. /\ rows' = rows /\ locked' = locked
      /\ req' = req /\ pc' = pc /\ old' = old /\ todo' = todo
  BY DEF vidVars, controllerVars
<1>2. \A x \in rows : x.did \in Dids
  BY DEF IndInv, TypeOK, VidTypeOK, Row
<1>3. NewIds'
  <2>1. \A r \in Requests : req[r].new # None => req[r].new \in Dids
    BY DEF IndInv, TypeOK, ControllerTypeOK, Request
  <2>2. QED
    BY <1>1, <2>1 DEF IndInv, NewIds, Unsaved, Created, RelatedDids
<1>4. Relations'
  BY <1>1, <1>2 DEF IndInv, Relations, OneVidPerDeployment
<1>5. OldIds'
  BY <1>1 DEF IndInv, OldIds, RowsOfDid, Unsaved, TypeOK, ControllerTypeOK
<1>6. Transactions'
  BY <1>1 DEF IndInv, Transactions, OwnTransaction, InStatement, At, RowsOfDid
<1>7. QED
  BY <1>3, <1>4, <1>5, <1>6 DEF IndInv

\* The cleanup takes only old deployments whose relation it has not read.
LEMMA InvTool ==
  ASSUME IndInv, TypeOK', ToolStep, UNCHANGED controllerVars
  PROVE  IndInv'
<1>1. UNCHANGED vidVars /\ aged' = aged
  BY DEF ToolStep, ReadRelations, ListShard, RemovePid, Stop, engineVars
<1>2. \A d \in Dids : engine[d] # "unborn" <=> engine'[d] # "unborn"
  <2>1. CASE RemovePid
    <3>1. PICK p \in tool.pids : engine' = Erased(p[1], p[2]) \/ UNCHANGED engine
      BY <2>1 DEF RemovePid
    <3>2. p[1] \in Shards
      BY DEF IndInv, TypeOK, CleanupTypeOK, Tool
    <3>3. QED
      BY <3>1, <3>2, StatesAreNotShards DEF Erased, IndInv, TypeOK, EngineTypeOK
  <2>2. CASE ~RemovePid
    BY <2>2 DEF ToolStep, ReadRelations, ListShard, Stop, engineVars
  <2>3. QED
    BY <2>1, <2>2
<1>3. \A d \in aged : d \in Dids /\ engine'[d] # "unborn" /\ ~InHands(d)'
  BY <1>2 DEF IndInv, Scan, TypeOK, EngineTypeOK, InHands, controllerVars
<1>4. RelatedDids' = RelatedDids
  BY <1>1 DEF RelatedDids, vidVars
<1>5. tool \in Tool /\ tool' \in Tool
  BY DEF IndInv, TypeOK, CleanupTypeOK
<1>6. CASE ReadRelations
  <2>1. tool'.pids = tool.pids /\ (~May("read") => tool'.known = RelatedDids)
    BY <1>5, <1>6 DEF ReadRelations, Tool
  <2>2. Scan'
    BY <1>1, <1>3, <1>4, <2>1 DEF IndInv, Scan
  <2>3. QED
    BY <1>1, <1>2, <2>2, InvElsewhere
<1>7. CASE ListShard
  <2>1. PICK s \in tool.left : /\ tool'.known = tool.known /\ tool.pc = "scan"
                              /\ tool'.pids = tool.pids \cup ({s} \X Unlinked(s))
    BY <1>5, <1>7 DEF ListShard, Tool
  <2>2. \A p \in {s} \X Unlinked(s) :
          p[2] \in aged /\ (~May("read") => p[2] \notin RelatedDids)
    BY <2>1 DEF Unlinked, IndInv, Scan
  <2>3. Scan'
    BY <1>1, <1>3, <1>4, <2>1, <2>2 DEF IndInv, Scan
  <2>4. QED
    BY <1>1, <1>2, <2>3, InvElsewhere
<1>8. CASE RemovePid \/ Stop
  <2>1. tool'.pc # "scan" /\ tool'.pids \subseteq tool.pids
    BY <1>5, <1>8 DEF RemovePid, Stop, NoTask, Tool
  <2>2. Scan'
    BY <1>1, <1>3, <1>4, <2>1 DEF IndInv, Scan
  <2>3. QED
    BY <1>1, <1>2, <2>2, InvElsewhere
<1>9. QED
  BY <1>6, <1>7, <1>8 DEF ToolStep

LEMMA InvAge ==
  ASSUME IndInv, TypeOK', NEW d \in Dids, Age(d)
  PROVE  IndInv'
<1>1. /\ UNCHANGED <<vidVars, controllerVars>> /\ engine' = engine /\ tool' = tool
      /\ aged' = aged \cup {d} /\ tool.pc # "scan"
  BY DEF Age
<1>2. engine[d] # "unborn" /\ ~InHands(d)
  BY StatesAreNotShards DEF Age, Running, InHands
<1>3. Scan'
  BY <1>1, <1>2 DEF IndInv, Scan, InHands, RelatedDids, vidVars, controllerVars
<1>4. QED
  BY <1>1, <1>3, InvElsewhere

LEMMA InvEnvironment ==
  ASSUME IndInv, TypeOK', Environment
  PROVE  IndInv'
<1>1. /\ UNCHANGED <<vidVars, controllerVars>> /\ aged' = aged /\ tool' = tool
  BY DEF Environment, LateDelete, Remap
<1>2. \A d \in Dids : engine[d] # "unborn" <=> engine'[d] # "unborn"
  BY StatesAreNotShards DEF Environment, LateDelete, Remap, Erased, IndInv, TypeOK, EngineTypeOK
<1>3. Scan'
  BY <1>1, <1>2 DEF IndInv, Scan, InHands, RelatedDids, vidVars, controllerVars, TypeOK,
     EngineTypeOK
<1>4. QED
  BY <1>1, <1>2, <1>3, InvElsewhere

LEMMA InvStep ==
  ASSUME IndInv, [Next]_vars
  PROVE  IndInv'
<1>1. TypeOK'
  BY TypeStep DEF IndInv
<1>2. ASSUME NEW r \in Requests, RequestStep(r) PROVE IndInv'
  BY <1>1, <1>2, InvHandle, InvArrive, InvDeadlockVictim DEF RequestStep
<1>3. CASE Crash /\ UNCHANGED tool
  BY <1>1, <1>3, InvCrash
<1>4. CASE ToolStep /\ UNCHANGED controllerVars
  BY <1>1, <1>4, InvTool
<1>5. ASSUME NEW d \in Dids, Age(d) PROVE IndInv'
  BY <1>1, <1>5, InvAge
<1>6. CASE Environment
  BY <1>1, <1>6, InvEnvironment
<1>7. CASE UNCHANGED vars
  <2>1. UNCHANGED <<vidVars, controllerVars>> /\ engine' = engine /\ aged' = aged /\ tool' = tool
    BY <1>7 DEF vars, engineVars
  <2>2. Scan'
    BY <2>1 DEF IndInv, Scan, InHands, RelatedDids, vidVars, controllerVars
  <2>3. QED
    BY <1>1, <2>1, <2>2, InvElsewhere
<1>8. QED
  BY <1>2, <1>3, <1>4, <1>5, <1>6, <1>7 DEF Next

LEMMA InvInit ==
  ASSUME Init PROVE IndInv
<1>1. TypeOK
  BY NoneAssumption, StatesAreNotShards DEF Init, TypeOK, VidInit, VidTypeOK, EngineInit,
     EngineTypeOK, ControllerInit, ControllerTypeOK, CleanupInit, CleanupTypeOK, Tool,
     NoTask, NoRequest, Request, Control, Removing, Deploying, InTransaction
<1>2. rows = {} /\ aged = {} /\ tool = NoTask
  BY DEF Init, VidInit, EngineInit, CleanupInit
<1>3. \A r \in Requests : /\ req[r] = NoRequest /\ pc[r] = "idle"
                          /\ todo[r] = {} /\ locked[r] = {}
  BY DEF Init, VidInit, ControllerInit
<1>4. NewIds /\ OldIds /\ Transactions
  BY <1>3 DEF NewIds, OldIds, Transactions, OwnTransaction, NoRequest, Removing, InTransaction
<1>5. Relations /\ Scan
  BY <1>2 DEF Relations, OneVidPerDeployment, Scan, NoTask
<1>6. QED
  BY <1>1, <1>4, <1>5 DEF IndInv

\* The invariant every other theorem follows from.
THEOREM Invariance == Spec => []IndInv
<1>1. Init => IndInv
  BY InvInit
<1>2. IndInv /\ [Next]_vars => IndInv'
  BY InvStep
<1>3. QED
  BY <1>1, <1>2, PTL DEF Spec

(***************************************************************************)
(* What follows.                                                           *)
(***************************************************************************)

\* A deployment id never stands for two vids, though the table has no
\* uniqueness constraint and any requests may overlap.
THEOREM DeploymentIdsAreUnambiguous == Spec => []OneVidPerDeployment
<1>1. IndInv => OneVidPerDeployment
  BY DEF IndInv, Relations
<1>2. QED
  BY <1>1, Invariance, PTL

\* The list of unlinked deployments the operator works off never contains
\* one that has a relation or can still get one, although the tool reads
\* relations and shards at different moments while requests are handled; it
\* has to read all of the relations, however.
THEOREM CleanupIsSafe ==
  ASSUME ~May("read")
  PROVE  Spec => []CleanupSparesDeployments
<1>1. IndInv => CleanupSparesDeployments
  BY DEF IndInv, Scan, CleanupSparesDeployments
<1>2. QED
  BY <1>1, Invariance, PTL

\* Whatever fails in DeleteDeployment, its transaction is closed when the
\* handler answers.
THEOREM TransactionsEnd == Spec => []NoLeakedTransaction
<1>1. IndInv => NoLeakedTransaction
  BY DEF IndInv, Transactions, OwnTransaction, NoLeakedTransaction
<1>2. QED
  BY <1>1, Invariance, PTL

\* What a step can do to the relations: only the COMMIT of a removal takes
\* any away.
LEMMA RowsLost ==
  ASSUME IndInv, [Next]_vars, NEW x \in rows \ rows'
  PROVE  \E r \in Requests : At(r, "commit") /\ x \in locked[r]
<1>1. ASSUME UNCHANGED vidVars PROVE FALSE
  BY <1>1 DEF vidVars
<1>2. ASSUME NEW r \in Requests, Abort(r) PROVE FALSE
  BY <1>2 DEF Abort, Rollback
<1>3. ASSUME NEW r \in Requests, Handle(r) PROVE At(r, "commit") /\ x \in locked[r]
  BY <1>1, <1>2, <1>3 DEF Handle, CheckExisting, Lookup, DeleteIncidentsAndIoVariables, Begin,
     DeleteNextRow, DeleteRow, NextStatement, EndOfStatements, StatementFails, RemoveOld,
     CommitRemoval, RollbackRemoval, Commit, Rollback, Create, CreatePlaceholder,
     FindDefinitions, SetHandler, Save, SaveVidRelation, Compensate, Answer
<1>4. ASSUME NEW r \in Requests, Arrive(r) PROVE FALSE
  BY <1>1, <1>4 DEF Arrive, StartDelete, StartDeploy
<1>5. ASSUME NEW r \in Requests, RequestStep(r)
      PROVE  \E q \in Requests : At(q, "commit") /\ x \in locked[q]
  BY <1>2, <1>3, <1>4, <1>5 DEF RequestStep, DeadlockVictim
<1>6. CASE Crash
  BY <1>6 DEF Crash, RollbackAll
<1>7. CASE ToolStep
  BY <1>1, <1>7 DEF ToolStep, ReadRelations, ListShard, RemovePid, Stop
<1>8. CASE (\E d \in Dids : Age(d)) \/ Environment \/ UNCHANGED vars
  BY <1>1, <1>8 DEF Age, Environment, vars
<1>9. QED
  BY <1>5, <1>6, <1>7, <1>8 DEF Next

\* A request unlinks deployments of its own vid only.
THEOREM OnlyOwnRelationsAreRemoved == Spec => UnlinkedByOwnRequest
<1>1. IndInv /\ [Next]_vars =>
        \A x \in rows \ rows' : \E r \in Requests : At(r, "commit") /\ req[r].vid = x.vid
  BY RowsLost DEF IndInv, Transactions, OwnTransaction
<1>2. QED
  BY <1>1, Invariance, PTL DEF Spec, UnlinkedByOwnRequest

\* What a step can do to the process of a relation.
LEMMA ProcessLost ==
  ASSUME ~May("read"), IndInv, [Next]_vars,
         NEW x \in rows, Running(x.did), engine'[x.did] = "gone"
  PROVE  \/ \E r \in Requests : x \in locked[r] /\ At(r, "remove")
         \/ \E r \in Requests : At(r, "compensate") /\ req[r].new = x.did
         \/ \E s \in Shards : <<s, x.did>> \in lateDeletes
<1> DEFINE Goal == \/ \E r \in Requests : x \in locked[r] /\ At(r, "remove")
                   \/ \E r \in Requests : At(r, "compensate") /\ req[r].new = x.did
                   \/ \E s \in Shards : <<s, x.did>> \in lateDeletes
<1>1. x.did \in Dids /\ engine[x.did] \in Shards /\ engine[x.did] # "gone"
  BY StatesAreNotShards DEF Running, IndInv, TypeOK, VidTypeOK, Row
<1>2. engine' # engine
  BY <1>1
<1>3. ASSUME NEW s, NEW d, engine' = Erased(s, d) PROVE d = x.did
  BY <1>1, <1>3 DEF Erased, IndInv, TypeOK, EngineTypeOK
<1>4. ASSUME NEW r \in Requests, RemoveOld(r) PROVE Goal
  <2>1. old[r] = x.did /\ At(r, "remove")
    BY <1>2, <1>3, <1>4 DEF RemoveOld, RemoveProcess, RemoveProcessFails, engineVars
  <2>2. x \in locked[r]
    BY <2>1 DEF IndInv, Transactions, OwnTransaction, InTransaction, At, RowsOfDid
  <2>3. QED
    BY <2>1, <2>2
<1>5. ASSUME NEW r \in Requests, Compensate(r) PROVE Goal
  BY <1>2, <1>3, <1>5 DEF Compensate, RemoveProcess, RemoveProcessFails, engineVars
<1>6. ASSUME NEW r \in Requests, Create(r) \/ CreatePlaceholder(r) PROVE FALSE
  <2>1. pc[r] \in Deploying
    BY <1>6 DEF Create, CreatePlaceholder, At, Deploying
  <2>2. req[r].user \in Users
    BY <2>1 DEF IndInv, TypeOK, ControllerTypeOK, Deploying
  <2>3. shardOf[req[r].user] # "gone"
    BY <2>2, StatesAreNotShards DEF IndInv, TypeOK, EngineTypeOK
  <2>4. CreateDeployment(req[r].user, req[r].new)
    BY <1>2, <1>6 DEF Create, CreatePlaceholder, CreateFails, engineVars
  <2>5. QED
    BY <1>1, <2>3, <2>4 DEF CreateDeployment, IndInv, TypeOK, EngineTypeOK
<1>7. ASSUME NEW r \in Requests, Handle(r) PROVE Goal
  BY <1>2, <1>4, <1>5, <1>6, <1>7 DEF Handle, CheckExisting, Lookup,
     DeleteIncidentsAndIoVariables, Begin, DeleteNextRow, NextStatement, EndOfStatements,
     StatementFails, Abort, CommitRemoval, RollbackRemoval, FindDefinitions, SetHandler,
     Save, Answer, engineVars
<1>8. ASSUME NEW r \in Requests, RequestStep(r) PROVE Goal
  BY <1>2, <1>7, <1>8 DEF RequestStep, Arrive, StartDelete, StartDeploy, DeadlockVictim,
     Abort, engineVars
<1>9. CASE ToolStep
  <2>1. PICK p \in tool.pids : engine' = Erased(p[1], p[2])
    BY <1>2, <1>9 DEF ToolStep, ReadRelations, ListShard, RemovePid, Stop, engineVars
  <2>2. p[2] = x.did
    BY <1>3, <2>1
  <2>3. QED
    BY <2>2 DEF IndInv, Scan, RelatedDids
<1>10. CASE Environment
  <2>1. PICK p \in lateDeletes : engine' = Erased(p[1], p[2])
    BY <1>2, <1>10 DEF Environment, LateDelete, Remap
  <2>2. p[2] = x.did /\ p = <<p[1], p[2]>> /\ p[1] \in Shards
    BY <1>3, <2>1 DEF IndInv, TypeOK, EngineTypeOK
  <2>3. QED
    BY <2>2
<1>11. CASE Crash \/ (\E d \in Dids : Age(d)) \/ UNCHANGED vars
  BY <1>2, <1>11 DEF Crash, Age, vars, engineVars
<1>12. QED
  BY <1>8, <1>9, <1>10, <1>11 DEF Next

\* While somebody reads a relation that is there to stay, its process runs:
\* the handler that removes the process holds the relation in its transaction.
\* The cleanup keeps to that when it has read all of the relations.
THEOREM ProcessesAreRemovedUnderLock ==
  ASSUME ~May("read")
  PROVE  Spec => RemovedUnderLock
<1>1. IndInv /\ [Next]_vars =>
        \A x \in rows :
          Running(x.did) /\ engine'[x.did] = "gone" =>
            \/ \E r \in Requests : x \in locked[r] /\ At(r, "remove")
            \/ \E r \in Requests : At(r, "compensate") /\ req[r].new = x.did
            \/ \E s \in Shards : <<s, x.did>> \in lateDeletes
  BY ProcessLost
<1>2. QED
  BY <1>1, Invariance, PTL DEF Spec, RemovedUnderLock

(***************************************************************************)
(* The life of a deployment: the engine never takes up an id again, and a  *)
(* deployment stays on the shard it was created on.                        *)
(***************************************************************************)
Lives == \A d \in Dids : engine[d] # "unborn" => engine'[d] \in {engine[d], "gone"}

LEMMA LivesWhenErased ==
  ASSUME TypeOK, NEW s, NEW d, engine' = Erased(s, d)
  PROVE  Lives
BY DEF TypeOK, EngineTypeOK, Erased, Lives

LEMMA LivesInHandler ==
  ASSUME IndInv, NEW r \in Requests, Handle(r)
  PROVE  Lives
<1>1. ASSUME UNCHANGED engineVars PROVE Lives
  BY <1>1 DEF engineVars, Lives
<1>2. CASE RemoveOld(r) \/ Compensate(r)
  <2>1. UNCHANGED engine \/ \E d : engine' = Erased(shardOf[req[r].user], d)
    BY <1>2 DEF RemoveOld, Compensate, RemoveProcess, RemoveProcessFails, engineVars
  <2>2. QED
    BY <2>1, LivesWhenErased DEF IndInv, Lives
<1>3. CASE Create(r) \/ CreatePlaceholder(r)
  <2>1. req[r].new \in Dids /\ Unsaved(r) /\ ~Created(r)
    BY <1>3 DEF Create, CreatePlaceholder, At, Unsaved, Created, IndInv, TypeOK,
       ControllerTypeOK, Deploying
  <2>2. engine[req[r].new] = "unborn"
    BY <2>1, NoneAssumption DEF IndInv, NewIds
  <2>3. CreateDeployment(req[r].user, req[r].new) \/ UNCHANGED engineVars
    BY <1>3 DEF Create, CreatePlaceholder, CreateFails
  <2>4. QED
    BY <1>1, <2>2, <2>3 DEF CreateDeployment, Lives, IndInv, TypeOK, EngineTypeOK
<1>4. QED
  BY <1>1, <1>2, <1>3 DEF Handle, CheckExisting, Lookup, DeleteIncidentsAndIoVariables, Begin,
     DeleteNextRow, NextStatement, EndOfStatements, StatementFails, Abort, CommitRemoval,
     RollbackRemoval, FindDefinitions, SetHandler, Save, Answer

LEMMA LivesInStep ==
  ASSUME IndInv, [Next]_vars
  PROVE  Lives
<1>1. ASSUME UNCHANGED engine PROVE Lives
  BY <1>1 DEF Lives
<1>2. ASSUME NEW r \in Requests, RequestStep(r) PROVE Lives
  <2>1. CASE Handle(r)
    BY <2>1, LivesInHandler
  <2>2. CASE Arrive(r) \/ DeadlockVictim(r)
    BY <1>1, <2>2 DEF Arrive, StartDelete, StartDeploy, DeadlockVictim, Abort, engineVars
  <2>3. QED
    BY <1>2, <2>1, <2>2 DEF RequestStep
<1>3. CASE ToolStep \/ Environment
  <2>1. UNCHANGED engine \/ \E s, d : engine' = Erased(s, d)
    BY <1>3 DEF ToolStep, ReadRelations, ListShard, RemovePid, Stop, Environment, LateDelete,
       Remap, engineVars
  <2>2. QED
    BY <1>1, <2>1, LivesWhenErased DEF IndInv
<1>4. CASE Crash \/ (\E d \in Dids : Age(d)) \/ UNCHANGED vars
  BY <1>1, <1>4 DEF Crash, Age, vars, engineVars
<1>5. QED
  BY <1>2, <1>3, <1>4 DEF Next
=============================================================================
