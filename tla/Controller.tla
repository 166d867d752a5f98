----------------------------- MODULE Controller -----------------------------
(***************************************************************************)
(* lib/controller: the handlers of PUT /process-deployments (Deploy) and   *)
(* DELETE /process-deployments/{userid}/{deplid} (DeleteDeployment).  The  *)
(* HTTP server runs every request in a goroutine of its own and nothing in *)
(* the wrapper orders two requests for the same vid.  A handler ignores    *)
(* the context of its request: it goes on after the caller gave up, so a   *)
(* caller that retries has two requests running.                           *)
(*                                                                         *)
(* One action is one call a handler makes to the database, the engine or   *)
(* the incident API, with everything it does until the next call.          *)
(***************************************************************************)
EXTENDS VidRelation, Engine

CONSTANT Serial  \* TRUE if callers never have two requests for one vid running

ASSUME SerialAssumption == Serial \in BOOLEAN

VARIABLES
  req,      \* req[r]: the request in slot r, fixed while it is handled
  pc,       \* pc[r]: what its handler does next
  old,      \* old[r]: the deployment it removes
  todo,     \* todo[r]: rows its DELETE statement must still reach
  defs,     \* defs[r]: definitions that still need a handler
  handlers  \* <<d, k>>: definition k of d has an on-incident handler

locals == <<old, todo, defs>>
controllerVars == <<req, pc, old, todo, defs, handlers>>

(***************************************************************************)
(* The control points of a handler, named after what it does next:         *)
(*   Deploy            exists, (DeleteDeployment), create, placeholder,    *)
(*                     definitions, handlers, save, compensate             *)
(*   DeleteDeployment  lookup, external, begin, byDid, byVid, remove,      *)
(*                     commit, rollback                                    *)
(*   both              ok, error: about to answer; idle: no request        *)
(***************************************************************************)
InTransaction == {"byDid", "byVid", "remove", "commit", "rollback"}
Removing == {"external", "begin"} \cup InTransaction
Deploying ==
  {"exists", "create", "placeholder", "definitions", "handlers", "save", "compensate"}
Control == {"idle", "lookup", "ok", "error"} \cup Removing \cup Deploying

Request ==
  [op : {"none", "deploy", "delete"},
   vid : Vids \cup {None},
   user : Users \cup {None},
   incident : BOOLEAN,      \* the message asks for incident handling
   new : Dids \cup {None}]  \* the id the engine will give the deployment

NoRequest ==
  [op |-> "none", vid |-> None, user |-> None, incident |-> FALSE, new |-> None]

\* From its lookup on, DeleteDeployment has a deployment to remove; only a
\* PUT deploys.
ControllerTypeOK ==
  /\ req \in [Requests -> Request]
  /\ pc \in [Requests -> Control]
  /\ old \in [Requests -> Dids \cup {None}]
  /\ todo \in [Requests -> SUBSET Row]
  /\ defs \in [Requests -> SUBSET Defs]
  /\ handlers \in SUBSET (Dids \X Defs)
  /\ \A r \in Requests :
       /\ pc[r] \in Removing => old[r] \in Dids
       /\ pc[r] \in Deploying => req[r].op = "deploy"
       /\ pc[r] # "idle" => req[r].vid \in Vids /\ req[r].user \in Users
       /\ req[r].op = "deploy" <=> req[r].new \in Dids

ControllerInit ==
  /\ req = [r \in Requests |-> NoRequest]
  /\ pc = [r \in Requests |-> "idle"]
  /\ old = [r \in Requests |-> None]
  /\ todo = [r \in Requests |-> {}]
  /\ defs = [r \in Requests |-> {}]
  /\ handlers = {}

At(r, l) == pc[r] = l
Goto(r, l) == pc' = [pc EXCEPT ![r] = l]
Busy(r) == ~At(r, "idle")

\* Where DeleteDeployment returns to when it succeeds: the handler of the
\* DELETE answers, Deploy goes on with the new deployment.
Returned(r) == IF req[r].op = "deploy" THEN "create" ELSE "ok"

----------------------------------------------------------------------------
\* A request arrives, and is answered.

MayStart(v) == Serial => \A q \in Requests : req[q].vid # v

\* Ids the engine may give to a deployment that is still to be created.
Fresh == {d \in Dids : engine[d] = "unborn" /\ \A q \in Requests : req[q].new # d}

\* Deploy answers 400 or 500 before its first call when the message has no
\* id, user or svg, or an xml that cannot be parsed.
StartDeploy(r, v, u, i, d) ==
  /\ At(r, "idle")
  /\ MayStart(v)
  /\ d \in Fresh
  /\ req' = [req EXCEPT ![r] = [op |-> "deploy", vid |-> v, user |-> u,
                                incident |-> i, new |-> d]]
  /\ Goto(r, "exists") \/ Goto(r, "error")
  /\ UNCHANGED <<vidVars, engineVars, locals, handlers>>

StartDelete(r, v, u) ==
  /\ At(r, "idle")
  /\ MayStart(v)
  /\ req' = [req EXCEPT ![r] = [op |-> "delete", vid |-> v, user |-> u,
                                incident |-> FALSE, new |-> None]]
  /\ Goto(r, "lookup")
  /\ UNCHANGED <<vidVars, engineVars, locals, handlers>>

Answer(r) ==
  /\ At(r, "ok") \/ At(r, "error")
  /\ req' = [req EXCEPT ![r] = NoRequest]
  /\ Goto(r, "idle")
  /\ old' = [old EXCEPT ![r] = None]
  /\ UNCHANGED <<vidVars, engineVars, todo, defs, handlers>>

----------------------------------------------------------------------------
\* Deploy, up to the call of DeleteDeployment.

\* A faulty variant of CheckExisting: the old deployment is not looked for.
SkipExisting(r) ==
  /\ At(r, "exists")
  /\ Goto(r, "create")
  /\ UNCHANGED <<vidVars, engineVars, req, locals, handlers>>

\* cleanupExistingDeployment
CheckExisting(r) ==
  /\ At(r, "exists")
  /\ \/ Goto(r, IF VidExists(req[r].vid) THEN "lookup" ELSE "create")
     \/ May("database") /\ Goto(r, "error")
  /\ UNCHANGED <<vidVars, engineVars, req, locals, handlers>>

----------------------------------------------------------------------------
\* DeleteDeployment, for a DELETE and within Deploy.

\* An empty result counts as "nothing to delete".
Lookup(r) ==
  /\ At(r, "lookup")
  /\ \/ /\ \E d \in GetDeploymentId(req[r].vid) : old' = [old EXCEPT ![r] = d]
        /\ Goto(r, "external")
     \/ /\ GetDeploymentId(req[r].vid) = {} \/ May("read")
        /\ Goto(r, Returned(r)) /\ UNCHANGED old
     \/ May("database") /\ Goto(r, "error") /\ UNCHANGED old
  /\ UNCHANGED <<vidVars, engineVars, req, todo, defs, handlers>>

\* deleteIncidentsByDeploymentId and deleteIoVariablesByDeploymentId: what
\* they delete is kept by other services; here they only succeed or fail.
DeleteIncidentsAndIoVariables(r) ==
  /\ At(r, "external")
  /\ \/ Goto(r, "begin")
     \/ (May("engine") \/ May("incident")) /\ Goto(r, "error")
  /\ UNCHANGED <<vidVars, engineVars, req, locals, handlers>>

\* A faulty variant of Begin: the process is removed without a transaction
\* that holds its row.
RemoveFirst(r) ==
  /\ At(r, "begin")
  /\ Goto(r, "remove")
  /\ UNCHANGED <<vidVars, engineVars, req, locals, handlers>>

\* RemoveVidRelation opens its transaction; its first statement starts.
Begin(r) ==
  /\ At(r, "begin")
  /\ \/ Goto(r, "byDid") /\ todo' = [todo EXCEPT ![r] = RowsOfDid(old[r])]
     \/ May("database") /\ Goto(r, "error") /\ UNCHANGED todo
  /\ UNCHANGED <<vidVars, engineVars, req, old, defs, handlers>>

InStatement(r) == pc[r] \in {"byDid", "byVid"}

DeleteNextRow(r) ==
  /\ InStatement(r)
  /\ \E x \in todo[r] :
       /\ DeleteRow(r, x)
       /\ todo' = [todo EXCEPT ![r] = @ \ {x}]
  /\ UNCHANGED <<engineVars, req, pc, old, defs, handlers>>

\* The first statement is through, the second starts with the rows of the
\* vid that are committed by then.
NextStatement(r) ==
  /\ At(r, "byDid") /\ todo[r] = {}
  /\ Goto(r, "byVid")
  /\ todo' = [todo EXCEPT ![r] = RowsOfVid(req[r].vid)]
  /\ UNCHANGED <<vidVars, engineVars, req, old, defs, handlers>>

EndOfStatements(r) ==
  /\ At(r, "byVid") /\ todo[r] = {}
  /\ Goto(r, "remove")
  /\ UNCHANGED <<vidVars, engineVars, req, locals, handlers>>

Abort(r) ==
  /\ Rollback(r)
  /\ Goto(r, "error")
  /\ todo' = [todo EXCEPT ![r] = {}]
  /\ UNCHANGED <<engineVars, req, old, defs, handlers>>

StatementFails(r) == InStatement(r) /\ May("database") /\ Abort(r)

\* Postgres aborts one of the transactions that wait for each other.
WaitsFor(r, q) == InStatement(r) /\ todo[r] \cap locked[q] # {}
DeadlockVictim(r) ==
  /\ \E ring \in SUBSET Requests :
       /\ r \in ring
       /\ \A q \in ring : \E p \in ring \ {q} : WaitsFor(q, p)
       /\ \A q \in ring : \E p \in ring \ {q} : WaitsFor(p, q)
  /\ Abort(r)

RemoveOld(r) ==
  /\ At(r, "remove")
  /\ \/ RemoveProcess(req[r].user, old[r]) /\ Goto(r, "commit")
     \/ /\ May("engine")
        /\ RemoveProcessFails(req[r].user, old[r])
        /\ Goto(r, "rollback")
  /\ UNCHANGED <<vidVars, req, locals, handlers>>

\* Faulty variants of CommitRemoval: the success of the removal is answered
\* by a rollback; the error of the COMMIT is dropped.
RollbackOnSuccess(r) ==
  /\ At(r, "commit")
  /\ Rollback(r) /\ Goto(r, Returned(r))
  /\ UNCHANGED <<engineVars, req, locals, handlers>>
DropCommitError(r) ==
  /\ At(r, "commit")
  /\ Commit(r) \/ (May("database") /\ Rollback(r))
  /\ Goto(r, Returned(r))
  /\ UNCHANGED <<engineVars, req, locals, handlers>>

\* The error of a COMMIT does not tell whether the transaction committed.
CommitRemoval(r) ==
  /\ At(r, "commit")
  /\ \/ Commit(r) /\ Goto(r, Returned(r))
     \/ May("database") /\ (Commit(r) \/ Rollback(r)) /\ Goto(r, "error")
  /\ UNCHANGED <<engineVars, req, locals, handlers>>

RollbackRemoval(r) ==
  /\ At(r, "rollback")
  /\ Rollback(r)
  /\ Goto(r, "error")
  /\ UNCHANGED <<engineVars, req, locals, handlers>>

----------------------------------------------------------------------------
\* Deploy, from the new deployment on.

Deployed(r) == IF req[r].incident THEN "definitions" ELSE "save"

\* DeployProcess fails: the request timed out, its answer is lost or is not
\* the one of a deployment.  The engine may have created it nevertheless.
CreateFails(r) ==
  /\ May("engine")
  /\ UNCHANGED engineVars \/ CreateDeployment(req[r].user, req[r].new)
  /\ Goto(r, "error")

\* DeployProcess; when the engine rejects the diagram with an exception, a
\* blank placeholder is deployed instead.
Create(r) ==
  /\ At(r, "create")
  /\ \/ CreateDeployment(req[r].user, req[r].new) /\ Goto(r, Deployed(r))
     \/ UNCHANGED engineVars /\ Goto(r, "placeholder")
     \/ CreateFails(r)
  /\ UNCHANGED <<vidVars, req, locals, handlers>>

CreatePlaceholder(r) ==
  /\ At(r, "placeholder")
  /\ \/ CreateDeployment(req[r].user, req[r].new) /\ Goto(r, Deployed(r))
     \/ CreateFails(r)
  /\ UNCHANGED <<vidVars, req, locals, handlers>>

\* The definitions that get a handler; none found is only logged.
FindDefinitions(r) ==
  /\ At(r, "definitions")
  /\ \/ /\ defs' = [defs EXCEPT ![r] = DefinitionsOf(req[r].user, req[r].new)]
        /\ Goto(r, IF defs'[r] = {} THEN "save" ELSE "handlers")
     \/ May("engine") /\ Goto(r, "compensate") /\ UNCHANGED defs
  /\ UNCHANGED <<vidVars, engineVars, req, old, todo, handlers>>

\* The loop of Deploy over the definitions goes on, or is over.
HandlerDone(r, k) ==
  /\ defs' = [defs EXCEPT ![r] = @ \ {k}]
  /\ Goto(r, IF defs'[r] = {} THEN "save" ELSE "handlers")

\* A faulty variant of SetHandler: a handler that cannot be set is skipped.
SkipHandler(r) ==
  /\ At(r, "handlers")
  /\ \E k \in defs[r] :
       /\ handlers' \in {handlers, handlers \cup {<<req[r].new, k>>}}
       /\ HandlerDone(r, k)
  /\ UNCHANGED <<vidVars, engineVars, req, old, todo>>

SetHandler(r) ==
  /\ At(r, "handlers")
  /\ \E k \in defs[r] :
       \/ /\ handlers' = handlers \cup {<<req[r].new, k>>}
          /\ HandlerDone(r, k)
       \/ /\ May("incident")
          /\ handlers' \in {handlers, handlers \cup {<<req[r].new, k>>}}
          /\ defs' = [defs EXCEPT ![r] = {}]
          /\ Goto(r, "compensate")
  /\ UNCHANGED <<vidVars, engineVars, req, old, todo>>

\* A faulty variant of Save: the id of the new deployment is kept in a field
\* of the shared controller.
SaveSharedId(r) ==
  /\ At(r, "save")
  /\ \E q \in Requests :
       req[q].new # None /\ Running(req[q].new) /\ SaveVidRelation(req[r].vid, req[q].new)
  /\ Goto(r, "ok")
  /\ UNCHANGED <<engineVars, req, locals, handlers>>

\* The INSERT may have committed although it reports an error.
Save(r) ==
  /\ At(r, "save")
  /\ \/ SaveVidRelation(req[r].vid, req[r].new) /\ Goto(r, "ok")
     \/ /\ May("database")
        /\ UNCHANGED vidVars \/ SaveVidRelation(req[r].vid, req[r].new)
        /\ Goto(r, "compensate")
  /\ UNCHANGED <<engineVars, req, locals, handlers>>

\* The new deployment is removed again; an error of that is only logged.
Compensate(r) ==
  /\ At(r, "compensate")
  /\ \/ RemoveProcess(req[r].user, req[r].new)
     \/ May("engine") /\ RemoveProcessFails(req[r].user, req[r].new)
  /\ Goto(r, "error")
  /\ UNCHANGED <<vidVars, req, locals, handlers>>

----------------------------------------------------------------------------
\* The steps a handler takes by itself.
Handle(r) ==
  \/ CheckExisting(r) \/ Lookup(r) \/ DeleteIncidentsAndIoVariables(r)
  \/ Begin(r) \/ DeleteNextRow(r) \/ NextStatement(r) \/ EndOfStatements(r)
  \/ StatementFails(r) \/ RemoveOld(r) \/ CommitRemoval(r) \/ RollbackRemoval(r)
  \/ Create(r) \/ CreatePlaceholder(r) \/ FindDefinitions(r) \/ SetHandler(r)
  \/ Save(r) \/ Compensate(r) \/ Answer(r)

Arrive(r) ==
  \E v \in Vids, u \in Users :
    \/ StartDelete(r, v, u)
    \/ \E i \in BOOLEAN, d \in Fresh : StartDeploy(r, v, u, i, d)

\* The wrapper dies: its requests are forgotten, their transactions end.
Crash ==
  /\ May("crash")
  /\ \E r \in Requests : Busy(r)
  /\ req' = [r \in Requests |-> NoRequest]
  /\ pc' = [r \in Requests |-> "idle"]
  /\ old' = [r \in Requests |-> None]
  /\ todo' = [r \in Requests |-> {}]
  /\ defs' = [r \in Requests |-> {}]
  /\ RollbackAll
  /\ UNCHANGED <<engineVars, handlers>>
=============================================================================
