----------------------------- MODULE Deployments -----------------------------
(***************************************************************************)
(* The wrapper serving deployment requests, the engines, the table of      *)
(* relations and the cleanup tool together.                                *)
(***************************************************************************)
EXTENDS Controller, Cleanup

vars == <<vidVars, engineVars, controllerVars, tool>>

TypeOK == VidTypeOK /\ EngineTypeOK /\ ControllerTypeOK /\ CleanupTypeOK

Init == VidInit /\ EngineInit /\ ControllerInit /\ CleanupInit

----------------------------------------------------------------------------
(***************************************************************************)
(* A running deployment becomes older than deploymentAgeBuffer (24 h).     *)
(* The request that created it is over by then (every call of a handler    *)
(* ends within 30 s), and no scan lasts that long: a deployment that gets  *)
(* old during a scan was as good as old when the scan began.  Only the     *)
(* tool asks for the age.                                                  *)
(***************************************************************************)
Age(d) ==
  /\ Cleaning
  /\ Running(d) /\ d \notin aged
  /\ \A r \in Requests : req[r].new # d
  /\ tool.pc # "scan"
  /\ aged' = aged \cup {d}
  /\ UNCHANGED <<vidVars, engine, lateDeletes, shardOf, controllerVars, tool>>

Environment ==
  /\ \/ \E p \in lateDeletes : LateDelete(p)
     \/ May("remap") /\ \E u \in Users, s \in Shards : Remap(u, s)
  /\ UNCHANGED <<vidVars, controllerVars, tool>>

RequestStep(r) == (Handle(r) \/ Arrive(r) \/ DeadlockVictim(r)) /\ UNCHANGED tool

Next ==
  \/ \E r \in Requests : RequestStep(r)
  \/ Crash /\ UNCHANGED tool
  \/ ToolStep /\ UNCHANGED controllerVars
  \/ \E d \in Dids : Age(d)
  \/ Environment

Spec == Init /\ [][Next]_vars

(***************************************************************************)
(* Every call of a handler ends: an HTTP call with an answer or after 30 s *)
(* (http.DefaultClient.Timeout), a statement when the lock it waits for is *)
(* released.  Postgres queues the transactions that wait for a row, so one *)
(* that keeps waiting gets its turn: the fairness of DeleteNextRow is      *)
(* strong.  Nobody is obliged to send requests or to run the tool.         *)
(***************************************************************************)
Fairness ==
  \A r \in Requests :
    /\ WF_vars(Handle(r) /\ UNCHANGED tool)
    /\ SF_vars(DeleteNextRow(r) /\ UNCHANGED tool)
    /\ WF_vars(DeadlockVictim(r) /\ UNCHANGED tool)

FairSpec == Spec /\ Fairness

----------------------------------------------------------------------------
(***************************************************************************)
(* Safety.                                                                 *)
(***************************************************************************)

\* A request is working on d: it creates it and has not answered yet.
InHands(d) == \E r \in Requests : req[r].new = d

\* A deployment id stands for one vid, though the table does not enforce it:
\* GetVirtualId and SetVid, which take the first row they find, and
\* GetRelations.byDeploymentId are unambiguous.
OneVidPerDeployment == \A x, y \in rows : x.did = y.did => x = y

\* What remove-pid is given is never the deployment of a relation, nor one a
\* running request still may save a relation for -- although relations and
\* shards are read one after the other while requests are handled.  (Unless
\* the result set of the relations broke off.)
CleanupSparesDeployments ==
  \A p \in tool.pids : p[2] \notin RelatedDids /\ ~InHands(p[2])

\* The process of a relation is removed only while the transaction that
\* removes the relation holds it, or by what became of a call given up
\* earlier, or to undo an INSERT that was reported as failed.
RemovedUnderLock ==
  [][\A x \in rows :
       Running(x.did) /\ engine'[x.did] = "gone" =>
         \/ \E r \in Requests : x \in locked[r] /\ At(r, "remove")
         \/ \E r \in Requests : At(r, "compensate") /\ req[r].new = x.did
         \/ \E s \in Shards : <<s, x.did>> \in lateDeletes]_vars

\* A relation disappears only when a request for its own vid commits, though
\* half of that request's transaction deletes by the deployment id it looked
\* up long before.
UnlinkedByOwnRequest ==
  [][\A x \in rows \ rows' :
       \E r \in Requests : At(r, "commit") /\ req[r].vid = x.vid]_vars

\* No way out of DeleteDeployment leaves a transaction open: an open one
\* would keep its rows locked, and no other request waiting for them has a
\* timeout.
NoLeakedTransaction ==
  \A r \in Requests : locked[r] # {} => pc[r] \in InTransaction

\* With incident handling asked for, a relation is saved only when every
\* definition of its deployment has its on-incident handler.
HandledBeforeLinked ==
  [][\A x \in rows' \ rows, r \in Requests :
       At(r, "save") /\ req[r].new = x.did /\ req[r].incident =>
         {x.did} \X Defs \subseteq handlers]_vars

----------------------------------------------------------------------------
(***************************************************************************)
(* The inductive invariant behind these properties.                        *)
(***************************************************************************)

\* The request has not reached the INSERT of its relation.
Unsaved(r) == pc[r] \notin {"idle", "compensate", "ok", "error"}

\* The engine has given the request its id.
Created(r) == pc[r] \in {"definitions", "handlers", "save", "compensate"}

\* The id of a new deployment belongs to one request, the engine has not used
\* it before that request asks for a deployment, and no relation has it before
\* the request saves one.
NewIds ==
  \A r \in Requests : req[r].new # None =>
    /\ \A q \in Requests \ {r} : req[q].new # req[r].new
    /\ Unsaved(r) => req[r].new \notin RelatedDids
    /\ Created(r) => engine[req[r].new] # "unborn"
    /\ Unsaved(r) /\ ~Created(r) => engine[req[r].new] = "unborn"

\* A relation is about a deployment the engine has created, and its id has
\* one vid only.
Relations ==
  /\ \A x \in rows : engine[x.did] # "unborn"
  /\ OneVidPerDeployment

\* The deployment a request removes had a relation when it was looked up: no
\* other request is going to save one, and if it still has one, it is for
\* the vid of the request.
OldIds ==
  \A r \in Requests : pc[r] \in Removing =>
    /\ engine[old[r]] # "unborn"
    /\ \A q \in Requests : Unsaved(q) => req[q].new # old[r]
    /\ \A x \in RowsOfDid(old[r]) : x.vid = req[r].vid

\* A transaction deletes relations of its own vid only, and when its first
\* statement is through it holds the relation of the deployment to remove.
OwnTransaction(r) ==
  /\ \A x \in locked[r] \cup todo[r] : x.vid = req[r].vid
  /\ locked[r] # {} => pc[r] \in InTransaction
  /\ todo[r] # {} => InStatement(r)
  /\ pc[r] \in InTransaction =>
       RowsOfDid(old[r]) \subseteq
         locked[r] \cup (IF At(r, "byDid") THEN todo[r] ELSE {})

Transactions == \A r \in Requests : OwnTransaction(r)

\* The request that created a deployment is over when the deployment is old.
\* So an old one whose relation a scan has not read has none, and will have
\* none -- if the scan has read all relations there were.
Scan ==
  /\ \A d \in aged : engine[d] # "unborn" /\ ~InHands(d)
  /\ \A p \in tool.pids : p[2] \in aged
  /\ ~May("read") =>
       /\ tool.pc = "scan" => \A d \in aged \ tool.known : d \notin RelatedDids
       /\ \A p \in tool.pids : p[2] \notin RelatedDids

IndInv == TypeOK /\ NewIds /\ Relations /\ OldIds /\ Transactions /\ Scan

----------------------------------------------------------------------------
\* What holds as long as nothing fails and callers do not overlap.

\* Every running process can be found through a relation, or will be by the
\* request that has just deployed it.
NoOrphans ==
  \A d \in Dids : Running(d) => d \in RelatedDids \/ InHands(d)

\* Every relation has a running process, unless the request that removes
\* both is between the two.
NoDanglingRelations ==
  \A x \in rows : Running(x.did) \/ \E r \in Requests : At(r, "commit") /\ x \in locked[r]

\* A test of the repository expects that a second PUT for a vid leaves one
\* relation and no additional process.
OneDeploymentPerVid == \A x, y \in rows : x.vid = y.vid => x = y

\* Users stay where they are, and there is one user or one shard: what a
\* request asks its shard for is there, if it is anywhere.
Together ==
  ~May("remap") /\ \A u, w \in Users, s, t \in Shards : u = w \/ s = t

\* An answer of 200 tells the truth: the relation saved by a PUT is the only
\* one of its vid and its process runs; after a DELETE the vid has no relation
\* and the process it was looked up for is gone.  (The
\* process may be left running where users are moved, or when a user deletes
\* what a user of another shard has deployed: RemoveProcess asks one shard.)
OkIsTrue ==
  \A r \in Requests : At(r, "ok") =>
    IF req[r].op = "deploy"
    THEN RowsOfVid(req[r].vid) = {[did |-> req[r].new, vid |-> req[r].vid]}
           /\ Running(req[r].new)
    ELSE /\ RowsOfVid(req[r].vid) = {}
         /\ Together /\ old[r] # None => ~Running(old[r])

----------------------------------------------------------------------------
\* Behind a vid is the running deployment of its relation.
Live(v) == {d \in Dids : Running(d) /\ [did |-> d, vid |-> v] \in rows}

Behind == [v \in Vids |-> IF Live(v) = {} THEN None ELSE CHOOSE d \in Live(v) : TRUE]

\* A deployment no vid may get any more: it has got one, or its request is over.
Used == {d \in Dids : engine[d] # "unborn" /\ (d \in RelatedDids \/ ~InHands(d))}

Store == INSTANCE DeploymentStore WITH store <- Behind, used <- Used

\* To callers that wait for the answer of a request before they send the
\* next one for the same vid, the wrapper is a store of deployments, whatever
\* fails.
ImplementsStore == Store!Spec

\* Every request is answered, or lost with the wrapper.
EveryRequestEnds == \A r \in Requests : Busy(r) ~> ~Busy(r)

----------------------------------------------------------------------------
(***************************************************************************)
(* The invariants behind HandledBeforeLinked, and behind what holds when   *)
(* callers do not overlap.                                                 *)
(***************************************************************************)

\* A DELETE that was given up is not for a deployment somebody still works on.
LateDeletes ==
  \A p \in lateDeletes :
    /\ engine[p[2]] # "unborn"
    /\ \A r \in Requests : Unsaved(r) => req[r].new # p[2]

\* Nothing takes the new deployment away before its relation is saved, and
\* when the user is not moved, the loop over its definitions reaches them all.
NewDeployment(r) ==
  /\ pc[r] \in {"definitions", "handlers", "save"} => Running(req[r].new)
  /\ ~May("remap") =>
       /\ At(r, "definitions") => engine[req[r].new] = shardOf[req[r].user]
       /\ At(r, "handlers") => {req[r].new} \X (Defs \ defs[r]) \subseteq handlers
       /\ At(r, "save") /\ req[r].incident => {req[r].new} \X Defs \subseteq handlers

NewDeployments == \A r \in Requests : NewDeployment(r)

\* A relation to the deployment of a request is for the vid of the request.
OwnRelations == \A x \in rows, r \in Requests : req[r].new = x.did => x.vid = req[r].vid

Placed ==
  Together => \A d \in Dids, u \in Users : Running(d) => engine[d] = shardOf[u]

WorkInv == IndInv /\ LateDeletes /\ NewDeployments /\ OwnRelations /\ Placed

OneAtATime ==
  \A r, q \in Requests : r # q /\ req[r].vid # None => req[q].vid # req[r].vid

\* The process of the deployment the request looked up has been removed.
Removed(r) ==
  old[r] # None /\ (At(r, "commit") \/ (At(r, "ok") /\ req[r].op # "deploy"))

\* What a request knows of its vid is the case until it changes it itself:
\* the relation it removes is the only one, the one it saves finds none.
Alone(r) ==
  /\ At(r, "idle") => req[r] = NoRequest
  /\ pc[r] \in {"idle", "exists", "lookup"} => old[r] = None
  /\ pc[r] \in Removing =>
       RowsOfVid(req[r].vid) = {[did |-> old[r], vid |-> req[r].vid]}
  /\ pc[r] \in Deploying \ {"exists", "compensate"} => RowsOfVid(req[r].vid) = {}
  /\ At(r, "ok") /\ req[r].op = "deploy" =>
       /\ RowsOfVid(req[r].vid) = {[did |-> req[r].new, vid |-> req[r].vid]}
       /\ Running(req[r].new)
       /\ \A p \in lateDeletes : p[2] # req[r].new
  /\ At(r, "ok") /\ req[r].op # "deploy" => RowsOfVid(req[r].vid) = {}
  /\ Together /\ Removed(r) => engine[old[r]] = "gone"

SerialInv ==
  /\ WorkInv
  /\ Serial /\ ~May("read") =>
       OneAtATime /\ OneDeploymentPerVid /\ \A r \in Requests : Alone(r)

\* When only the incident API fails, nothing is left behind.
NothingLeft ==
  /\ NoOrphans /\ NoDanglingRelations
  /\ \A r \in Requests :
       /\ At(r, "error") /\ req[r].new # None => ~Running(req[r].new)
       /\ At(r, "compensate") => req[r].new \notin RelatedDids
  /\ \A p \in lateDeletes : p[2] \notin RelatedDids /\ ~InHands(p[2])

CleanInv ==
  SerialInv /\ (Serial /\ Faults \subseteq {"incident"} /\ Together => NothingLeft)
=============================================================================
