----------------------------- MODULE V2Endpoints -----------------------------
(***************************************************************************)
(* The handlers of lib/api/v2endpoints.go, as the calls each makes for a   *)
(* request of user u.  A handler first parses the token and, where there   *)
(* is one, the body of the request (see Refuse of Instances); when the     *)
(* calls are through it answers 200.                                       *)
(***************************************************************************)
EXTENDS CamundaCalls

\* For each id of a list, in the order of the list, its calls: size of them.
ForEach(ids, size, calls) ==
  [n \in 1..(size * Len(ids)) |->
     calls[ids[1 + ((n - 1) \div size)]][1 + ((n - 1) % size)]]

StartProcessDefinition(d, k) ==
  CheckProcessDefinitionAccess(d) \o StartProcess(d, k)
StartProcessDefinitionAndGetInstanceId(d, k) ==
  CheckProcessDefinitionAccess(d) \o StartProcessGetId(d, k)

GetDeploymentByVid(v) == CheckDeploymentAccess(v) \o GetDeployment(v)

\* An unknown vid and a deployment without id are answered with false, every
\* other error, as of a deployment the engine does not know, with 500.
DeploymentExists(v) ==
  <<VidCall("check deployment", v, "internal error", "ok")>>

StartDeployment(v, k) ==
  CheckDeploymentAccess(v) \o GetDefinitionByDeploymentVid(v) \o StartProcessGetId(Found, k)
GetDeploymentParameters(v) ==
  CheckDeploymentAccess(v) \o GetDefinitionByDeploymentVid(v) \o GetProcessParameters(Found)
GetDeploymentDefinition(v) ==
  CheckDeploymentAccess(v) \o GetDefinitionByDeploymentVid(v)

GetDeploymentInstances(v) == GetInstancesByDeploymentVid(v)

\* The repetition after UnknownVid never happens: the list keeps such errors
\* in its entries.
ListDeployments(u) == GetExtendedDeploymentList(u)

GetDefinition(d) == CheckProcessDefinitionAccess(d) \o GetProcessDefinition(d)
GetDefinitionDiagram(d) ==
  CheckProcessDefinitionAccess(d) \o GetProcessDefinitionDiagram(d)

ListProcessInstances(u) == GetProcessInstanceList(u)
GetProcessInstanceCount(u) == List(u, {"running"})
GetHistoricProcessInstances(u, withTotal) ==
  IF withTotal THEN ListWithTotal(u, {"running", "ended"})
  ELSE GetProcessInstanceHistoryList(u, {"running", "ended"})

\* DeleteHistoricProcessInstance of lib/controller.  When the last two calls
\* fail, its answer has the code of the deletion of the incidents: 200.
DeleteHistoricProcessInstance(i) ==
  CheckHistoryAccess(i)
    \o <<Call("delete incidents", i, "own")>>
    \o RemoveProcessInstanceHistory(i, "ok")

DeleteProcessInstance(i) ==
  CheckProcessInstanceAccess(i) \o RemoveProcessInstance(i, "internal error")

SetProcessInstanceVariable(i) == CheckProcessInstanceAccess(i) \o SetVariable(i)

\* A faulty variant of the bulk deletion: it goes on after an error.
DeleteAsManyAsPossible(ids) ==
  ForEach(ids, 3, [i \in Instances |->
    CheckProcessInstanceAccess(i) \o RemoveProcessInstance(i, "join")])

DeleteProcessMultipleInstances(ids) ==
  ForEach(ids, 3, [i \in Instances |-> DeleteProcessInstance(i)])
DeleteMultipleHistoricProcessInstances(ids) ==
  ForEach(ids, 4, [i \in Instances |-> DeleteHistoricProcessInstance(i)])

\* Lists the instances of the user with the key, and removes the running
\* ones, whatever becomes of the others.
DeleteProcessInstancesByBusinessKey(u, k) ==
  <<Call("list by key", <<u, k>>, "internal error")>>
StopByKey(ids) ==
  ForEach(ids, 2, [i \in Instances |-> RemoveProcessInstance(i, "join")])

\* An admin may send a message for another tenant.
TriggerEvent(u, tenant) == SendEventTrigger(IF u \in Admins THEN tenant ELSE u)

----------------------------------------------------------------------------
\* All requests a user can send, with lists of up to MaxIds ids.
V2Requests(u) ==
  LET lists == SeqOf(Instances, MaxIds)
      keys == Keys \cup {None}
  IN UNION {
       {StartProcessDefinition(d, k) : d \in Definitions, k \in keys},
       {StartProcessDefinitionAndGetInstanceId(d, k) : d \in Definitions, k \in keys},
       {GetDeploymentByVid(v) : v \in Vids},
       {DeploymentExists(v) : v \in Vids},
       {StartDeployment(v, k) : v \in Vids, k \in keys},
       {GetDeploymentParameters(v) : v \in Vids},
       {GetDeploymentDefinition(v) : v \in Vids},
       {GetDeploymentInstances(v) : v \in Vids},
       {ListDeployments(u), ListProcessInstances(u), GetProcessInstanceCount(u)},
       {GetDefinition(d) : d \in Definitions},
       {GetDefinitionDiagram(d) : d \in Definitions},
       {GetHistoricProcessInstances(u, total) : total \in BOOLEAN},
       {DeleteHistoricProcessInstance(i) : i \in Instances},
       {DeleteProcessInstance(i) : i \in Instances},
       {SetProcessInstanceVariable(i) : i \in Instances},
       {DeleteProcessMultipleInstances(ids) : ids \in lists},
       {DeleteMultipleHistoricProcessInstances(ids) : ids \in lists},
       {DeleteProcessInstancesByBusinessKey(u, k) : k \in Keys},
       {TriggerEvent(u, tenant) : tenant \in Users}}
=============================================================================
