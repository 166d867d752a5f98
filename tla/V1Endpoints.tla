----------------------------- MODULE V1Endpoints -----------------------------
(***************************************************************************)
(* The handlers of lib/api/v1endpoints.go: the older routes.  Where a      *)
(* handler repeats the one of v2endpoints.go, its calls are the same.      *)
(***************************************************************************)
EXTENDS V2Endpoints

V1HealthCheck == <<>>

V1StartProcessDefinition(d, k) == StartProcessDefinition(d, k)
V1StartProcessDefinitionAndGetInstanceId(d, k) ==
  StartProcessDefinitionAndGetInstanceId(d, k)
V1GetDeployment(v) == GetDeploymentByVid(v)
V1DeploymentExists(v) == DeploymentExists(v)
V1StartDeployment(v, k) == StartDeployment(v, k)
V1GetDeploymentParameters(v) == GetDeploymentParameters(v)
V1GetDeploymentDefinition(v) == GetDeploymentDefinition(v)
V1GetDeployments(u) == ListDeployments(u)
V1GetProcessDefinition(d) == GetDefinition(d)
V1GetProcessDefinitionDiagram(d) == GetDefinitionDiagram(d)
V1GetProcessInstances(u) == GetProcessInstanceList(u)
V1GetProcessInstanceCount(u) == GetProcessInstanceCount(u)

\* All, filtered, finished and unfinished instances of the history.
V1GetHistoricProcessInstances(u) ==
  GetProcessInstanceHistoryList(u, {"running", "ended"})
V1GetFilteredHistoricProcessInstances(u) ==
  GetProcessInstanceHistoryList(u, {"running", "ended"})
V1GetFinishedProcessInstances(u) == GetProcessInstanceHistoryList(u, {"ended"})
V1GetUnfinishedProcessInstances(u) == GetProcessInstanceHistoryList(u, {"running"})
V1FindFinishedProcessInstances(u) ==
  GetProcessInstanceHistoryListWithTotal(u, {"ended"})
V1FindUnfinishedProcessInstances(u) ==
  GetProcessInstanceHistoryListWithTotal(u, {"running"})

\* A faulty variant of the next one: the query is the only filter.
OfAnyDefinition(d, st) == GetProcessInstanceHistoryByProcessDefinition(d, st)

\* The query names no tenant: the check of the definition has to.
V1GetHistoricProcessInstancesOfProcessDefinition(d, st) ==
  CheckProcessDefinitionAccess(d) \o GetProcessInstanceHistoryByProcessDefinition(d, st)

V1DeleteHistoricProcessInstance(i) == DeleteHistoricProcessInstance(i)
V1DeleteProcessInstance(i) == DeleteProcessInstance(i)

V1Requests(u) ==
  LET keys == Keys \cup {None}
      states == {{"running", "ended"}, {"ended"}, {"running"}}
  IN UNION {
       {V1HealthCheck},
       {V1StartProcessDefinition(d, k) : d \in Definitions, k \in keys},
       {V1StartProcessDefinitionAndGetInstanceId(d, k) : d \in Definitions, k \in keys},
       {V1GetDeployment(v) : v \in Vids},
       {V1DeploymentExists(v) : v \in Vids},
       {V1StartDeployment(v, k) : v \in Vids, k \in keys},
       {V1GetDeploymentParameters(v) : v \in Vids},
       {V1GetDeploymentDefinition(v) : v \in Vids},
       {V1GetDeployments(u), V1GetProcessInstances(u), V1GetProcessInstanceCount(u)},
       {V1GetProcessDefinition(d) : d \in Definitions},
       {V1GetProcessDefinitionDiagram(d) : d \in Definitions},
       {V1GetHistoricProcessInstances(u), V1GetFilteredHistoricProcessInstances(u),
        V1GetFinishedProcessInstances(u), V1GetUnfinishedProcessInstances(u),
        V1FindFinishedProcessInstances(u), V1FindUnfinishedProcessInstances(u)},
       {V1GetHistoricProcessInstancesOfProcessDefinition(d, st) :
          d \in Definitions, st \in states},
       {V1DeleteHistoricProcessInstance(i) : i \in Instances},
       {V1DeleteProcessInstance(i) : i \in Instances}}
=============================================================================
