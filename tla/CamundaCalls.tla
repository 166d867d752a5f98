---------------------------- MODULE CamundaCalls ----------------------------
(***************************************************************************)
(* What lib/camunda does between the handlers for definitions, instances   *)
(* and events and the engine: each function is the sequence of the remote  *)
(* calls it makes, each with the answer its caller gives when it fails.    *)
(* The effect of a single call is in Instances.                            *)
(***************************************************************************)
EXTENDS InstanceEngine, SequencesExt

(***************************************************************************)
(* Answers of the handlers, by the names of net/http ("internal error"     *)
(* stands for any other code too), and what else becomes of a failed call: *)
(*   own     the answer has the code that the call returns                 *)
(*   join    the error is kept, the handler goes on and fails at its end   *)
(*   ignore  the handler goes on                                           *)
(* A code of 0 is no answer: http.Error panics at it, and net/http closes  *)
(* the connection.                                                         *)
(***************************************************************************)
Answers ==
  {"ok", "bad request", "unauthorized", "forbidden", "not found", "internal error", "no answer"}

Failures == Answers \cup {"own", "join", "ignore"}

Call(do, on, fail) == [do |-> do, on |-> on, fail |-> fail, unknown |-> fail]

\* A call whose caller tells an unknown vid from other errors.
VidCall(do, v, fail, unknown) == [Call(do, v, fail) EXCEPT !.unknown = unknown]

\* The definition found by an earlier call of the same handler.
Found == None

Deletions == {"delete io", "delete incidents", "delete instance", "delete history"}
OnInstances == Deletions \cup {"check instance", "check history", "set variable"}
OnVids == {"check deployment", "find definition", "read deployment", "list by vid"}
DefinitionReads == {"read definition", "read linked definition", "read diagram"}

\* Every call, by what it is about.
Calls ==
  [do : OnInstances, on : Instances, fail : Failures, unknown : Failures]
    \cup [do : OnVids, on : Vids, fail : Failures, unknown : Failures]
    \cup [do : DefinitionReads \cup {"check definition"}, on : Definitions \cup {Found},
          fail : Failures, unknown : Failures]
    \cup [do : {"start"}, on : (Definitions \cup {Found}) \X (Keys \cup {None}),
          fail : Failures, unknown : Failures]
    \cup [do : {"list"}, on : (Users \cup Definitions) \X SUBSET {"running", "ended"},
          fail : Failures, unknown : Failures]
    \cup [do : {"list by key"}, on : Users \X Keys, fail : Failures, unknown : Failures]
    \cup [do : {"list deployments", "message"}, on : Users, fail : Failures, unknown : Failures]

----------------------------------------------------------------------------
\* Access.

CheckProcessDefinitionAccess(d) == <<Call("check definition", d, "unauthorized")>>
CheckDeploymentAccess(v) == <<Call("check deployment", v, "unauthorized")>>

\* A faulty variant of CheckProcessInstanceAccess: its error is not looked at.
CheckUnheeded(i) == <<Call("check instance", i, "ignore")>>

CheckProcessInstanceAccess(i) == <<Call("check instance", i, "own")>>
CheckHistoryAccess(i) == <<Call("check history", i, "unauthorized")>>

----------------------------------------------------------------------------
\* Instances.

StartProcess(d, k) == <<Call("start", <<d, k>>, "internal error")>>
StartProcessGetId(d, k) == <<Call("start", <<d, k>>, "internal error")>>

\* Faulty variants: nobody asks for the errors; the history goes first.
RemoveUnasked(i, fail) ==
  <<Call("delete io", i, "ignore"), Call("delete instance", i, "ignore")>>
RemoveHistoryFirst(i, fail) ==
  <<Call("delete history", i, fail), Call("delete io", i, fail)>>

RemoveProcessInstance(i, fail) ==
  <<Call("delete io", i, fail), Call("delete instance", i, fail)>>
RemoveProcessInstanceHistory(i, fail) ==
  <<Call("delete io", i, fail), Call("delete history", i, fail)>>

SetVariable(i) == <<Call("set variable", i, "internal error")>>

\* The message is for the tenant it names.
SendEventTrigger(u) == <<Call("message", u, "internal error")>>

----------------------------------------------------------------------------
\* Lists and counts, by tenant or by definition.  Page and total are two
\* queries.

List(of, st) == <<Call("list", <<of, st>>, "internal error")>>
ListWithTotal(of, st) == List(of, st) \o List(of, st)

GetProcessInstanceHistoryByProcessDefinition(d, st) == List(d, st)
GetProcessInstanceHistoryList(u, st) == List(u, st)
GetProcessInstanceList(u) == List(u, {"running"})
GetProcessInstanceHistoryListWithTotal(u, st) == ListWithTotal(u, st)
GetInstancesByDeploymentVid(v) ==
  <<VidCall("list by vid", v, "internal error", "bad request")>>

----------------------------------------------------------------------------
\* Definitions and deployments.

GetProcessDefinition(d) == <<Call("read linked definition", d, "internal error")>>

\* Nobody looks at the status of this answer.
GetProcessDefinitionDiagram(d) == <<Call("read diagram", d, "internal error")>>

\* The variables of the start form; without the XML they are not filtered.
GetProcessParameters(d) ==
  <<Call("read definition", d, "internal error"), Call("read definition", d, "ignore")>>

GetDefinitionByDeploymentVid(v) == <<Call("find definition", v, "internal error")>>
GetDeployment(v) == <<Call("read deployment", v, "internal error")>>

\* The deployments of the user whose vid is known; an error in what is read
\* about one of them only marks its entry.
GetExtendedDeploymentList(u) == <<Call("list deployments", u, "internal error")>>
GetExtendedDeployment(v) ==
  <<Call("find definition", v, "ignore"), Call("read diagram", Found, "ignore")>>
=============================================================================
