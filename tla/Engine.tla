------------------------------- MODULE Engine -------------------------------
(***************************************************************************)
(* The Camunda engines (shards) as lib/camunda uses them over HTTP, and    *)
(* the assignment of users to shards kept by lib/shards.  Each call looks  *)
(* up the shard of the user first and sends its request to that shard.     *)
(*                                                                         *)
(* A call that reports an error may still have had its effect: the answer  *)
(* can be lost, and a DELETE that timed out (http.DefaultClient has a      *)
(* timeout of 30 s) can be executed by the engine later.                   *)
(***************************************************************************)
EXTENDS Domain

VARIABLES
  engine,      \* where a deployment is: "unborn", a shard, or "gone"
  aged,        \* deployments older than the age buffer of the cleanup
  lateDeletes, \* DELETE calls given up by the wrapper, not yet executed
  shardOf      \* shard assigned to each user

engineVars == <<engine, aged, lateDeletes, shardOf>>

EngineTypeOK ==
  /\ engine \in [Dids -> Shards \cup {"unborn", "gone"}]
  /\ aged \in SUBSET Dids
  /\ lateDeletes \in SUBSET (Shards \X Dids)
  /\ shardOf \in [Users -> Shards]

EngineInit ==
  /\ engine = [d \in Dids |-> "unborn"]
  /\ aged = {}
  /\ lateDeletes = {}
  /\ shardOf \in [Users -> Shards]

Running(d) == engine[d] \in Shards

----------------------------------------------------------------------------
\* What the calls of lib/camunda do.

\* deployProcess: POST /deployment/create.
CreateDeployment(u, d) ==
  /\ engine' = [engine EXCEPT ![d] = shardOf[u]]
  /\ UNCHANGED <<aged, lateDeletes, shardOf>>

\* GetRawDefinitionsByDeployment: a shard that does not know the deployment
\* answers with an empty list.
DefinitionsOf(u, d) == IF engine[d] = shardOf[u] THEN Defs ELSE {}

Erased(s, d) == IF engine[d] = s THEN [engine EXCEPT ![d] = "gone"] ELSE engine

\* RemoveProcessForShard: a shard that does not know the deployment counts
\* zero and the call succeeds; so does a DELETE answered with 404.
RemoveProcess(u, d) ==
  /\ engine' = Erased(shardOf[u], d)
  /\ UNCHANGED <<aged, lateDeletes, shardOf>>

\* RemoveProcess returns an error: nothing happened, only the answer was
\* lost, or the engine still works on the DELETE when the client gives up.
RemoveProcessFails(u, d) ==
  \/ UNCHANGED engineVars
  \/ engine[d] = shardOf[u] /\ RemoveProcess(u, d)
  \/ /\ engine[d] = shardOf[u]
     /\ lateDeletes' = lateDeletes \cup {<<shardOf[u], d>>}
     /\ UNCHANGED <<engine, aged, shardOf>>

----------------------------------------------------------------------------
\* What the environment does.

\* The engine executes a DELETE nobody waits for any more.
LateDelete(p) ==
  /\ p \in lateDeletes
  /\ engine' = Erased(p[1], p[2])
  /\ lateDeletes' = lateDeletes \ {p}
  /\ UNCHANGED <<aged, shardOf>>

\* SetShardForUser of the shard migration moves a user; deployments stay.
Remap(u, s) ==
  /\ shardOf[u] # s
  /\ shardOf' = [shardOf EXCEPT ![u] = s]
  /\ UNCHANGED <<engine, aged, lateDeletes>>
=============================================================================
