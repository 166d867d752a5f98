--------------------------- MODULE InstanceEngine ---------------------------
(***************************************************************************)
(* The engine of a shard as the endpoints for definitions and instances    *)
(* use it, the io variables and incidents which other services keep per    *)
(* instance, and the relation of vids as these endpoints read it.  All     *)
(* tenants live on this one engine: that is where access checks matter.    *)
(***************************************************************************)
EXTENDS Naturals, Sequences, FiniteSets

CONSTANTS
  Users,        \* tenants
  Admins,       \* those whose token has the role admin
  Vids,         \* virtual ids of deployments
  Definitions,  \* process definitions, one per deployment
  Instances,    \* ids of process instances, chosen by the engine, never reused
  Keys,         \* business keys
  MaxIds,       \* bound: ids in the body of a bulk deletion
  None,         \* no definition, no business key, no user
  Tenant        \* the tenant of each definition

ASSUME InstanceAssumption ==
  /\ Admins \subseteq Users
  /\ None \notin Users \cup Definitions \cup Keys
  /\ Definitions \cap (Users \cup Instances) = {}
  /\ IsFiniteSet(Vids) /\ IsFiniteSet(Instances)
  /\ MaxIds \in Nat
  /\ Tenant \in [Definitions -> Users]

VARIABLES
  fresh,      \* definitions that have never been deployed
  deployed,   \* definitions the engine has
  behind,     \* the definition a vid leads to, by the table of relations
  inst,       \* the instances: state, definition and business key
  io,         \* instances with io variables at the process-io service
  incidents   \* instances with incidents at the incident service

engineVars == <<fresh, deployed, behind, inst, io, incidents>>

Instance ==
  [st : {"unborn", "running", "ended", "erased"},
   def : Definitions \cup {None},
   key : Keys \cup {None}]

Nothing(st) == [st |-> st, def |-> None, key |-> None]

EngineTypeOK ==
  /\ fresh \in SUBSET Definitions
  /\ deployed \in SUBSET Definitions
  /\ behind \in [Vids -> Definitions \cup {None}]
  /\ inst \in [Instances -> Instance]
  /\ io \in SUBSET Instances
  /\ incidents \in SUBSET Instances

\* Some vids are deployed already.
EngineInit ==
  /\ behind \in [Vids -> Definitions \cup {None}]
  /\ \A v, w \in Vids : behind[v] # None /\ behind[v] = behind[w] => v = w
  /\ deployed = {behind[v] : v \in Vids} \ {None}
  /\ fresh = Definitions \ deployed
  /\ inst = [i \in Instances |-> Nothing("unborn")]
  /\ io = {}
  /\ incidents = {}

In(st) == {i \in Instances : inst[i].st \in st}
Running == In({"running"})
Ended == In({"ended"})

\* Known to the engine's history: running or ended.
Known == Running \cup Ended

TenantOf(i) == Tenant[inst[i].def]

\* What a query with tenantIdIn finds, ...
OfTenant(u) == {i \in Known : TenantOf(i) = u}

\* ... and what one with processDefinitionId finds, whoever asks.
OfDefinition(d) == {i \in Known : inst[i].def = d}

----------------------------------------------------------------------------
\* The effect of the wrapper's calls.

\* POST /process-definition/{id}/submit-form starts an instance with a new id.
Started(i, d, k) ==
  /\ d \in deployed
  /\ inst[i].st = "unborn"
  /\ inst' = [inst EXCEPT ![i] = [st |-> "running", def |-> d, key |-> k]]
  /\ UNCHANGED <<fresh, deployed, behind, io, incidents>>

\* An instance ends; it stays in the history.  Its key matters no more: who
\* asks for instances by key wants the running ones.
Stopped(i) ==
  /\ i \in Running
  /\ inst' = [inst EXCEPT ![i].st = "ended", ![i].key = None]
  /\ UNCHANGED <<fresh, deployed, behind, io, incidents>>

\* DELETE /history/process-instance/{id} takes ended instances only.
Erased(i) ==
  /\ i \in Ended
  /\ inst' = [inst EXCEPT ![i] = Nothing("erased")]
  /\ UNCHANGED <<fresh, deployed, behind, io, incidents>>

IoDeleted(i) == io' = io \ {i} /\ UNCHANGED <<fresh, deployed, behind, inst, incidents>>

IncidentsDeleted(i) ==
  /\ incidents' = incidents \ {i}
  /\ UNCHANGED <<fresh, deployed, behind, inst, io>>

----------------------------------------------------------------------------
\* What happens beside the observed request.

\* A timer, a message or another request starts an instance.
OthersStart(i) == \E d \in deployed, k \in Keys \cup {None} : Started(i, d, k)

\* It reaches its end or is stopped by another request; another request
\* erases it.
OthersStop(i) == Stopped(i)
OthersErase(i) == Erased(i)

\* A task of a running instance writes io variables or fails; another request
\* deletes what it left.
OthersWriteIo(i) ==
  /\ i \in Running \ io
  /\ io' = io \cup {i}
  /\ UNCHANGED <<fresh, deployed, behind, inst, incidents>>
OthersDeleteIo(i) == i \in io /\ IoDeleted(i)
OthersReportIncident(i) ==
  /\ i \in Running \ incidents
  /\ incidents' = incidents \cup {i}
  /\ UNCHANGED <<fresh, deployed, behind, inst, io>>
OthersDeleteIncidents(i) == i \in incidents /\ IncidentsDeleted(i)

\* A PUT or DELETE for the vid, in the order of the controller (see
\* Controller): what the instances left is deleted, then the deployment with
\* its instances and their history, then the relation.
Undeploy(v) ==
  /\ behind[v] \in deployed
  /\ LET gone == OfDefinition(behind[v])
     IN  /\ io' = io \ gone
         /\ incidents' = incidents \ gone
         /\ inst' = [i \in Instances |-> IF i \in gone THEN Nothing("erased") ELSE inst[i]]
  /\ deployed' = deployed \ {behind[v]}
  /\ UNCHANGED <<fresh, behind>>

\* A faulty variant of the next action: the relation goes first.
UnlinkFirst(v) ==
  /\ behind[v] # None
  /\ behind' = [behind EXCEPT ![v] = None]
  /\ UNCHANGED <<fresh, deployed, inst, io, incidents>>

Unlink(v) ==
  /\ behind[v] # None
  /\ behind[v] \notin deployed
  /\ behind' = [behind EXCEPT ![v] = None]
  /\ UNCHANGED <<fresh, deployed, inst, io, incidents>>

\* A new definition is deployed, and linked afterwards: to any vid, whoever
\* the vid led to before, as a PUT names the user of the deployment and nobody
\* compares.  Ids are never reused: the number of definitions bounds how often.
Deploy(d) ==
  /\ d \in fresh
  /\ fresh' = fresh \ {d}
  /\ deployed' = deployed \cup {d}
  /\ UNCHANGED <<behind, inst, io, incidents>>

Link(v, d) ==
  /\ behind[v] = None
  /\ d \in deployed
  /\ \A w \in Vids : behind[w] # d
  /\ behind' = [behind EXCEPT ![v] = d]
  /\ UNCHANGED <<fresh, deployed, inst, io, incidents>>
=============================================================================
