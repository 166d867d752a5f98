------------------------------- MODULE Domain -------------------------------
(***************************************************************************)
(* The identifiers the wrapper, its database and the engines exchange.     *)
(***************************************************************************)
CONSTANTS
  Vids,       \* virtual ids of deployments, chosen by the callers
  Dids,       \* deployment ids, chosen by the engine and never reused
  Users,      \* tenants
  Shards,     \* Camunda engines
  Defs,       \* the process definitions a deployment contains
  Requests,   \* slots for requests the wrapper handles at the same time
  None,       \* no vid, no user, no deployment id
  Faults      \* the kinds of failures that may happen

ASSUME NoneAssumption == None \notin Vids \cup Users \cup Dids
ASSUME StatesAreNotShards == {"unborn", "gone"} \cap Shards = {}

(***************************************************************************)
(* engine    a call to an engine or to its services reports an error       *)
(* database  a statement of lib/vid reports an error                       *)
(* read      a result set breaks off while it is read; the loops over      *)
(*           rows.Next() never ask rows.Err(), so this goes unnoticed      *)
(* incident  a call to the incident API reports an error                   *)
(* crash     the wrapper dies                                              *)
(* remap     users are moved to another shard                              *)
(***************************************************************************)
FaultKinds == {"engine", "database", "read", "incident", "crash", "remap"}
ASSUME FaultsAssumption == Faults \subseteq FaultKinds

\* A failure of this kind may happen.
May(kind) == kind \in Faults
=============================================================================
