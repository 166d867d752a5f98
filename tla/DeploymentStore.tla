--------------------------- MODULE DeploymentStore ---------------------------
(***************************************************************************)
(* What the wrapper promises a caller that sends one request per vid at a  *)
(* time: behind a vid there is at most one running deployment.  A new one  *)
(* is put there only after the old one is gone, and has never been behind  *)
(* a vid before.                                                           *)
(***************************************************************************)
CONSTANTS Vids, Dids, None

VARIABLES
  store,  \* store[v]: the deployment behind v, or None
  used    \* deployments no vid may get any more

storeVars == <<store, used>>

Init ==
  /\ store = [v \in Vids |-> None]
  /\ used = {}

Put(v, d) ==
  /\ store[v] = None
  /\ d \notin used
  /\ store' = [store EXCEPT ![v] = d]
  /\ used' = used \cup {d}

Drop(v) ==
  /\ store[v] # None
  /\ store' = [store EXCEPT ![v] = None]
  /\ UNCHANGED used

\* Deployments that fail halfway never get behind a vid.
Waste(S) ==
  /\ S \subseteq Dids \ used
  /\ used' = used \cup S
  /\ UNCHANGED store

Next ==
  \/ \E v \in Vids : Drop(v) \/ \E d \in Dids : Put(v, d)
  \/ \E S \in SUBSET Dids : Waste(S)

Spec == Init /\ [][Next]_storeVars
=============================================================================
