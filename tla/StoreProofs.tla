----------------------------- MODULE StoreProofs -----------------------------
(***************************************************************************)
(* Deployments implements DeploymentStore: to callers that keep to one     *)
(* request per vid, each step of the wrapper, the engines and the tool     *)
(* puts one deployment behind a vid, drops one, wastes some that are not   *)
(* behind a vid, or is invisible.                                          *)
(***************************************************************************)
EXTENDS SerialProofs

\* What a step does to what the mapping looks at.
Takes(d) ==
  /\ UNCHANGED <<rows, req>>
  /\ Running(d)
  /\ engine' = [engine EXCEPT ![d] = "gone"]

Bears(r) ==
  /\ UNCHANGED <<rows, req>>
  /\ Unsaved(r) /\ engine[req[r].new] = "unborn"
  /\ engine' = [engine EXCEPT ![req[r].new] = shardOf[req[r].user]]

Unlinks(r) ==
  /\ UNCHANGED <<engine, req>>
  /\ At(r, "commit")
  /\ rows' = rows \ locked[r]

Links(r) ==
  /\ UNCHANGED <<engine, req>>
  /\ At(r, "save")
  /\ rows' = rows \cup {OwnRow(r)}

Kind ==
  \/ UNCHANGED <<rows, engine>>
  \/ \E d \in Dids : Takes(d)
  \/ \E r \in Requests : Bears(r) \/ Unlinks(r) \/ Links(r)

LEMMA KindOfErasure ==
  ASSUME TypeOK, NEW s \in Shards, NEW d, engine' = Erased(s, d), UNCHANGED <<rows, req>>
  PROVE  Kind
<1>1. CASE engine' = engine
  BY <1>1 DEF Kind
<1>2. CASE engine' # engine
  <2>1. engine[d] = s /\ engine' = [engine EXCEPT ![d] = "gone"] /\ d \in Dids
    BY <1>2 DEF Erased, TypeOK, EngineTypeOK
  <2>2. QED
    BY <2>1 DEF Kind, Takes, Running
<1>3. QED
  BY <1>1, <1>2

LEMMA KindOfRequest ==
  ASSUME IndInv, NEW r \in Requests, RequestStep(r)
  PROVE  Kind
<1>1. ASSUME UNCHANGED <<rows, engine>> PROVE Kind
  BY <1>1 DEF Kind
<1>2. CASE RemoveOld(r) \/ Compensate(r)
  <2>1. req[r].user \in Users
    BY <1>2 DEF RemoveOld, Compensate, At, IndInv, TypeOK, ControllerTypeOK
  <2>2. shardOf[req[r].user] \in Shards
    BY <2>1 DEF IndInv, TypeOK, EngineTypeOK
  <2>3. UNCHANGED <<rows, req>>
    BY <1>2 DEF RemoveOld, Compensate, vidVars
  <2>4. UNCHANGED engine \/ \E d : engine' = Erased(shardOf[req[r].user], d)
    BY <1>2 DEF RemoveOld, Compensate, RemoveProcess, RemoveProcessFails, engineVars
  <2>5. QED
    BY <1>1, <2>2, <2>3, <2>4, KindOfErasure DEF IndInv
<1>3. CASE Create(r) \/ CreatePlaceholder(r)
  <2>1. Unsaved(r) /\ ~Created(r) /\ req[r].new \in Dids
    BY <1>3 DEF Create, CreatePlaceholder, At, Unsaved, Created, IndInv, TypeOK,
       ControllerTypeOK, Deploying
  <2>2. engine[req[r].new] = "unborn"
    BY <2>1, NoneAssumption DEF IndInv, NewIds
  <2>3. UNCHANGED <<rows, req>>
    BY <1>3 DEF Create, CreatePlaceholder, vidVars
  <2>4. UNCHANGED engineVars \/ CreateDeployment(req[r].user, req[r].new)
    BY <1>3 DEF Create, CreatePlaceholder, CreateFails
  <2>5. QED
    BY <1>1, <2>1, <2>2, <2>3, <2>4 DEF engineVars, CreateDeployment, Kind, Bears
<1>4. CASE CommitRemoval(r)
  BY <1>1, <1>4 DEF CommitRemoval, Commit, Rollback, engineVars, Kind, Unlinks
<1>5. CASE Save(r)
  BY <1>1, <1>5 DEF Save, SaveVidRelation, OwnRow, engineVars, vidVars, Kind, Links
<1>6. QED
  BY <1>1, <1>2, <1>3, <1>4, <1>5 DEF RequestStep, Handle, CheckExisting, Lookup,
     DeleteIncidentsAndIoVariables, Begin, DeleteNextRow, DeleteRow, NextStatement,
     EndOfStatements, StatementFails, Abort, Rollback, RollbackRemoval, FindDefinitions,
     SetHandler, Answer, Arrive, StartDelete, StartDeploy, DeadlockVictim, engineVars, vidVars

LEMMA KindOfStep ==
  ASSUME IndInv, [Next]_vars
  PROVE  Kind
<1>1. ASSUME UNCHANGED <<rows, engine>> PROVE Kind
  BY <1>1 DEF Kind
<1>2. CASE ToolStep /\ UNCHANGED controllerVars
  <2>1. UNCHANGED <<rows, req>>
    BY <1>2 DEF ToolStep, ReadRelations, ListShard, RemovePid, Stop, vidVars, controllerVars
  <2>2. UNCHANGED engine \/ \E p \in tool.pids : engine' = Erased(p[1], p[2])
    BY <1>2 DEF ToolStep, ReadRelations, ListShard, RemovePid, Stop, engineVars
  <2>3. \A p \in tool.pids : p[1] \in Shards
    BY DEF IndInv, TypeOK, CleanupTypeOK, Tool
  <2>4. QED
    BY <1>1, <2>1, <2>2, <2>3, KindOfErasure DEF IndInv
<1>3. CASE Environment
  <2>1. UNCHANGED <<rows, req>>
    BY <1>3 DEF Environment, vidVars, controllerVars
  <2>2. UNCHANGED engine \/ \E p \in lateDeletes : engine' = Erased(p[1], p[2])
    BY <1>3 DEF Environment, LateDelete, Remap
  <2>3. \A p \in lateDeletes : p[1] \in Shards
    BY DEF IndInv, TypeOK, EngineTypeOK
  <2>4. QED
    BY <1>1, <2>1, <2>2, <2>3, KindOfErasure DEF IndInv
<1>4. CASE Crash \/ (\E d \in Dids : Age(d)) \/ UNCHANGED vars
  BY <1>1, <1>4 DEF Crash, RollbackAll, Age, vars, vidVars, engineVars
<1>5. QED
  BY <1>2, <1>3, <1>4, KindOfRequest DEF Next

(***************************************************************************)
(* What is behind a vid.                                                   *)
(***************************************************************************)
LEMMA BehindMeans ==
  ASSUME NEW v \in Vids
  PROVE  /\ Live(v) = {} => Behind[v] = None
         /\ \A d : Live(v) = {d} => Behind[v] = d
         /\ Live(v)' = {} => Behind'[v] = None
         /\ \A d : Live(v)' = {d} => Behind'[v] = d
BY DEF Behind, Live, Running

LEMMA LiveIsOne ==
  ASSUME OneDeploymentPerVid, NEW v \in Vids, NEW d \in Live(v)
  PROVE  Live(v) = {d}
BY DEF OneDeploymentPerVid, Live

LEMMA BehindAt ==
  ASSUME OneDeploymentPerVid, NEW v \in Vids, Live(v)' = Live(v)
  PROVE  Behind'[v] = Behind[v]
<1>1. CASE Live(v) = {}
  BY <1>1, BehindMeans
<1>2. ASSUME NEW d \in Live(v) PROVE Behind'[v] = Behind[v]
  <2>1. Live(v) = {d} /\ Live(v)' = {d}
    BY <1>2, LiveIsOne
  <2>2. QED
    BY <2>1, BehindMeans
<1>3. QED
  BY <1>1, <1>2

LEMMA BehindIsFunction ==
  /\ Behind = [v \in Vids |-> Behind[v]]
  /\ Behind' = [v \in Vids |-> Behind'[v]]
BY DEF Behind, Live, Running

LEMMA BehindSame ==
  ASSUME OneDeploymentPerVid, \A v \in Vids : Live(v)' = Live(v)
  PROVE  Behind' = Behind
BY BehindAt, BehindIsFunction

LEMMA BehindChange ==
  ASSUME OneDeploymentPerVid, NEW v \in Vids, \A w \in Vids \ {v} : Live(w)' = Live(w)
  PROVE  Behind' = [Behind EXCEPT ![v] = Behind'[v]]
<1>1. \A w \in Vids \ {v} : Behind'[w] = Behind[w]
  BY BehindAt
<1>2. QED
  BY <1>1, BehindIsFunction

LEMMA UsedMeans ==
  /\ Used \subseteq Dids /\ Used' \subseteq Dids
  /\ \A d \in Dids : d \in Used <=> engine[d] # "unborn" /\ (d \in RelatedDids \/ ~InHands(d))
  /\ \A d \in Dids :
       d \in Used' <=> engine'[d] # "unborn" /\ (d \in RelatedDids' \/ ~InHands(d)')
BY DEF Used, InHands, RelatedDids

(***************************************************************************)
(* The kinds of steps, as steps of the store.                              *)
(***************************************************************************)

\* What holds of callers that keep to one request per vid.
Orderly ==
  /\ IndInv /\ NewDeployments /\ OwnRelations
  /\ OneAtATime /\ OneDeploymentPerVid /\ \A r \in Requests : Alone(r)

LEMMA QuietStep ==
  ASSUME Orderly, [Next]_vars, UNCHANGED <<rows, engine>>
  PROVE  Store!Waste(Used' \ Used)
<1>1. \A v \in Vids : Live(v)' = Live(v)
  BY DEF Live, Running
<1>2. Behind' = Behind
  BY <1>1, BehindSame DEF Orderly
<1>3. ASSUME NEW d \in Used PROVE d \in Used'
  <2>1. d \in Dids /\ engine[d] # "unborn"
    BY <1>3, UsedMeans
  <2>2. InHands(d)' => InHands(d)
    BY <2>1, HandsInStep DEF Orderly
  <2>3. RelatedDids' = RelatedDids
    BY DEF RelatedDids
  <2>4. QED
    BY <1>3, <2>1, <2>2, <2>3, UsedMeans
<1>4. Used' \ Used \subseteq Dids \ Used
  BY UsedMeans
<1>5. Used' = Used \cup (Used' \ Used)
  BY <1>3
<1>6. QED
  BY <1>2, <1>4, <1>5 DEF Store!Waste

LEMMA TakingStep ==
  ASSUME Orderly, NEW d \in Dids, Takes(d)
  PROVE  Store!Next \/ UNCHANGED <<Behind, Used>>
<1>1. /\ rows' = rows /\ req' = req /\ engine[d] \in Shards /\ engine'[d] = "gone"
      /\ \A e \in Dids \ {d} : engine'[e] = engine[e]
  BY DEF Takes, Running, Orderly, IndInv, TypeOK, EngineTypeOK
<1>2. Used' = Used
  <2>1. RelatedDids' = RelatedDids /\ \A e \in Dids : InHands(e)' <=> InHands(e)
    BY <1>1 DEF RelatedDids, InHands
  <2>2. \A e \in Dids : engine'[e] # "unborn" <=> engine[e] # "unborn"
    BY <1>1, StatesAreNotShards
  <2>3. QED
    BY <2>1, <2>2, UsedMeans
<1>3. \A v \in Vids : Live(v)' = Live(v) \ {d}
  BY <1>1, StatesAreNotShards DEF Live, Running
<1>4. ASSUME NEW v \in Vids, d \in Live(v) PROVE Store!Drop(v)
  <2>1. Live(v) = {d}
    BY <1>4, LiveIsOne DEF Orderly
  <2>2. Live(v)' = {}
    BY <1>3, <2>1
  <2>3. ASSUME NEW w \in Vids \ {v} PROVE d \notin Live(w)
    BY <1>4, <2>3 DEF Live, Orderly, IndInv, Relations, OneVidPerDeployment
  <2>4. \A w \in Vids \ {v} : Live(w)' = Live(w)
    BY <1>3, <2>3
  <2>5. Behind[v] = d /\ Behind'[v] = None
    BY <2>1, <2>2, BehindMeans
  <2>6. Behind' = [Behind EXCEPT ![v] = None]
    BY <2>4, <2>5, BehindChange DEF Orderly
  <2>7. d # None
    BY NoneAssumption
  <2>8. QED
    BY <1>2, <2>5, <2>6, <2>7 DEF Store!Drop
<1>5. CASE \E v \in Vids : d \in Live(v)
  BY <1>4, <1>5 DEF Store!Next
<1>6. CASE \A v \in Vids : d \notin Live(v)
  <2>1. \A v \in Vids : Live(v)' = Live(v)
    BY <1>3, <1>6
  <2>2. QED
    BY <1>2, <2>1, BehindSame DEF Orderly
<1>7. QED
  BY <1>5, <1>6

LEMMA BearingStep ==
  ASSUME Orderly, NEW r \in Requests, Bears(r)
  PROVE  UNCHANGED <<Behind, Used>>
<1> DEFINE d == req[r].new
<1>1. /\ rows' = rows /\ req' = req /\ engine[d] = "unborn"
      /\ \A e \in Dids \ {d} : engine'[e] = engine[e]
  BY DEF Bears, Orderly, IndInv, TypeOK, EngineTypeOK
<1>2. ASSUME d \in Dids PROVE d \notin RelatedDids /\ InHands(d)
  BY <1>2, NoneAssumption DEF Bears, Orderly, IndInv, NewIds, InHands
<1>3. Used' = Used
  <2>1. RelatedDids' = RelatedDids /\ \A e \in Dids : InHands(e)' <=> InHands(e)
    BY <1>1 DEF RelatedDids, InHands
  <2>2. \A e \in Dids \ {d} : engine'[e] # "unborn" <=> engine[e] # "unborn"
    BY <1>1
  <2>3. QED
    BY <1>1, <1>2, <2>1, <2>2, UsedMeans
<1>4. \A v \in Vids : Live(v)' = Live(v)
  BY <1>1, <1>2 DEF Live, Running, RelatedDids
<1>5. QED
  BY <1>3, <1>4, BehindSame DEF Orderly

LEMMA UnlinkingStep ==
  ASSUME Orderly, NEW r \in Requests, Unlinks(r)
  PROVE  Store!Next \/ UNCHANGED <<Behind, Used>>
<1>1. /\ IndInv /\ OneAtATime /\ Alone(r) /\ OwnTransaction(r) /\ At(r, "commit")
      /\ engine' = engine /\ req' = req /\ rows' = rows \ locked[r]
      /\ pc[r] \in Removing /\ pc[r] \in InTransaction
  BY DEF Orderly, Unlinks, IndInv, Transactions, At, Removing, InTransaction
<1>2. PICK d \in Dids, v \in Vids : d = old[r] /\ v = req[r].vid /\ v # None
  BY <1>1, NoneAssumption DEF IndInv, TypeOK, ControllerTypeOK, At
<1> DEFINE x == [did |-> d, vid |-> v]
<1>3. RowsOfVid(v) = {x}
  BY <1>1, <1>2 DEF Alone
<1>4. x \in rows /\ x \in locked[r]
  BY <1>1, <1>2, <1>3 DEF RowsOfVid, OwnTransaction, RowsOfDid, At
<1>5. rows' = rows \ {x}
  <2>1. \A y \in locked[r] \cap rows : y \in RowsOfVid(v)
    BY <1>1, <1>2 DEF OwnTransaction, RowsOfVid
  <2>2. QED
    BY <1>1, <1>3, <1>4, <2>1
<1>6. ~InHands(d)
  <2>1. SUFFICES ASSUME NEW q \in Requests, req[q].new = d PROVE FALSE
    BY DEF InHands
  <2>2. req[q].vid = v
    BY <1>4, <2>1 DEF Orderly, OwnRelations
  <2>3. q = r
    BY <1>1, <1>2, <2>2 DEF OneAtATime
  <2>4. Unsaved(r)
    BY <1>1 DEF Unsaved, At
  <2>5. QED
    BY <1>1, <1>2, <2>1, <2>3, <2>4 DEF IndInv, OldIds
<1>7. Used' = Used
  <2>1. \A e \in Dids \ {d} : e \in RelatedDids' <=> e \in RelatedDids
    BY <1>5 DEF RelatedDids
  <2>2. \A e \in Dids : InHands(e)' <=> InHands(e)
    BY <1>1 DEF InHands
  <2>3. QED
    BY <1>1, <1>2, <1>4, <1>6, <2>1, <2>2, UsedMeans DEF RelatedDids, Orderly, Relations
<1>8. \A w \in Vids \ {v} : Live(w)' = Live(w)
  BY <1>1, <1>5 DEF Live, Running
<1>9. Live(v)' = {}
  BY <1>1, <1>3, <1>5 DEF Live, Running, RowsOfVid
<1>10. CASE d \in Live(v)
  <2>1. Live(v) = {d}
    BY <1>2, <1>10, LiveIsOne DEF Orderly
  <2>2. Behind[v] = d /\ Behind'[v] = None
    BY <1>2, <1>9, <2>1, BehindMeans
  <2>3. Behind' = [Behind EXCEPT ![v] = None]
    BY <1>2, <1>8, <2>2, BehindChange DEF Orderly
  <2>4. Store!Drop(v)
    BY <1>2, <1>7, <2>2, <2>3, NoneAssumption DEF Store!Drop
  <2>5. QED
    BY <1>2, <2>4 DEF Store!Next
<1>11. CASE d \notin Live(v)
  <2>1. Live(v) = {}
    BY <1>3, <1>11 DEF Live, RowsOfVid
  <2>2. ASSUME NEW w \in Vids PROVE Live(w)' = Live(w)
    <3>1. CASE w = v
      BY <1>9, <2>1, <3>1
    <3>2. QED
      BY <1>8, <3>1
  <2>3. QED
    BY <1>7, <2>2, BehindSame DEF Orderly
<1>12. QED
  BY <1>10, <1>11

LEMMA LinkingStep ==
  ASSUME Orderly, NEW r \in Requests, Links(r)
  PROVE  Store!Next
<1>1. IndInv /\ Alone(r) /\ At(r, "save") /\ engine' = engine /\ req' = req
  BY DEF Orderly, Links
<1>2. PICK d \in Dids, v \in Vids : d = req[r].new /\ v = req[r].vid /\ d # None
  BY <1>1, NoneAssumption DEF IndInv, TypeOK, ControllerTypeOK, At, Deploying
<1> DEFINE x == [did |-> d, vid |-> v]
<1>3. rows' = rows \cup {x} /\ x.did = d /\ x.vid = v
  BY <1>2 DEF Links, OwnRow
<1>4. Running(d)
  BY <1>1, <1>2 DEF Orderly, NewDeployments, NewDeployment, At
<1>5. RowsOfVid(v) = {}
  BY <1>1, <1>2 DEF Alone, At, Deploying
<1>6. d \notin RelatedDids /\ InHands(d) /\ engine[d] # "unborn"
  BY <1>1, <1>2, <1>4, StatesAreNotShards DEF IndInv, NewIds, InHands, At, Unsaved, Running
<1>7. d \notin Used
  BY <1>2, <1>6, UsedMeans
<1>8. Used' = Used \cup {d}
  <2>1. RelatedDids' = RelatedDids \cup {d}
    BY <1>3 DEF RelatedDids
  <2>2. \A e \in Dids : InHands(e)' <=> InHands(e)
    BY <1>1 DEF InHands
  <2>3. QED
    BY <1>1, <1>2, <1>6, <2>1, <2>2, UsedMeans
<1>9. Live(v) = {} /\ Live(v)' = {d}
  BY <1>1, <1>2, <1>3, <1>4, <1>5 DEF Live, RowsOfVid, Running
<1>10. \A w \in Vids \ {v} : Live(w)' = Live(w)
  BY <1>1, <1>3 DEF Live, Running
<1>11. Behind[v] = None /\ Behind'[v] = d
  BY <1>2, <1>9, BehindMeans
<1>12. Behind' = [Behind EXCEPT ![v] = d]
  BY <1>2, <1>10, <1>11, BehindChange DEF Orderly
<1>13. Store!Put(v, d)
  BY <1>7, <1>8, <1>11, <1>12 DEF Store!Put
<1>14. QED
  BY <1>2, <1>13 DEF Store!Next

LEMMA StoreInit ==
  ASSUME Init PROVE Store!Init
<1>1. engine = [d \in Dids |-> "unborn"] /\ rows = {}
  BY DEF Init, VidInit, EngineInit
<1>2. \A v \in Vids : Live(v) = {}
  BY <1>1 DEF Live
<1>3. Behind = [v \in Vids |-> None]
  BY <1>2 DEF Behind
<1>4. Used = {}
  BY <1>1, UsedMeans
<1>5. QED
  BY <1>3, <1>4 DEF Store!Init

LEMMA StoreStep ==
  ASSUME Serial, ~May("read"), SerialInv, [Next]_vars
  PROVE  [Store!Next]_<<Behind, Used>>
<1>1. Orderly
  BY DEF SerialInv, WorkInv, Orderly
<1>2. CASE UNCHANGED <<rows, engine>>
  <2>1. Store!Waste(Used' \ Used)
    BY <1>1, <1>2, QuietStep
  <2>2. Used' \ Used \in SUBSET Dids
    BY UsedMeans
  <2>3. QED
    BY <2>1, <2>2 DEF Store!Next
<1>3. QED
  BY <1>1, <1>2, KindOfStep, TakingStep, BearingStep, UnlinkingStep, LinkingStep DEF Kind, Orderly

\* The wrapper keeps the promise of DeploymentStore to callers that keep to
\* one request per vid, though it changes the engine and the table one after
\* the other, any call may fail in between, and users may be moved.
THEOREM WrapperIsAStore ==
  ASSUME Serial, ~May("read")
  PROVE  Spec => ImplementsStore
<1>1. SerialInv /\ [Next]_vars => [Store!Next]_<<Behind, Used>>
  BY StoreStep
<1>2. Init => Store!Init
  BY StoreInit
<1>3. QED
  BY <1>1, <1>2, SerialInvariance, PTL
     DEF Spec, ImplementsStore, Store!Spec, Store!storeVars
=============================================================================
