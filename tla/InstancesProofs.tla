--------------------------- MODULE InstancesProofs ---------------------------
(***************************************************************************)
(* The properties of a request for definitions, instances or events,       *)
(* proved of Instances.  The engine only ever moves one way (Stable): what *)
(* a check has found of an instance, a vid or a definition stays true      *)
(* whatever the others do.  So the invariant of Instances need only be     *)
(* carried over the call that the request makes.                           *)
(***************************************************************************)
EXTENDS HandlersProofs, FiniteSetTheorems

\* What no step takes back.
Stable ==
  /\ fresh' \subseteq fresh
  /\ \A d \in Definitions : d \notin fresh /\ d \in deployed' =>
       d \in deployed /\ \A v \in Vids : behind[v] = d => behind'[v] = d
  /\ \A v \in Vids :
       \/ behind'[v] \in {behind[v], None}
       \/ behind'[v] \in deployed /\ \A w \in Vids : behind[w] # behind'[v]
  /\ \A i \in Instances : inst[i].st # "unborn" =>
       /\ inst'[i].st # "unborn"
       /\ inst'[i].st \in {"running", "ended"} =>
            inst[i].st \in {"running", "ended"} /\ inst'[i].def = inst[i].def
  /\ \A i \in Instances : inst[i].st \in {"ended", "erased"} =>
       /\ inst'[i].st \in {"ended", "erased"}
       /\ i \in io' => i \in io
       /\ i \in incidents' => i \in incidents

\* What the invariant needs to know of the engine after a step.
EngineStep == EngineTypeOK' /\ EngineInv' /\ Stable

----------------------------------------------------------------------------
\* Steps of the engine.

LEMMA StatesOf ==
  \A i \in Instances : /\ i \in Running <=> inst[i].st = "running"
                       /\ i \in Ended <=> inst[i].st = "ended"
                       /\ i \in Known <=> inst[i].st \in {"running", "ended"}
  BY DEF Running, Ended, Known, In

LEMMA UnchangedStep ==
  ASSUME EngineTypeOK, EngineInv, UNCHANGED engineVars PROVE EngineStep
  BY DEF EngineTypeOK, EngineInv, EngineStep, Stable, engineVars, Known, Running, Ended, In

LEMMA StartedStep ==
  ASSUME EngineTypeOK, EngineInv, NEW i \in Instances, NEW d, NEW k \in Keys \cup {None},
         Started(i, d, k)
  PROVE  EngineStep
<1>1. EngineTypeOK'
  BY DEF EngineTypeOK, Started, Instance
<1>2. EngineInv'
  <2>1. d \in Definitions /\ d # None
    BY InstanceAssumption DEF EngineTypeOK, Started
  <2>2. \A j \in Instances : inst[j].st \in {"running", "ended"} <=> inst[j].def # None
    BY StatesOf DEF EngineInv
  <2>3. \A j \in Instances : inst'[j].st \in {"running", "ended"} <=> inst'[j].def # None
    BY <2>1, <2>2 DEF EngineTypeOK, Started, Instance
  <2> QED
    BY <2>3 DEF EngineInv, EngineTypeOK, Started, Known, Running, Ended, In
<1>3. Stable
  BY DEF Stable, EngineTypeOK, Started, Instance
<1> QED
  BY <1>1, <1>2, <1>3 DEF EngineStep

LEMMA StoppedStep ==
  ASSUME EngineTypeOK, EngineInv, NEW i \in Instances, Stopped(i)
  PROVE  EngineStep /\ inst'[i].st = "ended" /\ inst'[i].def = inst[i].def
<1>1. inst[i].st = "running"
  BY StatesOf DEF Stopped
<1>2. EngineTypeOK'
  BY DEF EngineTypeOK, Stopped, Instance
<1>3. inst'[i].st = "ended" /\ inst'[i].def = inst[i].def
  BY DEF EngineTypeOK, Stopped, Instance
<1>4. EngineInv'
  <2>1. \A j \in Instances : inst[j].st \in {"running", "ended"} <=> inst[j].def # None
    BY StatesOf DEF EngineInv
  <2>2. \A j \in Instances : inst'[j].st \in {"running", "ended"} <=> inst'[j].def # None
    BY <1>1, <1>3, <2>1 DEF EngineTypeOK, Stopped, Instance
  <2> QED
    BY <2>2 DEF EngineInv, EngineTypeOK, Stopped, Known, Running, Ended, In
<1>5. Stable
  BY <1>1, <1>3 DEF Stable, EngineTypeOK, Stopped, Instance
<1> QED
  BY <1>2, <1>3, <1>4, <1>5 DEF EngineStep

LEMMA ErasedStep ==
  ASSUME EngineTypeOK, EngineInv, NEW i \in Instances, Erased(i)
  PROVE  EngineStep /\ inst'[i] = Nothing("erased")
<1>1. inst[i].st = "ended"
  BY StatesOf DEF Erased
<1>2. EngineTypeOK'
  BY DEF EngineTypeOK, Erased, Instance, Nothing
<1>3. inst'[i] = Nothing("erased") /\ inst'[i].st = "erased" /\ inst'[i].def = None
  BY DEF EngineTypeOK, Erased, Instance, Nothing
<1>4. EngineInv'
  <2>1. \A j \in Instances : inst[j].st \in {"running", "ended"} <=> inst[j].def # None
    BY StatesOf DEF EngineInv
  <2>2. \A j \in Instances : inst'[j].st \in {"running", "ended"} <=> inst'[j].def # None
    BY <1>1, <1>3, <2>1 DEF EngineTypeOK, Erased, Instance
  <2> QED
    BY <2>2 DEF EngineInv, EngineTypeOK, Erased, Known, Running, Ended, In
<1>5. Stable
  BY <1>1, <1>3 DEF Stable, EngineTypeOK, Erased, Instance
<1> QED
  BY <1>2, <1>3, <1>4, <1>5 DEF EngineStep

\* The steps that leave the instances alone.
LEMMA SidesStep ==
  ASSUME EngineTypeOK, EngineInv, NEW i \in Instances,
         IoDeleted(i) \/ IncidentsDeleted(i) \/ OthersWriteIo(i) \/ OthersReportIncident(i)
  PROVE  EngineStep /\ inst' = inst
<1>1. /\ fresh' = fresh /\ deployed' = deployed /\ behind' = behind /\ inst' = inst
      /\ io' \in SUBSET Instances /\ incidents' \in SUBSET Instances
  BY DEF EngineTypeOK, IoDeleted, IncidentsDeleted, OthersWriteIo, OthersReportIncident
<1>2. \A j \in Instances : inst[j].st \in {"ended", "erased"} =>
        (j \in io' => j \in io) /\ (j \in incidents' => j \in incidents)
  BY StatesOf DEF EngineTypeOK, IoDeleted, IncidentsDeleted, OthersWriteIo, OthersReportIncident
<1>3. EngineTypeOK' /\ EngineInv'
  BY <1>1 DEF EngineTypeOK, EngineInv, Known, Running, Ended, In
<1>4. Stable
  BY <1>1, <1>2 DEF Stable, EngineTypeOK
<1> QED
  BY <1>1, <1>3, <1>4 DEF EngineStep

LEMMA UndeployStep ==
  ASSUME EngineTypeOK, EngineInv, NEW v \in Vids, Undeploy(v) PROVE EngineStep
<1> DEFINE gone == OfDefinition(behind[v])
<1>1. /\ fresh' = fresh /\ behind' = behind /\ deployed' = deployed \ {behind[v]}
      /\ inst' = [i \in Instances |-> IF i \in gone THEN Nothing("erased") ELSE inst[i]]
      /\ io' = io \ gone /\ incidents' = incidents \ gone
  BY DEF Undeploy
<1>2. \A i \in gone : inst[i].st \in {"running", "ended"}
  BY DEF OfDefinition, Known, Running, Ended, In
<1> HIDE DEF gone
<1>3. EngineTypeOK'
  <2>1. Nothing("erased") \in Instance
    BY DEF Nothing, Instance
  <2>2. inst' \in [Instances -> Instance]
    BY <1>1, <2>1 DEF EngineTypeOK
  <2> QED
    BY <1>1, <2>2 DEF EngineTypeOK
<1>4. \A i \in Instances :
        \/ inst'[i] = inst[i]
        \/ i \in gone /\ inst'[i].st = "erased" /\ inst'[i].def = None
  BY <1>1 DEF Nothing, EngineTypeOK
<1>5. EngineInv'
  <2>1. \A j \in Instances : inst[j].st \in {"running", "ended"} <=> inst[j].def # None
    BY StatesOf DEF EngineInv
  <2>2. \A j \in Instances : inst'[j].st \in {"running", "ended"} <=> inst'[j].def # None
    BY <1>4, <2>1
  <2> QED
    BY <1>1, <2>2 DEF EngineInv, EngineTypeOK, Known, Running, Ended, In
<1>6. Stable
  BY <1>1, <1>2, <1>4 DEF Stable, EngineTypeOK
<1> QED
  BY <1>3, <1>5, <1>6 DEF EngineStep

LEMMA LinksStep ==
  ASSUME EngineTypeOK, EngineInv, NEW v \in Vids,
         Unlink(v) \/ \E d \in Definitions : Link(v, d)
  PROVE  EngineStep
<1>1. /\ fresh' = fresh /\ deployed' = deployed
      /\ inst' = inst /\ io' = io /\ incidents' = incidents
  BY DEF Unlink, Link
<1>2. \A w \in Vids :
        \/ behind'[w] = behind[w]
        \/ behind[w] \notin deployed /\ behind'[w] = None
        \/ /\ behind[w] = None /\ behind'[w] \in deployed
           /\ \A x \in Vids : behind[x] # behind'[w]
  <2>1. CASE Unlink(v)
    <3>1. \A w \in Vids : behind'[w] = IF w = v THEN None ELSE behind[w]
      BY <2>1 DEF EngineTypeOK, Unlink
    <3>2. behind[v] \notin deployed
      BY <2>1 DEF Unlink
    <3> QED
      BY <3>1, <3>2
  <2>2. CASE \E d \in Definitions : Link(v, d)
    <3>1. PICK d \in Definitions : Link(v, d)
      BY <2>2
    <3>2. \A w \in Vids : behind'[w] = IF w = v THEN d ELSE behind[w]
      BY <3>1 DEF EngineTypeOK, Link
    <3>3. behind[v] = None /\ d \in deployed /\ \A x \in Vids : behind[x] # d
      BY <3>1 DEF Link
    <3> QED
      BY <3>2, <3>3
  <2> QED
    BY <2>1, <2>2
<1>3. behind' \in [Vids -> Definitions \cup {None}]
  BY DEF EngineTypeOK, Unlink, Link
<1>4. EngineTypeOK'
  BY <1>1, <1>3 DEF EngineTypeOK
<1>5. EngineInv'
  <2>1. \A w \in Vids : behind'[w] \notin fresh
    <3>1. None \notin fresh
      BY InstanceAssumption DEF EngineTypeOK
    <3> QED
      BY <1>2, <3>1 DEF EngineInv
  <2> QED
    BY <1>1, <2>1 DEF EngineInv, EngineTypeOK, Known, Running, Ended, In
<1>6. Stable
  BY <1>1, <1>2, InstanceAssumption DEF Stable, EngineTypeOK
<1> QED
  BY <1>4, <1>5, <1>6 DEF EngineStep

LEMMA DeployStep ==
  ASSUME EngineTypeOK, EngineInv, NEW d \in Definitions, Deploy(d) PROVE EngineStep
<1>1. /\ fresh' = fresh \ {d} /\ deployed' = deployed \cup {d} /\ d \in fresh
      /\ behind' = behind /\ inst' = inst /\ io' = io /\ incidents' = incidents
  BY DEF Deploy
<1>2. EngineTypeOK'
  BY <1>1 DEF EngineTypeOK
<1>3. EngineInv'
  BY <1>1 DEF EngineInv, EngineTypeOK, Known, Running, Ended, In
<1>4. Stable
  BY <1>1 DEF Stable, EngineTypeOK
<1> QED
  BY <1>2, <1>3, <1>4 DEF EngineStep

LEMMA OthersStep ==
  ASSUME EngineTypeOK, EngineInv, Others PROVE EngineStep /\ req' = req
<1>1. ASSUME NEW i \in Instances, OthersStart(i) PROVE EngineStep
  BY <1>1, StartedStep DEF OthersStart
<1>2. ASSUME NEW i \in Instances, OthersStop(i) \/ OthersErase(i) PROVE EngineStep
  BY <1>2, StoppedStep, ErasedStep DEF OthersStop, OthersErase
<1>3. ASSUME NEW i \in Instances,
             \/ OthersWriteIo(i) \/ OthersDeleteIo(i)
             \/ OthersReportIncident(i) \/ OthersDeleteIncidents(i)
      PROVE  EngineStep
  BY <1>3, SidesStep DEF OthersDeleteIo, OthersDeleteIncidents
<1>4. ASSUME NEW v \in Vids, Undeploy(v) \/ Unlink(v) PROVE EngineStep
  BY <1>4, UndeployStep, LinksStep
<1>5. ASSUME NEW d \in Definitions, Deploy(d) \/ \E v \in Vids : Link(v, d) PROVE EngineStep
  BY <1>5, DeployStep, LinksStep
<1> QED
  BY <1>1, <1>2, <1>3, <1>4, <1>5 DEF Others

----------------------------------------------------------------------------
\* Calls and the request.

\* What a call is about, by its kind.
LEMMA CallKinds ==
  ASSUME NEW c \in Calls
  PROVE  /\ c.fail \in Failures /\ c.unknown \in Failures
         /\ c.do \in OnInstances => c.on \in Instances
         /\ c.do \in OnVids => c.on \in Vids
         /\ c.do \in DefinitionReads \cup {"check definition"} =>
              c.on \in Definitions \cup {Found}
         /\ c.do = "start" =>
              c.on[1] \in Definitions \cup {Found} /\ c.on[2] \in Keys \cup {None}
         /\ c.do = "list" =>
              c.on[1] \in Users \cup Definitions /\ c.on[2] \in SUBSET {"running", "ended"}
         /\ c.do = "list by key" => c.on[1] \in Users /\ c.on[2] \in Keys
         /\ c.do \in {"list deployments", "message"} => c.on \in Users
<1> USE DEF OnInstances, OnVids, DefinitionReads, Deletions
<1>1. CASE c \in [do : OnInstances, on : Instances, fail : Failures, unknown : Failures]
  BY <1>1
<1>2. CASE c \in [do : OnVids, on : Vids, fail : Failures, unknown : Failures]
  BY <1>2
<1>3. CASE c \in [do : DefinitionReads \cup {"check definition"}, on : Definitions \cup {Found},
                  fail : Failures, unknown : Failures]
  BY <1>3
<1>4. CASE c \in [do : {"start"}, on : (Definitions \cup {Found}) \X (Keys \cup {None}),
                  fail : Failures, unknown : Failures]
  BY <1>4
<1>5. CASE c \in [do : {"list"}, on : (Users \cup Definitions) \X SUBSET {"running", "ended"},
                  fail : Failures, unknown : Failures]
  BY <1>5
<1>6. CASE c \in [do : {"list by key"}, on : Users \X Keys,
                  fail : Failures, unknown : Failures]
  BY <1>6
<1>7. CASE c \in [do : {"list deployments", "message"}, on : Users,
                  fail : Failures, unknown : Failures]
  BY <1>7
<1> QED
  BY <1>1, <1>2, <1>3, <1>4, <1>5, <1>6, <1>7 DEF Calls

\* What is granted stays granted.
LEMMA GrantedStays ==
  ASSUME NEW u, NEW linked \in SUBSET Definitions, NEW c \in Calls,
         Stable, StillBehind(linked), Granted(u, linked, c)
  PROVE  Granted(u, linked, c)'
<1>1. ASSUME NEW i \in Instances, Owned(u, i) PROVE Owned(u, i)'
  BY <1>1 DEF Owned, Stable, TenantOf, Known, Running, Ended, In
<1>2. c.do \in Deletions \cup {"set variable"} => c.on \in Instances
  BY CallKinds DEF OnInstances
<1>3. ASSUME c.do \in {"find definition", "read deployment"}
      PROVE  behind'[c.on] = None \/ OwnOrNew(u, linked, behind'[c.on])
  <2>1. c.on \in Vids
    BY <1>3, CallKinds DEF OnVids
  <2>2. behind[c.on] = None \/ OwnOrNew(u, linked, behind[c.on])
    BY <1>3 DEF Granted
  <2>3. CASE behind'[c.on] \in deployed /\ \A w \in Vids : behind[w] # behind'[c.on]
    BY <2>3 DEF StillBehind, OwnOrNew
  <2> QED
    BY <2>1, <2>2, <2>3 DEF Stable
<1> QED
  BY <1>1, <1>2, <1>3 DEF Granted, OwnOrNew

\* What was behind the vids stays there, or is deployed no more.
LEMMA LinkedStay ==
  ASSUME NEW linked \in SUBSET Definitions, Stable, StillBehind(linked)
  PROVE  StillBehind(linked)'
  BY DEF Stable, StillBehind

LEMMA AfterFields ==
  ASSUME NEW r \in Handling
  PROVE  /\ After(r) \in Handling
         /\ After(r).user = r.user /\ After(r).calls = r.calls /\ After(r).pos = r.pos + 1
         /\ After(r).failed = r.failed /\ After(r).found = r.found
         /\ After(r).shown = r.shown /\ After(r).linked = r.linked
         /\ After(r).settled = r.settled
         /\ After(r).answer = IF r.pos < Len(r.calls) THEN "pending"
                              ELSE IF r.failed THEN "internal error" ELSE "ok"
<1>1. r.pos + 1 \in Nat \ {0}
  BY DEF Handling
<1>2. {"pending", "internal error", "ok"} \subseteq Answers \cup {"pending"}
  BY DEF Answers
<1>3. After(r).answer \in {"pending", "internal error", "ok"}
  BY DEF After, Handling
<1> QED
  BY <1>1, <1>2, <1>3 DEF After, Handling

----------------------------------------------------------------------------
\* The parts of the invariant, of a request that has come to the call at pos.

FoundOf(u, linked, calls, found) ==
  /\ StillBehind(linked)
  /\ found # None => found \notin fresh /\ OwnOrNew(u, linked, found)
  /\ \A n \in 1..Len(calls) : calls[n].do = "start" /\ calls[n].on[1] = Found =>
       /\ calls[1].on \in Vids
       /\ \A m \in 1..Len(calls) : calls[m].do = "find definition" =>
            calls[m].on = calls[1].on
       /\ found \in deployed => behind[calls[1].on] = found

AccessOf(u, linked, calls, pos) ==
  \A n \in pos..Len(calls) :
    /\ Granted(u, linked, calls[n]) \/ \E m \in pos..(n - 1) : Grants(calls[m], calls[n])
    /\ Fixed(u, calls[n])
    /\ calls[n].do \in {"list deployments", "list by key"} => Len(calls) = 1

StopOf(calls, pos, failed) ==
  /\ \A n \in 1..Len(calls) : calls[n].do = "delete instance" =>
       /\ calls[n].fail # "ignore"
       /\ \A m \in 1..Len(calls) : "ok" \notin {calls[m].fail, calls[m].unknown}
       /\ n >= pos \/ failed \/ inst[calls[n].on].st \in {"ended", "erased"}
  /\ calls # <<>> /\ calls[1].do = "check instance" =>
       /\ ~failed
       /\ \A n \in 1..Len(calls) : "join" \notin {calls[n].fail, calls[n].unknown}

ErasureOf(calls, pos, settled) ==
  /\ \A i \in settled : inst[i].st \in {"ended", "erased"}
  /\ \A n \in pos..Len(calls) :
       calls[n].do = "delete history" /\ calls[n].on \in settled =>
         /\ \/ calls[n].on \notin io
            \/ \E m \in pos..(n - 1) :
                 Strict(calls[m]) /\ calls[m].do = "delete io" /\ calls[m].on = calls[n].on
         /\ \/ calls[n].on \notin incidents
            \/ \E m \in pos..(n - 1) :
                 /\ Strict(calls[m]) /\ calls[m].do = "delete incidents"
                 /\ calls[m].on = calls[n].on

LEMMA FoundGoesOn ==
  ASSUME NEW u, NEW linked \in SUBSET Definitions,
         NEW calls \in Seq(Calls), NEW pos \in 1..Len(calls),
         NEW found \in Definitions \cup {None}, EngineStep, FoundOf(u, linked, calls, found)
  PROVE  FoundOf(u, linked, calls, found)'
<1>1. None \notin deployed'
  BY InstanceAssumption DEF EngineStep, EngineTypeOK
<1>2. found # None => found \notin fresh'
  BY DEF EngineStep, Stable, FoundOf
<1>3. ASSUME NEW n \in 1..Len(calls), calls[n].do = "start", calls[n].on[1] = Found,
             found \in deployed'
      PROVE  behind'[calls[1].on] = found
  BY <1>1, <1>3 DEF EngineStep, Stable, FoundOf
<1>4. StillBehind(linked)'
  BY LinkedStay DEF EngineStep, FoundOf
<1> QED
  BY <1>2, <1>3, <1>4 DEF FoundOf, OwnOrNew

LEMMA AccessGoesOn ==
  ASSUME NEW u, NEW linked \in SUBSET Definitions,
         NEW calls \in Seq(Calls), NEW pos \in 1..Len(calls),
         Stable, StillBehind(linked), AccessOf(u, linked, calls, pos),
         \A c \in Calls : Grants(calls[pos], c) => Granted(u, linked, c)
  PROVE  AccessOf(u, linked, calls, pos + 1)'
<1>1. ASSUME NEW n \in (pos + 1)..Len(calls)
      PROVE  \/ Granted(u, linked, calls[n])'
             \/ \E m \in (pos + 1)..(n - 1) : Grants(calls[m], calls[n])
  <2>1. n \in pos..Len(calls) /\ calls[n] \in Calls
    OBVIOUS
  <2>2. CASE Granted(u, linked, calls[n])
    BY <2>1, <2>2, GrantedStays
  <2>3. CASE \E m \in pos..(n - 1) : Grants(calls[m], calls[n])
    <3>1. PICK m \in pos..(n - 1) : Grants(calls[m], calls[n])
      BY <2>3
    <3>2. CASE m = pos
      <4>1. Granted(u, linked, calls[n])
        BY <2>1, <3>1, <3>2
      <4> QED
        BY <2>1, <4>1, GrantedStays
    <3>3. CASE m # pos
      BY <3>1, <3>3
    <3> QED
      BY <3>2, <3>3
  <2> QED
    BY <2>1, <2>2, <2>3 DEF AccessOf
<1>2. \A n \in (pos + 1)..Len(calls) :
        /\ Fixed(u, calls[n])
        /\ calls[n].do \in {"list deployments", "list by key"} => Len(calls) = 1
  <2>1. (pos + 1)..Len(calls) \subseteq pos..Len(calls)
    OBVIOUS
  <2> QED
    BY <2>1 DEF AccessOf
<1> QED
  BY <1>1, <1>2 DEF AccessOf

LEMMA StopGoesOn ==
  ASSUME NEW calls \in Seq(Calls), NEW pos \in 1..Len(calls),
         NEW failed \in BOOLEAN, NEW f \in BOOLEAN,
         Stable, StopOf(calls, pos, failed)
  PROVE  /\ failed => f
         /\ calls[1].do = "check instance" => ~f
         /\ calls[pos].do = "delete instance" =>
              f \/ inst'[calls[pos].on].st \in {"ended", "erased"}
         => StopOf(calls, pos + 1, f)'
<1>0. SUFFICES ASSUME failed => f,
                      calls[1].do = "check instance" => ~f,
                      calls[pos].do = "delete instance" =>
                        f \/ inst'[calls[pos].on].st \in {"ended", "erased"}
               PROVE  StopOf(calls, pos + 1, f)'
  OBVIOUS
<1>1. ASSUME NEW n \in 1..Len(calls), calls[n].do = "delete instance"
      PROVE  /\ calls[n].fail # "ignore"
             /\ \A m \in 1..Len(calls) : "ok" \notin {calls[m].fail, calls[m].unknown}
             /\ n >= pos + 1 \/ f \/ inst'[calls[n].on].st \in {"ended", "erased"}
  <2>1. /\ calls[n].fail # "ignore"
        /\ \A m \in 1..Len(calls) : "ok" \notin {calls[m].fail, calls[m].unknown}
        /\ n >= pos \/ failed \/ inst[calls[n].on].st \in {"ended", "erased"}
    BY <1>1 DEF StopOf
  <2>2. calls[n].on \in Instances
    <3>1. calls[n] \in Calls
      OBVIOUS
    <3> QED
      BY <1>1, <3>1, CallKinds DEF OnInstances, Deletions
  <2>3. inst[calls[n].on].st \in {"ended", "erased"} => inst'[calls[n].on].st \in {"ended", "erased"}
    BY <2>2 DEF Stable
  <2>4. n >= pos + 1 \/ n = pos \/ ~(n >= pos)
    OBVIOUS
  <2> QED
    BY <1>0, <1>1, <2>1, <2>3, <2>4
<1>2. calls # <<>> /\ calls[1].do = "check instance" =>
        ~f /\ \A n \in 1..Len(calls) : "join" \notin {calls[n].fail, calls[n].unknown}
  BY <1>0 DEF StopOf
<1> QED
  BY <1>1, <1>2 DEF StopOf

LEMMA ErasureGoesOn ==
  ASSUME NEW calls \in Seq(Calls), NEW pos \in 1..Len(calls), NEW settled \in SUBSET Instances,
         Stable, ErasureOf(calls, pos, settled)
  PROVE  /\ Strict(calls[pos]) /\ calls[pos].do = "delete io" => calls[pos].on \notin io'
         /\ Strict(calls[pos]) /\ calls[pos].do = "delete incidents" =>
              calls[pos].on \notin incidents'
         => ErasureOf(calls, pos + 1, settled)'
<1>0. SUFFICES ASSUME Strict(calls[pos]) /\ calls[pos].do = "delete io" =>
                        calls[pos].on \notin io',
                      Strict(calls[pos]) /\ calls[pos].do = "delete incidents" =>
                        calls[pos].on \notin incidents'
               PROVE  ErasureOf(calls, pos + 1, settled)'
  OBVIOUS
<1>1. \A i \in settled : inst'[i].st \in {"ended", "erased"}
  BY DEF ErasureOf, Stable
<1>2. ASSUME NEW n \in (pos + 1)..Len(calls),
             calls[n].do = "delete history", calls[n].on \in settled
      PROVE  /\ \/ calls[n].on \notin io'
                \/ \E m \in (pos + 1)..(n - 1) :
                     Strict(calls[m]) /\ calls[m].do = "delete io" /\ calls[m].on = calls[n].on
             /\ \/ calls[n].on \notin incidents'
                \/ \E m \in (pos + 1)..(n - 1) :
                     /\ Strict(calls[m]) /\ calls[m].do = "delete incidents"
                     /\ calls[m].on = calls[n].on
  <2>1. n \in pos..Len(calls) /\ calls[n].on \in Instances
    <3>1. n \in pos..Len(calls)
      OBVIOUS
    <3>2. calls[n].on \in Instances
      BY <1>2
    <3> QED
      BY <3>1, <3>2
  <2>2. inst[calls[n].on].st \in {"ended", "erased"}
    BY <1>2 DEF ErasureOf
  <2>3. /\ calls[n].on \in io' => calls[n].on \in io
        /\ calls[n].on \in incidents' => calls[n].on \in incidents
    BY <2>1, <2>2 DEF Stable
  <2>4. \A m \in pos..(n - 1) : m = pos \/ m \in (pos + 1)..(n - 1)
    OBVIOUS
  <2>5. /\ \/ calls[n].on \notin io
           \/ \E m \in pos..(n - 1) :
                Strict(calls[m]) /\ calls[m].do = "delete io" /\ calls[m].on = calls[n].on
        /\ \/ calls[n].on \notin incidents
           \/ \E m \in pos..(n - 1) :
                /\ Strict(calls[m]) /\ calls[m].do = "delete incidents"
                /\ calls[m].on = calls[n].on
    BY <1>2, <2>1 DEF ErasureOf
  <2> QED
    BY <1>0, <2>3, <2>4, <2>5
<1> QED
  BY <1>1, <1>2 DEF ErasureOf

LEMMA PartsOf ==
  ASSUME IndInv, Pending
  PROVE  /\ req.user \in Users
         /\ req.calls \in Seq(Calls) /\ req.pos \in 1..Len(req.calls)
         /\ req.found \in Definitions \cup {None} /\ req.failed \in BOOLEAN
         /\ req.linked \in SUBSET Definitions /\ req.settled \in SUBSET Instances
         /\ EngineTypeOK /\ EngineInv
         /\ FoundOf(req.user, req.linked, req.calls, req.found)
         /\ AccessOf(req.user, req.linked, req.calls, req.pos)
         /\ StopOf(req.calls, req.pos, req.failed)
         /\ ErasureOf(req.calls, req.pos, req.settled)
<1>1. /\ req \in Handling /\ req.user \in Users /\ req.pos <= Len(req.calls)
      /\ EngineTypeOK /\ EngineInv
  BY DEF IndInv, TypeOK, Pending, Handling
<1>2. /\ req.calls \in Seq(Calls) /\ req.pos \in Nat \ {0}
      /\ req.found \in Definitions \cup {None} /\ req.failed \in BOOLEAN
      /\ req.linked \in SUBSET Definitions /\ req.settled \in SUBSET Instances
  BY <1>1 DEF Handling
<1>3. req.pos \in 1..Len(req.calls) /\ DOMAIN req.calls = 1..Len(req.calls)
  BY <1>1, <1>2
<1>4. FoundOf(req.user, req.linked, req.calls, req.found)
  BY <1>3 DEF IndInv, LinkedInv, FoundInv, FoundOf
<1>5. AccessOf(req.user, req.linked, req.calls, req.pos)
  BY DEF IndInv, AccessInv, AccessOf, Left
<1>6. StopOf(req.calls, req.pos, req.failed)
  <2>1. \A n \in 1..Len(req.calls) : n \in Left => n >= req.pos
    BY <1>2 DEF Left
  <2> QED
    BY <1>3, <2>1 DEF IndInv, StopInv, StopOf
<1>7. ErasureOf(req.calls, req.pos, req.settled)
  <2>1. \A i \in req.settled : inst[i].st \in {"ended", "erased"}
    BY DEF IndInv, ErasureInv, In
  <2>2. \A n \in req.pos..Len(req.calls) :
          req.calls[n].do = "delete history" /\ req.calls[n].on \in req.settled =>
            \A x \in {"delete io", "delete incidents"} :
              \/ req.calls[n].on \notin IF x = "delete io" THEN io ELSE incidents
              \/ \E m \in req.pos..(n - 1) :
                   /\ Strict(req.calls[m]) /\ req.calls[m].do = x
                   /\ req.calls[m].on = req.calls[n].on
    BY DEF IndInv, ErasureInv, Left
  <2> QED
    BY <2>1, <2>2 DEF ErasureOf
<1> QED
  BY <1>1, <1>2, <1>3, <1>4, <1>5, <1>6, <1>7

LEMMA FromParts ==
  ASSUME (req \in Handling)', (req.user # None)', EngineTypeOK', EngineInv',
         (Pending <=> req.pos <= Len(req.calls))', (req.answer = "ok" => ~req.failed)',
         FoundOf(req.user, req.linked, req.calls, req.found)',
         (Pending => AccessOf(req.user, req.linked, req.calls, req.pos))',
         StopOf(req.calls, req.pos, req.failed)',
         ErasureOf(req.calls, req.pos, req.settled)'
  PROVE  IndInv'
<1>1. /\ req'.calls \in Seq(Calls) /\ req'.pos \in Nat \ {0}
      /\ req'.settled \in SUBSET Instances
  BY DEF Handling
<1>2. Len(req'.calls) \in Nat /\ DOMAIN req'.calls = 1..Len(req'.calls)
  BY <1>1
<1>3. TypeOK'
  BY DEF TypeOK, Pending
<1>4. LinkedInv' /\ FoundInv'
  BY <1>2 DEF LinkedInv, FoundInv, FoundOf
<1>5. AccessInv'
  BY DEF AccessInv, AccessOf, Left
<1>6. StopInv'
  <2>1. \A n \in 1..Len(req'.calls) : n >= req'.pos => Pending' /\ n \in Left'
    BY <1>1, <1>2 DEF Left
  <2> QED
    BY <1>2, <2>1 DEF StopInv, StopOf
<1>7. ErasureInv'
  <2>1. (req.settled \subseteq In({"ended", "erased"}))'
    BY <1>1 DEF ErasureOf, In
  <2>2. ASSUME NEW n \in Left', req'.calls[n].do = "delete history",
               req'.calls[n].on \in req'.settled
        PROVE  \A x \in {"delete io", "delete incidents"} :
                 \/ req'.calls[n].on \notin IF x = "delete io" THEN io' ELSE incidents'
                 \/ \E m \in req'.pos..(n - 1) :
                      /\ Strict(req'.calls[m]) /\ req'.calls[m].do = x
                      /\ req'.calls[m].on = req'.calls[n].on
    <3>1. /\ \/ req'.calls[n].on \notin io'
             \/ \E m \in req'.pos..(n - 1) :
                  /\ Strict(req'.calls[m]) /\ req'.calls[m].do = "delete io"
                  /\ req'.calls[m].on = req'.calls[n].on
          /\ \/ req'.calls[n].on \notin incidents'
             \/ \E m \in req'.pos..(n - 1) :
                  /\ Strict(req'.calls[m]) /\ req'.calls[m].do = "delete incidents"
                  /\ req'.calls[m].on = req'.calls[n].on
      BY <2>2 DEF ErasureOf, Left
    <3>2. /\ (IF "delete io" = "delete io" THEN io' ELSE incidents') = io'
          /\ (IF "delete incidents" = "delete io" THEN io' ELSE incidents') = incidents'
      OBVIOUS
    <3> QED
      BY <3>1, <3>2
  <2> QED
    BY <2>1, <2>2 DEF ErasureInv
<1> QED
  BY <1>3, <1>4, <1>5, <1>6, <1>7 DEF IndInv

\* The request, as it is after the call at hand: what it has found, and
\* whether an error is kept.
Passes(r) ==
  /\ r \in Handling
  /\ r.user = req.user /\ r.calls = req.calls /\ r.pos = req.pos
  /\ r.linked = req.linked /\ r.settled = req.settled
  /\ \/ r.found \in {None, req.found}
     \/ Current.do = "find definition" /\ r.found = behind[Current.on] /\ r.found \in deployed
  /\ \A c \in Calls : Grants(Current, c) => Granted(req.user, req.linked, c)
  /\ req.failed => r.failed
  /\ req.calls[1].do = "check instance" => ~r.failed
  /\ Current.do = "delete instance" =>
       r.failed \/ inst'[Current.on].st \in {"ended", "erased"}
  /\ Strict(Current) /\ Current.do = "delete io" => Current.on \notin io'
  /\ Strict(Current) /\ Current.do = "delete incidents" => Current.on \notin incidents'

\* The request has made its call, successfully or with an error that does not
\* end it: what the invariant says of the calls that are left is still true.
LEMMA GoesOn ==
  ASSUME IndInv, Pending, EngineStep, NEW r, Passes(r), req' = After(r)
  PROVE  IndInv'
<1>1. PICK u, calls, pos, linked, settled, failed, found :
        /\ u = req.user /\ calls = req.calls /\ pos = req.pos
        /\ linked = req.linked /\ settled = req.settled /\ failed = req.failed /\ found = r.found
  OBVIOUS
<1>2. /\ u \in Users /\ calls \in Seq(Calls) /\ pos \in 1..Len(calls)
      /\ linked \in SUBSET Definitions
      /\ settled \in SUBSET Instances /\ failed \in BOOLEAN
      /\ EngineTypeOK /\ EngineInv
      /\ FoundOf(u, linked, calls, req.found) /\ AccessOf(u, linked, calls, pos)
      /\ StopOf(calls, pos, failed) /\ ErasureOf(calls, pos, settled)
  BY <1>1, PartsOf
<1>3. Current = calls[pos] /\ Current \in Calls
  BY <1>1, <1>2 DEF Current
<1>4. /\ r \in Handling /\ r.user = u /\ r.calls = calls /\ r.pos = pos
      /\ r.linked = linked /\ r.settled = settled
      /\ r.failed \in BOOLEAN /\ found \in Definitions \cup {None}
  BY <1>1 DEF Passes, Handling
<1>5. /\ req' \in Handling
      /\ req'.user = u /\ req'.calls = calls /\ req'.pos = pos + 1
      /\ req'.failed = r.failed /\ req'.found = found
      /\ req'.linked = linked /\ req'.settled = settled
      /\ req'.answer = IF pos < Len(calls) THEN "pending"
                       ELSE IF r.failed THEN "internal error" ELSE "ok"
  BY <1>1, <1>4, AfterFields
<1>6. EngineTypeOK' /\ EngineInv' /\ Stable
  BY DEF EngineStep
<1>7. FoundOf(u, linked, calls, found)
  <2>1. CASE found = req.found
    BY <1>2, <2>1
  <2>2. CASE found = None
    <3>1. None \notin deployed
      BY <1>2, InstanceAssumption DEF EngineTypeOK
    <3> QED
      BY <1>2, <2>2, <3>1 DEF FoundOf
  <2>3. CASE /\ Current.do = "find definition"
             /\ found = behind[Current.on] /\ found \in deployed
    <3>1. Current.on \in Vids
      BY <1>3, <2>3, CallKinds DEF OnVids
    <3>2. Granted(u, linked, Current)
      <4>1. pos \in pos..Len(calls) /\ pos..(pos - 1) = {}
        BY <1>2
      <4> QED
        BY <1>2, <1>3, <4>1 DEF AccessOf
    <3>3. found # None
      BY <1>2, <2>3, InstanceAssumption DEF EngineTypeOK
    <3>4. OwnOrNew(u, linked, found)
      BY <2>3, <3>2, <3>3 DEF Granted
    <3>5. found \notin fresh
      BY <1>2, <2>3, <3>1 DEF EngineInv
    <3> QED
      BY <1>2, <1>3, <2>3, <3>4, <3>5 DEF FoundOf
  <2> QED
    BY <1>1, <2>1, <2>2, <2>3 DEF Passes
<1>8. FoundOf(u, linked, calls, found)'
  BY <1>2, <1>4, <1>7, FoundGoesOn
<1>9. AccessOf(u, linked, calls, pos + 1)'
  <2>1. \A c \in Calls : Grants(calls[pos], c) => Granted(u, linked, c)
    BY <1>1, <1>3 DEF Passes
  <2> QED
    BY <1>2, <1>6, <2>1, AccessGoesOn DEF FoundOf
<1>10. StopOf(calls, pos + 1, r.failed)'
  <2>1. PICK f : f = r.failed
    OBVIOUS
  <2>2. f \in BOOLEAN
    BY <1>4, <2>1
  <2>3. /\ failed => f
        /\ calls[1].do = "check instance" => ~f
        /\ calls[pos].do = "delete instance" =>
             f \/ inst'[calls[pos].on].st \in {"ended", "erased"}
    BY <1>1, <1>3, <2>1 DEF Passes
  <2>4. /\ calls \in Seq(Calls) /\ pos \in 1..Len(calls) /\ failed \in BOOLEAN
        /\ Stable /\ StopOf(calls, pos, failed)
    BY <1>2, <1>6
  <2>5. StopOf(calls, pos + 1, f)'
    BY <2>2, <2>3, <2>4, StopGoesOn, Zenon
  <2> QED
    BY <2>1, <2>5
<1>11. ErasureOf(calls, pos + 1, settled)'
  <2>1. /\ Strict(calls[pos]) /\ calls[pos].do = "delete io" => calls[pos].on \notin io'
        /\ Strict(calls[pos]) /\ calls[pos].do = "delete incidents" =>
             calls[pos].on \notin incidents'
    BY <1>3 DEF Passes
  <2> QED
    BY <1>2, <1>6, <2>1, ErasureGoesOn
<1> QED
  <2>1. (req.user # None)'
    BY <1>2, <1>5, InstanceAssumption
  <2>2. (Pending <=> req.pos <= Len(req.calls))' /\ (req.answer = "ok" => ~req.failed)'
    <3>1. Len(calls) \in Nat /\ pos \in Nat
      BY <1>2
    <3>2. pos < Len(calls) <=> pos + 1 <= Len(calls)
      BY <3>1
    <3>3. /\ Pending' <=> pos < Len(calls)
          /\ req'.answer = "ok" => ~req'.failed
      BY <1>5 DEF Pending
    <3> QED
      BY <1>5, <3>2, <3>3
  <2> QED
    BY <1>5, <1>6, <1>8, <1>9, <1>10, <1>11, <2>1, <2>2, FromParts

LEMMA CurrentCall ==
  ASSUME IndInv, Pending
  PROVE  Current \in Calls /\ Current = req.calls[req.pos] /\ req.calls # <<>>
<1>1. PICK calls, pos : calls = req.calls /\ pos = req.pos
  OBVIOUS
<1>2. calls \in Seq(Calls) /\ pos \in 1..Len(calls)
  BY <1>1, PartsOf
<1>3. calls[pos] \in Calls /\ calls # <<>>
  BY <1>2
<1> QED
  BY <1>1, <1>3 DEF Current

\* The request is answered before all its calls are made.
LEMMA Ends ==
  ASSUME IndInv, Pending, EngineStep, NEW code \in Answers, Answer(code)
  PROVE  (code = "ok" => "ok" \in {Current.fail, Current.unknown}) => IndInv'
<1>0. SUFFICES ASSUME code = "ok" => "ok" \in {Current.fail, Current.unknown}
               PROVE  IndInv'
  OBVIOUS
<1>1. PICK u, calls, pos, linked, found :
        /\ u = req.user /\ calls = req.calls /\ pos = req.pos
        /\ linked = req.linked /\ found = req.found
  OBVIOUS
<1>2. /\ u \in Users /\ calls \in Seq(Calls) /\ pos \in 1..Len(calls)
      /\ linked \in SUBSET Definitions /\ found \in Definitions \cup {None}
      /\ EngineTypeOK /\ EngineInv
      /\ FoundOf(u, linked, calls, found) /\ StopOf(calls, pos, req.failed)
  BY <1>1, PartsOf
<1>3. /\ req'.user = u /\ req'.calls = (IF code = "ok" THEN calls ELSE <<>>)
      /\ req'.pos = 1 /\ req'.answer = code /\ req'.failed = FALSE
      /\ req'.found = None /\ req'.shown = {}
      /\ req'.linked = {} /\ req'.settled = {}
      /\ req' = [user |-> req'.user, calls |-> req'.calls, pos |-> req'.pos,
                 answer |-> req'.answer, failed |-> req'.failed, found |-> req'.found,
                 shown |-> req'.shown, linked |-> req'.linked,
                 settled |-> req'.settled]
  BY <1>1 DEF Answer, Idle
<1>4. req'.calls \in Seq(Calls)
  BY <1>2, <1>3
<1>5. EngineTypeOK' /\ EngineInv' /\ code # "pending"
  BY DEF EngineStep, Answers
<1>6. req' \in Handling
  <2>1. /\ req'.user \in Users \cup {None} /\ req'.pos \in Nat \ {0}
        /\ req'.answer \in Answers \cup {"pending"} /\ req'.failed \in BOOLEAN
        /\ req'.found \in Definitions \cup {None} /\ req'.settled \in SUBSET Instances
        /\ req'.shown \in SUBSET (Instances \cup Definitions)
        /\ req'.linked \in SUBSET Definitions
    <3>1. req'.user \in Users \cup {None} /\ req'.answer \in Answers \cup {"pending"}
      BY <1>2, <1>3
    <3>2. req'.pos \in Nat \ {0} /\ req'.failed \in BOOLEAN
      <4>1. 1 \in Nat \ {0} /\ FALSE \in BOOLEAN
        OBVIOUS
      <4> QED
        BY <1>3, <4>1, Zenon
    <3>3. /\ req'.found \in Definitions \cup {None}
          /\ req'.linked = {} /\ req'.settled = {} /\ req'.shown = {}
      BY <1>3
    <3> QED
      BY <3>1, <3>2, <3>3
  <2> QED
    BY <1>3, <1>4, <2>1 DEF Handling
<1>7. TypeOK' /\ ~Pending'
  BY <1>3, <1>5, <1>6 DEF TypeOK, Pending
<1>8. LinkedInv' /\ FoundInv'
  <2>0. LinkedInv'
    BY <1>3 DEF LinkedInv, StillBehind
  <2>1. FoundOf(u, linked, calls, None)
    <3>1. None \notin deployed
      BY <1>2, InstanceAssumption DEF EngineTypeOK
    <3> QED
      BY <1>2, <3>1 DEF FoundOf
  <2>2. FoundOf(u, linked, calls, None)'
    BY <1>2, <2>1, FoundGoesOn
  <2>3. DOMAIN calls = 1..Len(calls)
    BY <1>2
  <2>4. CASE req'.calls = calls
    BY <1>3, <2>0, <2>2, <2>3, <2>4 DEF FoundInv, FoundOf, OwnOrNew
  <2>5. CASE req'.calls = <<>>
    <3>1. DOMAIN req'.calls = {}
      BY <2>5
    <3> QED
      BY <1>3, <2>0, <3>1 DEF FoundInv, OwnOrNew
  <2> QED
    BY <1>3, <2>0, <2>4, <2>5
<1>9. AccessInv'
  BY <1>7 DEF AccessInv
<1>10. StopInv'
  <2>1. CASE req'.calls = <<>>
    <3>1. DOMAIN req'.calls = {}
      BY <2>1
    <3> QED
      BY <1>3, <2>1, <3>1 DEF StopInv
  <2>2. CASE code = "ok"
    <3>1. req'.calls = calls /\ DOMAIN calls = 1..Len(calls)
      BY <1>2, <1>3, <2>2
    <3>2. "ok" \in {calls[pos].fail, calls[pos].unknown}
      BY <1>0, <1>1, <2>2 DEF Current
    <3>3. \A n \in 1..Len(calls) : calls[n].do # "delete instance"
      BY <1>2, <3>2 DEF StopOf
    <3>4. calls # <<>> /\ calls[1].do = "check instance" =>
            \A n \in 1..Len(calls) : "join" \notin {calls[n].fail, calls[n].unknown}
      BY <1>2 DEF StopOf
    <3> QED
      BY <1>3, <3>1, <3>3, <3>4 DEF StopInv
  <2> QED
    BY <1>3, <2>1, <2>2
<1>11. ErasureInv'
  BY <1>3, <1>7 DEF ErasureInv
<1> QED
  BY <1>5, <1>7, <1>8, <1>9, <1>10, <1>11 DEF IndInv

LEMMA Fails ==
  ASSUME IndInv, Pending, EngineStep, NEW fail, NEW code \in Answers \ {"ok"},
         FailsAs(fail, code)
  PROVE  \/ fail = Current.fail
         \/ fail = Current.unknown /\ Current.do # "delete instance"
         => IndInv'
<1>0. SUFFICES ASSUME \/ fail = Current.fail
                      \/ fail = Current.unknown /\ Current.do # "delete instance"
               PROVE  IndInv'
  OBVIOUS
<1>1. /\ req \in Handling /\ req.calls \in Seq(Calls) /\ req.pos \in 1..Len(req.calls)
      /\ StopOf(req.calls, req.pos, req.failed)
  BY PartsOf DEF IndInv, TypeOK
<1>2. Current \in Calls /\ Current = req.calls[req.pos] /\ req.calls # <<>>
  BY CurrentCall
<1>3. fail \in Failures /\ fail \in {Current.fail, Current.unknown}
  BY <1>0, <1>2, CallKinds
<1>4. req.calls[1].do = "check instance" => ~req.failed /\ fail # "join"
  BY <1>1, <1>2, <1>3 DEF StopOf
<1>5. Current.do = "delete instance" => fail # "ignore"
  BY <1>0, <1>1, <1>2 DEF StopOf
<1>6. CASE fail = "join"
  <2>1. PICK r : r = [req EXCEPT !.failed = TRUE]
    OBVIOUS
  <2>2. ~Strict(Current)
    BY <1>3, <1>6 DEF Strict
  <2>3. /\ r \in Handling /\ r.failed = TRUE /\ r.found = req.found
        /\ r.user = req.user /\ r.calls = req.calls /\ r.pos = req.pos
        /\ r.linked = req.linked /\ r.settled = req.settled
    BY <1>1, <2>1 DEF Handling
  <2>4. \A c \in Calls : ~Grants(Current, c)
    BY <2>2 DEF Grants
  <2>5. Passes(r)
    BY <1>4, <1>6, <2>2, <2>3, <2>4 DEF Passes
  <2>6. req' = After(r)
    BY <1>6, <2>1 DEF FailsAs
  <2> QED
    BY <2>5, <2>6, GoesOn
<1>7. CASE fail = "ignore"
  <2>1. PICK r : r = [req EXCEPT !.found = None]
    OBVIOUS
  <2>2. ~Strict(Current)
    BY <1>3, <1>7 DEF Strict
  <2>3. /\ r \in Handling /\ r.failed = req.failed /\ r.found = None
        /\ r.user = req.user /\ r.calls = req.calls /\ r.pos = req.pos
        /\ r.linked = req.linked /\ r.settled = req.settled
    BY <1>1, <2>1 DEF Handling
  <2>4. \A c \in Calls : ~Grants(Current, c)
    BY <2>2 DEF Grants
  <2>5. Passes(r)
    BY <1>4, <1>5, <1>7, <2>2, <2>3, <2>4 DEF Passes
  <2>6. req' = After(r)
    BY <1>7, <2>1 DEF FailsAs
  <2> QED
    BY <2>5, <2>6, GoesOn
<1>8. CASE fail = "own"
  <2>1. Answer(code)
    BY <1>8 DEF FailsAs
  <2> QED
    BY <2>1, Ends
<1>9. CASE fail \notin {"join", "ignore", "own"}
  <2>1. Answer(fail)
    BY <1>9 DEF FailsAs
  <2>2. fail \in Answers
    BY <1>3, <1>9 DEF Failures
  <2> QED
    BY <1>3, <2>1, <2>2, Ends
<1> QED
  BY <1>6, <1>7, <1>8, <1>9

----------------------------------------------------------------------------
\* The request after a call that succeeds.

\* As before the call, up to what it has shown.
Like(r) ==
  /\ r \in Handling
  /\ r.user = req.user /\ r.calls = req.calls /\ r.pos = req.pos
  /\ r.linked = req.linked /\ r.settled = req.settled
  /\ r.failed = req.failed

LEMMA LikeShown ==
  ASSUME IndInv, NEW things \in SUBSET (Instances \cup Definitions), NEW r,
         r = [req EXCEPT !.shown = @ \cup things]
  PROVE  Like(r) /\ r.found = req.found
<1>1. req \in Handling
  BY DEF IndInv, TypeOK
<1> QED
  BY <1>1 DEF Like, Handling

LEMMA LikeFound ==
  ASSUME IndInv, NEW d \in Definitions, NEW r,
         r = [req EXCEPT !.found = d, !.shown = @ \cup {d}]
  PROVE  Like(r) /\ r.found = d
<1>1. req \in Handling
  BY DEF IndInv, TypeOK
<1> QED
  BY <1>1 DEF Like, Handling

\* What the call has to see to, for those that are left.
Established ==
  /\ \A c \in Calls : Grants(Current, c) => Granted(req.user, req.linked, c)
  /\ Current.do = "delete instance" => inst'[Current.on].st \in {"ended", "erased"}
  /\ Current.do = "delete io" => Current.on \notin io'
  /\ Current.do = "delete incidents" => Current.on \notin incidents'

Checks == {"check definition", "check deployment", "check instance", "check history"}

LEMMA NothingToEstablish ==
  ASSUME Current.do \notin Checks \cup {"delete instance", "delete io", "delete incidents"}
  PROVE  Established
  BY DEF Established, Grants, Checks

LEMMA Succeeds ==
  ASSUME IndInv, Pending, EngineStep, Established, NEW r, Like(r), req' = After(r)
  PROVE  \/ r.found = req.found
         \/ Current.do = "find definition" /\ r.found = behind[Current.on] /\ r.found \in deployed
         => IndInv'
<1>0. SUFFICES ASSUME \/ r.found = req.found
                      \/ /\ Current.do = "find definition"
                         /\ r.found = behind[Current.on] /\ r.found \in deployed
               PROVE  IndInv'
  OBVIOUS
<1>1. req.calls # <<>> /\ StopOf(req.calls, req.pos, req.failed)
  BY CurrentCall, PartsOf
<1>2. req.calls[1].do = "check instance" => ~req.failed
  BY <1>1 DEF StopOf
<1>3. Passes(r)
  BY <1>0, <1>2 DEF Passes, Like, Established
<1> QED
  BY <1>3, GoesOn

LEMMA SucceedsDone ==
  ASSUME IndInv, Pending, EngineStep, Established, Done PROVE IndInv'
<1>1. PICK r : r = req
  OBVIOUS
<1>2. Like(r) /\ r.found = req.found /\ req' = After(r)
  BY <1>1 DEF Like, IndInv, TypeOK, Done
<1> QED
  BY <1>2, Succeeds

LEMMA SucceedsShow ==
  ASSUME IndInv, Pending, EngineStep, Established,
         NEW things \in SUBSET (Instances \cup Definitions), Show(things)
  PROVE  IndInv'
<1>1. PICK r : r = [req EXCEPT !.shown = @ \cup things]
  OBVIOUS
<1>2. Like(r) /\ r.found = req.found
  BY <1>1, LikeShown
<1>3. req' = After(r)
  BY <1>1 DEF Show
<1> QED
  BY <1>2, <1>3, Succeeds

----------------------------------------------------------------------------
\* The steps of a request.

LEMMA FailStep ==
  ASSUME IndInv, Pending, EngineStep, NEW code \in Answers \ {"ok"}, Fail(code)
  PROVE  IndInv'
<1>1. PICK fail : fail = Current.fail
  OBVIOUS
<1>2. FailsAs(fail, code)
  BY <1>1 DEF Fail
<1> QED
  BY <1>1, <1>2, Fails

LEMMA FailUnknownStep ==
  ASSUME IndInv, Pending, EngineStep, FailUnknown, Current.do # "delete instance"
  PROVE  IndInv'
<1>1. PICK fail : fail = Current.unknown
  OBVIOUS
<1>2. FailsAs(fail, "internal error") /\ "internal error" \in Answers \ {"ok"}
  BY <1>1 DEF FailUnknown, Answers
<1> QED
  BY <1>1, <1>2, Fails

LEMMA Codes ==
  {"internal error", "not found", "forbidden", "unauthorized", "no answer"}
    \subseteq Answers \ {"ok"}
  BY DEF Answers

LEMMA CheckDefinitionStep == IndInv /\ CheckDefinition => IndInv'
<1> SUFFICES ASSUME IndInv, CheckDefinition PROVE IndInv'
  OBVIOUS
<1>1. /\ Pending /\ Current.do = "check definition"
      /\ IF Current.on \in deployed /\ Tenant[Current.on] = req.user
         THEN Done ELSE Fail("internal error")
      /\ EngineStep
  BY UnchangedStep DEF CheckDefinition, At, On, IndInv, TypeOK
<1>2. CASE Current.on \in deployed /\ Tenant[Current.on] = req.user
  <2>1. ASSUME NEW c \in Calls, Grants(Current, c) PROVE Granted(req.user, req.linked, c)
    <3>1. \/ c.do \in {"start", "list"} /\ Tenant[c.on[1]] = req.user
          \/ c.do \in DefinitionReads /\ Tenant[c.on] = req.user
      BY <1>1, <1>2, <2>1 DEF Grants
    <3> QED
      BY <3>1 DEF Granted, Deletions, DefinitionReads
  <2>2. Established
    BY <1>1, <2>1 DEF Established
  <2> QED
    BY <1>1, <1>2, <2>2, SucceedsDone
<1>3. CASE ~(Current.on \in deployed /\ Tenant[Current.on] = req.user)
  BY <1>1, <1>3, Codes, FailStep
<1> QED
  BY <1>2, <1>3

LEMMA CheckDeploymentStep == IndInv /\ CheckDeployment => IndInv'
<1> SUFFICES ASSUME IndInv, CheckDeployment PROVE IndInv'
  OBVIOUS
<1> DEFINE d == behind[Current.on]
<1>1. /\ Pending /\ Current.do = "check deployment"
      /\ IF d = None THEN FailUnknown
         ELSE IF d \in deployed /\ Tenant[d] = req.user
         THEN Done ELSE Fail("internal error")
      /\ EngineStep
  BY UnchangedStep DEF CheckDeployment, At, On, IndInv, TypeOK
<1>2. CASE d = None
  BY <1>1, <1>2, FailUnknownStep
<1>3. CASE d # None /\ d \in deployed /\ Tenant[d] = req.user
  <2>1. ASSUME NEW c \in Calls, Grants(Current, c) PROVE Granted(req.user, req.linked, c)
    <3>1. c.do \in {"find definition", "read deployment"} /\ Tenant[behind[c.on]] = req.user
      BY <1>1, <1>3, <2>1 DEF Grants
    <3> QED
      BY <3>1 DEF Granted, OwnOrNew, Deletions, DefinitionReads
  <2>2. Established
    BY <1>1, <2>1 DEF Established
  <2> QED
    BY <1>1, <1>3, <2>2, SucceedsDone
<1>4. CASE d # None /\ ~(d \in deployed /\ Tenant[d] = req.user)
  BY <1>1, <1>4, Codes, FailStep
<1> QED
  BY <1>2, <1>3, <1>4

LEMMA ChecksOfInstances ==
  ASSUME IndInv, Pending, EngineStep, Done,
         Current.do \in {"check instance", "check history"},
         Owned(req.user, Current.on)
  PROVE  IndInv'
<1>1. ASSUME NEW c \in Calls, Grants(Current, c) PROVE Granted(req.user, req.linked, c)
  <2>1. c.do \in Deletions \cup {"set variable"} /\ Owned(req.user, c.on)
    BY <1>1 DEF Grants
  <2> QED
    BY <2>1 DEF Granted, Deletions, DefinitionReads
<1>2. Established
  BY <1>1 DEF Established
<1> QED
  BY <1>2, SucceedsDone

LEMMA CheckInstanceStep == IndInv /\ CheckInstance => IndInv'
<1> SUFFICES ASSUME IndInv, CheckInstance PROVE IndInv'
  OBVIOUS
<1>1. /\ Pending /\ Current.do = "check instance"
      /\ IF Current.on \notin Running THEN Fail("not found")
         ELSE IF TenantOf(Current.on) # req.user THEN Fail("forbidden") ELSE Done
      /\ EngineStep
  BY UnchangedStep DEF CheckInstance, At, On, IndInv, TypeOK
<1>2. CASE Current.on \in Running /\ TenantOf(Current.on) = req.user
  <2>1. Owned(req.user, Current.on)
    BY <1>2 DEF Owned, Running, In
  <2> QED
    BY <1>1, <1>2, <2>1, ChecksOfInstances
<1>3. CASE Current.on \notin Running
  BY <1>1, <1>3, Codes, FailStep
<1>4. CASE Current.on \in Running /\ TenantOf(Current.on) # req.user
  BY <1>1, <1>4, Codes, FailStep
<1> QED
  BY <1>2, <1>3, <1>4

LEMMA CheckHistoryStep == IndInv /\ CheckHistory => IndInv'
<1> SUFFICES ASSUME IndInv, CheckHistory PROVE IndInv'
  OBVIOUS
<1>1. /\ Pending /\ Current.do = "check history"
      /\ IF Current.on \in Known /\ TenantOf(Current.on) = req.user
         THEN Done ELSE Fail("unauthorized")
      /\ EngineStep
  BY UnchangedStep DEF CheckHistory, At, On, IndInv, TypeOK
<1>2. CASE Current.on \in Known /\ TenantOf(Current.on) = req.user
  <2>1. Owned(req.user, Current.on)
    BY <1>2 DEF Owned, Known, Running, Ended, In
  <2> QED
    BY <1>1, <1>2, <2>1, ChecksOfInstances
<1>3. CASE ~(Current.on \in Known /\ TenantOf(Current.on) = req.user)
  BY <1>1, <1>3, Codes, FailStep
<1> QED
  BY <1>2, <1>3

LEMMA FindDefinitionStep == IndInv /\ FindDefinition => IndInv'
<1> SUFFICES ASSUME IndInv, FindDefinition PROVE IndInv'
  OBVIOUS
<1> DEFINE d == behind[Current.on]
<1>1. /\ Pending /\ Current.do = "find definition"
      /\ IF d = None THEN FailUnknown
         ELSE IF d \in deployed
         THEN req' = After([req EXCEPT !.found = d, !.shown = @ \cup {d}])
         ELSE IF req.pos = Len(req.calls) THEN Done ELSE Fail("internal error")
      /\ EngineStep
  BY UnchangedStep DEF FindDefinition, At, On, IndInv, TypeOK
<1>2. Established
  BY <1>1, NothingToEstablish DEF Checks
<1>3. CASE d = None
  BY <1>1, <1>3, FailUnknownStep
<1>4. CASE d # None /\ d \in deployed
  <2>1. PICK r : r = [req EXCEPT !.found = d, !.shown = @ \cup {d}]
    OBVIOUS
  <2>2. d \in Definitions
    BY <1>4 DEF IndInv, TypeOK, EngineTypeOK
  <2>3. Like(r) /\ r.found = d
    BY <2>1, <2>2, LikeFound
  <2>4. req' = After(r)
    BY <1>1, <1>4, <2>1
  <2> QED
    BY <1>1, <1>2, <1>4, <2>3, <2>4, Succeeds
<1>5. CASE d # None /\ d \notin deployed /\ req.pos = Len(req.calls)
  BY <1>1, <1>2, <1>5, SucceedsDone
<1>6. CASE d # None /\ d \notin deployed /\ req.pos # Len(req.calls)
  BY <1>1, <1>6, Codes, FailStep
<1> QED
  BY <1>3, <1>4, <1>5, <1>6

LEMMA ReadDefinitionStep ==
  IndInv /\ (ReadDefinition \/ ReadLinkedDefinition \/ ReadDiagram) => IndInv'
<1> SUFFICES ASSUME IndInv, ReadDefinition \/ ReadLinkedDefinition \/ ReadDiagram
             PROVE  IndInv'
  OBVIOUS
<1>1. /\ Pending /\ Current.do \in DefinitionReads
      /\ \/ \E things \in {{Definition}, {Definition} \cap deployed} :
              things \subseteq deployed /\ Show(things)
         \/ Fail("internal error")
      /\ EngineStep
  <2>1. EngineStep
    BY UnchangedStep DEF ReadDefinition, ReadLinkedDefinition, ReadDiagram, IndInv, TypeOK
  <2>2. CASE ReadDefinition \/ ReadLinkedDefinition
    BY <2>1, <2>2 DEF ReadDefinition, ReadLinkedDefinition, At, DefinitionReads
  <2>3. CASE ReadDiagram
    BY <2>1, <2>3 DEF ReadDiagram, At, DefinitionReads
  <2> QED
    BY <2>2, <2>3
<1>2. Established
  BY <1>1, NothingToEstablish DEF Checks, DefinitionReads
<1>3. ASSUME NEW things, things \subseteq deployed, Show(things) PROVE IndInv'
  <2>1. things \in SUBSET (Instances \cup Definitions)
    BY <1>3 DEF IndInv, TypeOK, EngineTypeOK
  <2> QED
    BY <1>1, <1>2, <1>3, <2>1, SucceedsShow
<1> QED
  BY <1>1, <1>3, Codes, FailStep

LEMMA ReadDeploymentStep == IndInv /\ ReadDeployment => IndInv'
<1> SUFFICES ASSUME IndInv, ReadDeployment PROVE IndInv'
  OBVIOUS
<1> DEFINE d == behind[Current.on]
<1>1. /\ Pending /\ Current.do = "read deployment"
      /\ IF d = None THEN FailUnknown
         ELSE IF d \in deployed THEN Show({d}) ELSE Fail("internal error")
      /\ EngineStep
  BY UnchangedStep DEF ReadDeployment, At, On, IndInv, TypeOK
<1>2. Established
  BY <1>1, NothingToEstablish DEF Checks
<1>3. CASE d = None
  BY <1>1, <1>3, FailUnknownStep
<1>4. CASE d # None /\ d \in deployed
  <2>1. {d} \in SUBSET (Instances \cup Definitions)
    BY <1>4 DEF IndInv, TypeOK, EngineTypeOK
  <2>2. Show({d})
    BY <1>1, <1>4
  <2> HIDE DEF d
  <2> QED
    BY <1>1, <1>2, <2>1, <2>2, SucceedsShow
<1>5. CASE d # None /\ d \notin deployed
  BY <1>1, <1>5, Codes, FailStep
<1> QED
  BY <1>3, <1>4, <1>5

LEMMA ListInstancesStep == IndInv /\ ListInstances => IndInv'
<1> SUFFICES ASSUME IndInv, ListInstances PROVE IndInv'
  OBVIOUS
<1> DEFINE of == Current.on[1]
           things == In(Current.on[2]) \cap
                       IF of \in Users THEN OfTenant(of) ELSE OfDefinition(of)
<1>1. /\ Pending /\ Current.do = "list" /\ Show(things) /\ EngineStep
  BY UnchangedStep DEF ListInstances, At, On, IndInv, TypeOK
<1>2. Established
  BY <1>1, NothingToEstablish DEF Checks
<1>3. things \in SUBSET (Instances \cup Definitions)
  BY DEF In
<1> HIDE DEF things
<1> QED
  BY <1>1, <1>2, <1>3, SucceedsShow

LEMMA ListByVidStep == IndInv /\ ListByVid => IndInv'
<1> SUFFICES ASSUME IndInv, ListByVid PROVE IndInv'
  OBVIOUS
<1> DEFINE d == behind[Current.on]
           things == Running \cap OfTenant(req.user) \cap OfDefinition(d)
<1>1. /\ Pending /\ Current.do = "list by vid"
      /\ IF d = None THEN FailUnknown ELSE Show(things)
      /\ EngineStep
  BY UnchangedStep DEF ListByVid, At, On, IndInv, TypeOK
<1>2. Established
  BY <1>1, NothingToEstablish DEF Checks
<1>3. things \in SUBSET (Instances \cup Definitions)
  BY DEF Running, In
<1> HIDE DEF things
<1>4. CASE d = None
  BY <1>1, <1>4, FailUnknownStep
<1>5. CASE d # None
  BY <1>1, <1>2, <1>3, <1>5, SucceedsShow
<1> QED
  BY <1>4, <1>5

----------------------------------------------------------------------------
\* Steps with an effect; each may report an error although it had it.

LEMMA LostStep ==
  ASSUME IndInv, Pending, EngineStep, Established, Lost PROVE IndInv'
<1>1. CASE Done
  BY <1>1, SucceedsDone
<1>2. CASE Fail("internal error")
  BY <1>2, Codes, FailStep
<1> QED
  BY <1>1, <1>2 DEF Lost

LEMMA StartStep ==
  ASSUME IndInv, NEW i \in Instances, Start(i) PROVE IndInv'
<1>1. Pending /\ Current.do = "start" /\ Lost
  BY DEF Start, At
<1>2. PICK d : Started(i, d, Current.on[2])
  BY DEF Start, On
<1>3. Current.on[2] \in Keys \cup {None}
  BY <1>1, CurrentCall, CallKinds
<1>4. EngineStep
  <2>1. PICK k : k = Current.on[2]
    OBVIOUS
  <2> QED
    BY <1>2, <1>3, <2>1, StartedStep DEF IndInv, TypeOK
<1>5. Established
  BY <1>1, NothingToEstablish DEF Checks
<1> QED
  BY <1>1, <1>4, <1>5, LostStep

LEMMA DeletionStep ==
  IndInv /\ (DeleteIo \/ DeleteIncidents \/ DeleteInstance \/ DeleteHistory) => IndInv'
<1> SUFFICES ASSUME IndInv, DeleteIo \/ DeleteIncidents \/ DeleteInstance \/ DeleteHistory
             PROVE  IndInv'
  OBVIOUS
<1>1. Pending /\ Lost /\ Current.do \in Deletions
  BY DEF DeleteIo, DeleteIncidents, DeleteInstance, DeleteHistory, At, Deletions
<1>2. PICK i \in Instances : i = Current.on
  BY <1>1, CurrentCall, CallKinds DEF OnInstances
<1>3. EngineTypeOK /\ EngineInv
  BY DEF IndInv, TypeOK
<1>4. CASE DeleteIo
  <2>1. Current.do = "delete io" /\ IoDeleted(i)
    BY <1>2, <1>4 DEF DeleteIo, At, On
  <2>2. EngineStep /\ i \notin io'
    BY <1>3, <2>1, SidesStep DEF IoDeleted
  <2>3. Established
    BY <1>2, <2>1, <2>2 DEF Established, Grants
  <2> QED
    BY <1>1, <2>2, <2>3, LostStep
<1>5. CASE DeleteIncidents
  <2>1. Current.do = "delete incidents" /\ IncidentsDeleted(i)
    BY <1>2, <1>5 DEF DeleteIncidents, At, On
  <2>2. EngineStep /\ i \notin incidents'
    BY <1>3, <2>1, SidesStep DEF IncidentsDeleted
  <2>3. Established
    BY <1>2, <2>1, <2>2 DEF Established, Grants
  <2> QED
    BY <1>1, <2>2, <2>3, LostStep
<1>6. CASE DeleteInstance
  <2>1. Current.do = "delete instance" /\ Stopped(i)
    BY <1>2, <1>6 DEF DeleteInstance, At, On
  <2>2. EngineStep /\ inst'[i].st = "ended"
    BY <1>3, <2>1, StoppedStep
  <2>3. Established
    BY <1>2, <2>1, <2>2 DEF Established, Grants
  <2> QED
    BY <1>1, <2>2, <2>3, LostStep
<1>7. CASE DeleteHistory
  <2>1. Current.do = "delete history" /\ Erased(i)
    BY <1>2, <1>7 DEF DeleteHistory, At, On
  <2>2. EngineStep
    BY <1>3, <2>1, ErasedStep
  <2>3. Established
    BY <2>1, NothingToEstablish DEF Checks
  <2> QED
    BY <1>1, <2>2, <2>3, LostStep
<1> QED
  BY <1>4, <1>5, <1>6, <1>7

LEMMA SetInstanceVariableStep == IndInv /\ SetInstanceVariable => IndInv'
<1> SUFFICES ASSUME IndInv, SetInstanceVariable PROVE IndInv'
  OBVIOUS
<1>1. Pending /\ Current.do = "set variable" /\ Lost /\ EngineStep
  BY UnchangedStep DEF SetInstanceVariable, At, IndInv, TypeOK
<1>2. Established
  BY <1>1, NothingToEstablish DEF Checks
<1> QED
  BY <1>1, <1>2, LostStep

LEMMA SendMessageStep == IndInv /\ SendMessage => IndInv'
<1> SUFFICES ASSUME IndInv, SendMessage PROVE IndInv'
  OBVIOUS
<1>1. Pending /\ Current.do = "message" /\ Lost
  BY DEF SendMessage, At
<1>2. EngineTypeOK /\ EngineInv
  BY DEF IndInv, TypeOK
<1>3. Established
  BY <1>1, NothingToEstablish DEF Checks
<1>4. EngineStep
  <2>1. ASSUME NEW i \in Instances, NEW d, Started(i, d, None) PROVE EngineStep
    BY <1>2, <2>1, StartedStep
  <2>2. ASSUME NEW i \in Running, Stopped(i) PROVE EngineStep
    BY <1>2, <2>2, StoppedStep DEF Running, In
  <2>3. CASE UNCHANGED engineVars
    BY <1>2, <2>3, UnchangedStep
  <2> QED
    BY <2>1, <2>2, <2>3 DEF SendMessage
<1> QED
  BY <1>1, <1>3, <1>4, LostStep

LEMMA CallFailsStep == IndInv /\ CallFails => IndInv'
<1> SUFFICES ASSUME IndInv, CallFails PROVE IndInv'
  OBVIOUS
<1>1. EngineStep /\ Pending
  BY UnchangedStep DEF CallFails, IndInv, TypeOK
<1> QED
  BY <1>1, Codes, FailStep DEF CallFails

----------------------------------------------------------------------------
\* Lists whose entries are gone through.

\* The calls that follow a list.
Further(u, linked, more, do) ==
  /\ more \in Seq(Calls)
  /\ \A n \in 1..Len(more) :
       /\ more[n].do \in do
       /\ Granted(u, linked, more[n])
       /\ more[n].do = "delete instance" =>
            /\ more[n].fail # "ignore"
            /\ \A m \in 1..Len(more) : "ok" \notin {more[m].fail, more[m].unknown}

LEMMA RepeatStep ==
  ASSUME IndInv, Pending, EngineStep, NEW more, Repeat(more)
  PROVE  \/ /\ Current.do = "list by key"
            /\ Further(req.user, req.linked, more, {"delete io", "delete instance"})
         \/ /\ Current.do = "list deployments"
            /\ Further(req.user, req.linked, more, {"find definition", "read diagram"})
         => IndInv'
<1>0. SUFFICES ASSUME \/ /\ Current.do = "list by key"
                         /\ Further(req.user, req.linked, more, {"delete io", "delete instance"})
                      \/ /\ Current.do = "list deployments"
                         /\ Further(req.user, req.linked, more, {"find definition", "read diagram"})
               PROVE  IndInv'
  OBVIOUS
<1>1. PICK u, c, calls, linked, settled, failed, found :
        /\ u = req.user /\ c = Current /\ calls = req.calls /\ linked = req.linked
        /\ settled = req.settled /\ failed = req.failed /\ found = req.found
  OBVIOUS
<1>2. /\ u \in Users /\ calls \in Seq(Calls) /\ req.pos \in 1..Len(calls)
      /\ linked \in SUBSET Definitions
      /\ settled \in SUBSET Instances /\ failed \in BOOLEAN
      /\ found \in Definitions \cup {None}
      /\ EngineTypeOK /\ EngineInv
      /\ FoundOf(u, linked, calls, found) /\ AccessOf(u, linked, calls, req.pos)
      /\ StopOf(calls, req.pos, failed) /\ ErasureOf(calls, req.pos, settled)
  BY <1>1, PartsOf
<1>3. c = calls[req.pos] /\ c \in Calls
  BY <1>1, CurrentCall
<1>4. /\ c.do \in {"list by key", "list deployments"}
      /\ Further(u, linked, more, {"delete io", "delete instance", "find definition", "read diagram"})
  BY <1>0, <1>1 DEF Further
<1>5. Len(calls) = 1 /\ req.pos = 1 /\ Fixed(u, c)
  <2>1. req.pos \in req.pos..Len(calls)
    BY <1>2
  <2>2. Len(calls) = 1 /\ Fixed(u, c)
    BY <1>2, <1>3, <1>4, <2>1 DEF AccessOf
  <2> QED
    BY <1>2, <2>2
<1> DEFINE s == calls \o more
<1>6. more \in Seq(Calls) /\ Len(more) \in Nat
  <2>1. more \in Seq(Calls)
    BY <1>4, Zenon DEF Further
  <2> QED
    BY <2>1
<1>7. /\ s \in Seq(Calls) /\ Len(s) = 1 + Len(more) /\ Len(s) \in Nat
      /\ s[1] = c /\ \A n \in 2..Len(s) : n - 1 \in 1..Len(more) /\ s[n] = more[n - 1]
      /\ \A n \in 1..Len(s) : n = 1 \/ n \in 2..Len(s)
  <2>1. /\ s \in Seq(Calls) /\ Len(s) = Len(calls) + Len(more)
        /\ \A n \in 1..Len(calls) + Len(more) :
             s[n] = IF n <= Len(calls) THEN calls[n] ELSE more[n - Len(calls)]
    BY <1>2, <1>6, ConcatProperties
  <2> HIDE DEF s
  <2> QED
    BY <1>3, <1>5, <1>6, <2>1
<1> HIDE DEF s
<1>8. PICK r : r = [req EXCEPT !.calls = s]
  OBVIOUS
<1>9. /\ r \in Handling /\ r.user = u /\ r.calls = s /\ r.pos = 1
      /\ r.linked = linked /\ r.settled = settled
      /\ r.failed = failed /\ r.found = found
  BY <1>1, <1>5, <1>7, <1>8 DEF Handling, IndInv, TypeOK
<1>10. /\ req' \in Handling /\ req'.user = u /\ req'.calls = s /\ req'.pos = 2
       /\ req'.failed = failed /\ req'.found = found
       /\ req'.linked = linked /\ req'.settled = settled
       /\ req'.answer = IF 1 < Len(s) THEN "pending"
                        ELSE IF failed THEN "internal error" ELSE "ok"
  <2>1. req' = After(r)
    BY <1>1, <1>8 DEF Repeat, s
  <2>2. 1 + 1 = 2
    OBVIOUS
  <2> QED
    BY <1>9, <2>1, <2>2, AfterFields
<1>11. EngineTypeOK' /\ EngineInv' /\ Stable
  BY DEF EngineStep
<1>12. FoundOf(u, linked, s, found)'
  <2>1. /\ found # None => found \notin fresh' /\ OwnOrNew(u, linked, found)
        /\ StillBehind(linked)'
    BY <1>2, <1>11, LinkedStay DEF Stable, FoundOf
  <2>2. \A n \in 1..Len(s) : s[n].do # "start"
    BY <1>4, <1>7 DEF Further
  <2> QED
    BY <2>1, <2>2 DEF FoundOf, OwnOrNew
<1>13. AccessOf(u, linked, s, 2)'
  <2>1. ASSUME NEW n \in 2..Len(s)
        PROVE  /\ Granted(u, linked, s[n])' /\ Fixed(u, s[n])
               /\ s[n].do \notin {"list deployments", "list by key"}
    <3>0. s[n] \in Calls
      <4>1. n \in 1..Len(s)
        BY <1>7
      <4> QED
        BY <1>7, <4>1
    <3>1. Granted(u, linked, s[n])
      <4>1. n - 1 \in 1..Len(more) /\ s[n] = more[n - 1]
        BY <1>7, Zenon
      <4>2. Granted(u, linked, more[n - 1])
        BY <1>4, <4>1, Zenon DEF Further
      <4> QED
        BY <4>1, <4>2
    <3>2. s[n].do \in {"delete io", "delete instance", "find definition", "read diagram"}
      BY <1>4, <1>7 DEF Further
    <3> QED
      BY <1>2, <1>11, <3>0, <3>1, <3>2, GrantedStays DEF Fixed, FoundOf
  <2> QED
    BY <2>1 DEF AccessOf
<1>14. StopOf(s, 2, failed)'
  <2>1. ASSUME NEW n \in 1..Len(s), s[n].do = "delete instance"
        PROVE  /\ s[n].fail # "ignore" /\ n >= 2
               /\ \A m \in 1..Len(s) : "ok" \notin {s[m].fail, s[m].unknown}
    <3>1. n \in 2..Len(s)
      BY <1>4, <1>7, <2>1
    <3>2. /\ s[n].fail # "ignore"
          /\ \A m \in 1..Len(more) : "ok" \notin {more[m].fail, more[m].unknown}
      BY <1>4, <1>7, <2>1, <3>1 DEF Further
    <3>3. Further(u, linked, more, {"find definition", "read diagram"}) => FALSE
      BY <1>7, <2>1, <3>1 DEF Further
    <3>4. "ok" \notin {c.fail, c.unknown}
      BY <1>0, <1>1, <1>5, <3>3 DEF Fixed
    <3>5. n >= 2
      BY <3>1
    <3> QED
      BY <1>7, <3>2, <3>4, <3>5
  <2>2. s[1].do # "check instance"
    BY <1>4, <1>7
  <2> QED
    BY <2>1, <2>2 DEF StopOf
<1>15. ErasureOf(s, 2, settled)'
  <2>1. \A i \in settled : inst'[i].st \in {"ended", "erased"}
    BY <1>2, <1>11 DEF ErasureOf, Stable
  <2>2. \A n \in 2..Len(s) : s[n].do # "delete history"
    BY <1>4, <1>7 DEF Further
  <2> QED
    BY <2>1, <2>2 DEF ErasureOf
<1> QED
  <2>1. (req.user # None)'
    BY <1>2, <1>10, InstanceAssumption
  <2>2. (Pending <=> req.pos <= Len(req.calls))' /\ (req.answer = "ok" => ~req.failed)'
    <3>1. 1 < Len(s) <=> 2 <= Len(s)
      BY <1>7
    <3>2. /\ Pending' <=> 1 < Len(s)
          /\ req'.answer = "ok" => ~req'.failed
      BY <1>10 DEF Pending
    <3> QED
      BY <1>10, <3>1, <3>2
  <2> QED
    BY <1>10, <1>11, <1>12, <1>13, <1>14, <1>15, <2>1, <2>2, FromParts

\* The elements of a finite set in any order.
LEMMA InAnyOrder ==
  ASSUME NEW S, IsFiniteSet(S), NEW s \in SetToSeqs(S)
  PROVE  s \in Seq(S)
<1>1. Cardinality(S) \in Nat
  BY FS_CardinalityType
<1>2. s \in [1..Cardinality(S) -> S]
  BY DEF SetToSeqs
<1> QED
  BY <1>1, <1>2

LEMMA SomeInAnyOrder ==
  ASSUME NEW T, IsFiniteSet(T), NEW S \in SUBSET T, NEW s \in SetToSeqs(S)
  PROVE  s \in Seq(S) /\ s \in Seq(T)
<1>1. s \in Seq(S)
  BY FS_Subset, InAnyOrder
<1> QED
  BY <1>1

\* Nothing comes between the call at hand and its check.
LEMMA AtHand ==
  ASSUME IndInv, Pending
  PROVE  Granted(req.user, req.linked, Current) /\ Fixed(req.user, Current)
<1>1. PICK u, linked, calls, pos :
        u = req.user /\ linked = req.linked /\ calls = req.calls /\ pos = req.pos
  OBVIOUS
<1>2. AccessOf(u, linked, calls, pos) /\ calls \in Seq(Calls) /\ pos \in 1..Len(calls)
  BY <1>1, PartsOf
<1>3. pos \in pos..Len(calls) /\ pos..(pos - 1) = {}
  BY <1>2
<1>4. Granted(u, linked, calls[pos]) /\ Fixed(u, calls[pos])
  BY <1>2, <1>3 DEF AccessOf
<1> QED
  BY <1>1, <1>4 DEF Current

LEMMA ListTheDeploymentsStep == IndInv /\ ListTheDeployments => IndInv'
<1> SUFFICES ASSUME IndInv, ListTheDeployments PROVE IndInv'
  OBVIOUS
<1>1. PICK u, linked : u = req.user /\ linked = req.linked
  OBVIOUS
<1>2. Pending /\ Current.do = "list deployments" /\ EngineStep
  BY UnchangedStep DEF ListTheDeployments, At, IndInv, TypeOK
<1>3. Current.on = u
  BY <1>1, <1>2, AtHand DEF Fixed
<1> DEFINE own == {v \in Vids : behind[v] \in deployed /\ Tenant[behind[v]] = u}
           entry == [v \in Vids |-> GetExtendedDeployment(v)]
<1>4. PICK ids \in SetToSeqs(own) : Repeat(ForEach(ids, 2, entry))
  BY <1>3 DEF ListTheDeployments, On
<1>5. ids \in Seq(Vids) /\ ids \in Seq(own)
  BY SomeInAnyOrder, InstanceAssumption
<1>6. \A v \in own : Tenant[behind[v]] = u
  OBVIOUS
<1>7. ASSUME NEW v \in Vids
      PROVE  \A r \in 1..2 :
               /\ entry[v][r] \in Calls
               /\ entry[v][r].do \in {"find definition", "read diagram"}
               /\ v \in own => Granted(u, linked, entry[v][r])
  <2> DEFINE a == Call("find definition", v, "ignore")
             b == Call("read diagram", Found, "ignore")
  <2>1. entry[v] = <<a, b>>
    BY DEF GetExtendedDeployment
  <2>2. a \in Calls /\ b \in Calls
    BY CallsByKind, TheFailures DEF OnVids, DefinitionReads
  <2>3. a.do = "find definition" /\ a.on = v /\ b.do = "read diagram" /\ b.on = Found
    BY DEF Call
  <2> HIDE DEF a, b, entry, own
  <2>4. v \in own => Granted(u, linked, a) /\ Granted(u, linked, b)
    BY <1>6, <2>3 DEF Granted, OwnOrNew, Deletions, DefinitionReads
  <2>5. entry[v][1] = a /\ entry[v][2] = b /\ \A r \in 1..2 : r = 1 \/ r = 2
    BY <2>1
  <2> QED
    BY <2>2, <2>3, <2>4, <2>5
<1> DEFINE more == ForEach(ids, 2, entry)
<1>8. Blocks(more, 2, ids, entry)
  <2> HIDE DEF entry
  <2> QED
    BY <1>5, <1>7, ForEachBlocks
<1> HIDE DEF more, entry, own
<1>9. more \in Seq(Calls)
  BY <1>8, Zenon DEF Blocks
<1>10. ASSUME NEW n \in 1..Len(more)
       PROVE  Granted(u, linked, more[n]) /\ more[n].do \in {"find definition", "read diagram"}
  <2>1. PICK q \in 1..Len(ids), r \in 1..2 : n = 2 * (q - 1) + r
    BY <1>8, Zenon DEF Blocks
  <2>2. more[n] = entry[ids[q]][r]
    BY <1>8, <2>1, Zenon DEF Blocks
  <2>3. ids[q] \in Vids /\ ids[q] \in own
    BY <1>5
  <2> QED
    BY <1>7, <2>2, <2>3
<1>11. Further(u, linked, more, {"find definition", "read diagram"})
  BY <1>9, <1>10 DEF Further
<1>12. Repeat(more)
  BY <1>4 DEF more
<1> QED
  BY <1>1, <1>2, <1>11, <1>12, RepeatStep

LEMMA ListByKeyStep == IndInv /\ ListByKey => IndInv'
<1> SUFFICES ASSUME IndInv, ListByKey PROVE IndInv'
  OBVIOUS
<1>1. PICK u, linked : u = req.user /\ linked = req.linked
  OBVIOUS
<1>2. Pending /\ Current.do = "list by key" /\ EngineStep
  BY UnchangedStep DEF ListByKey, At, IndInv, TypeOK
<1>3. Current.on[1] = u
  BY <1>1, <1>2, AtHand DEF Fixed
<1> DEFINE own == {i \in Running \cap OfTenant(u) : inst[i].key = Current.on[2]}
           entry == [i \in Instances |-> RemoveProcessInstance(i, "join")]
<1>4. PICK ids \in SetToSeqs(own) : Repeat(ForEach(ids, 2, entry))
  BY <1>3 DEF ListByKey, On, StopByKey
<1>5. ids \in Seq(Instances) /\ ids \in Seq(own)
  BY SomeInAnyOrder, InstanceAssumption DEF Running, In
<1>6. \A i \in own : Owned(u, i)
  BY DEF Owned, OfTenant, Running, In
<1>7. ASSUME NEW i \in Instances
      PROVE  \A r \in 1..2 :
               /\ entry[i][r] \in Calls
               /\ entry[i][r].do \in {"delete io", "delete instance"}
               /\ entry[i][r].fail = "join" /\ entry[i][r].unknown = "join"
               /\ i \in own => Granted(u, linked, entry[i][r])
  <2> DEFINE a == Call("delete io", i, "join")
             b == Call("delete instance", i, "join")
  <2>1. entry[i] = <<a, b>>
    BY DEF RemoveProcessInstance
  <2>2. a \in Calls /\ b \in Calls
    BY CallsByKind, TheFailures DEF OnInstances, Deletions
  <2>3. /\ a.do = "delete io" /\ a.on = i /\ a.fail = "join" /\ a.unknown = "join"
        /\ b.do = "delete instance" /\ b.on = i /\ b.fail = "join" /\ b.unknown = "join"
    BY DEF Call
  <2> HIDE DEF a, b, entry, own
  <2>4. i \in own => Granted(u, linked, a) /\ Granted(u, linked, b)
    BY <1>6, <2>3 DEF Granted, Deletions, DefinitionReads
  <2>5. entry[i][1] = a /\ entry[i][2] = b /\ \A r \in 1..2 : r = 1 \/ r = 2
    BY <2>1
  <2> QED
    BY <2>2, <2>3, <2>4, <2>5
<1> DEFINE more == ForEach(ids, 2, entry)
<1>8. Blocks(more, 2, ids, entry)
  <2> HIDE DEF entry
  <2> QED
    BY <1>5, <1>7, ForEachBlocks
<1> HIDE DEF more, entry, own
<1>9. more \in Seq(Calls)
  BY <1>8, Zenon DEF Blocks
<1>10. ASSUME NEW n \in 1..Len(more)
       PROVE  /\ Granted(u, linked, more[n]) /\ more[n].do \in {"delete io", "delete instance"}
              /\ more[n].fail = "join" /\ more[n].unknown = "join"
  <2>1. PICK q \in 1..Len(ids), r \in 1..2 : n = 2 * (q - 1) + r
    BY <1>8, Zenon DEF Blocks
  <2>2. more[n] = entry[ids[q]][r]
    BY <1>8, <2>1, Zenon DEF Blocks
  <2>3. ids[q] \in Instances /\ ids[q] \in own
    BY <1>5
  <2>4. PICK c : c = entry[ids[q]][r]
    OBVIOUS
  <2>5. /\ Granted(u, linked, c) /\ c.do \in {"delete io", "delete instance"}
        /\ c.fail = "join" /\ c.unknown = "join"
    BY <1>7, <2>3, <2>4
  <2>6. more[n] = c
    BY <2>2, <2>4
  <2> QED
    BY <2>5, <2>6
<1>11. Further(u, linked, more, {"delete io", "delete instance"})
  BY <1>9, <1>10 DEF Further
<1>12. Repeat(more)
  BY <1>4 DEF more
<1> QED
  BY <1>1, <1>2, <1>11, <1>12, RepeatStep

----------------------------------------------------------------------------
\* The request comes and goes; the others act.

\* What a step of the others, or none at all, leaves of the invariant.
LEMMA Stays ==
  ASSUME IndInv, EngineStep, req' = req PROVE IndInv'
<1>1. PICK u, linked, calls, pos, failed, found, settled :
        /\ u = req.user /\ linked = req.linked /\ calls = req.calls /\ pos = req.pos
        /\ failed = req.failed /\ found = req.found /\ settled = req.settled
  OBVIOUS
<1>2. /\ calls \in Seq(Calls) /\ found \in Definitions \cup {None}
      /\ linked \in SUBSET Definitions /\ StillBehind(linked)
      /\ settled \in SUBSET Instances /\ pos \in Nat \ {0}
      /\ EngineTypeOK
  BY <1>1 DEF IndInv, TypeOK, Handling, LinkedInv
<1>3. EngineTypeOK' /\ EngineInv' /\ Stable
  BY DEF EngineStep
<1>4. TypeOK' /\ (Pending' <=> Pending) /\ Left' = Left
  BY <1>3 DEF IndInv, TypeOK, Pending, Left
<1>9. LinkedInv'
  <2>1. StillBehind(linked)'
    BY <1>2, <1>3, LinkedStay
  <2> QED
    BY <1>1, <2>1 DEF LinkedInv, StillBehind
<1>5. FoundInv'
  <2>1. None \notin deployed'
    BY <1>3, InstanceAssumption DEF EngineTypeOK
  <2>2. found # None => found \notin fresh' /\ OwnOrNew(u, linked, found)
    BY <1>1, <1>2, <1>3 DEF IndInv, FoundInv, Stable
  <2>3. ASSUME NEW n \in DOMAIN calls, calls[n].do = "start", calls[n].on[1] = Found
        PROVE  /\ calls[1].on \in Vids
               /\ \A m \in DOMAIN calls : calls[m].do = "find definition" =>
                    calls[m].on = calls[1].on
               /\ found \in deployed' => behind'[calls[1].on] = found
    <3>1. /\ calls[1].on \in Vids
          /\ \A m \in DOMAIN calls : calls[m].do = "find definition" =>
               calls[m].on = calls[1].on
          /\ found \in deployed => behind[calls[1].on] = found
      BY <1>1, <2>3 DEF IndInv, FoundInv
    <3>2. found # None => found \notin fresh
      BY <1>1 DEF IndInv, FoundInv
    <3>3. found \in deployed' => behind'[calls[1].on] = found
      BY <1>2, <1>3, <2>1, <3>1, <3>2 DEF Stable
    <3> QED
      BY <3>1, <3>3
  <2> QED
    BY <1>1, <2>2, <2>3 DEF FoundInv, OwnOrNew
<1>6. AccessInv'
  <2>1. ASSUME Pending, NEW n \in Left
        PROVE  /\ \/ Granted(u, linked, calls[n])'
                  \/ \E m \in pos..(n - 1) : Grants(calls[m], calls[n])
               /\ Fixed(u, calls[n])
               /\ calls[n].do \in {"list deployments", "list by key"} => Len(calls) = 1
    <3>1. /\ \/ Granted(u, linked, calls[n])
             \/ \E m \in pos..(n - 1) : Grants(calls[m], calls[n])
          /\ Fixed(u, calls[n])
          /\ calls[n].do \in {"list deployments", "list by key"} => Len(calls) = 1
      BY <1>1, <2>1 DEF IndInv, AccessInv
    <3>2. calls[n] \in Calls
      <4>1. n \in pos..Len(calls)
        BY <1>1 DEF Left
      <4> QED
        BY <1>2, <4>1
    <3>3. Granted(u, linked, calls[n]) => Granted(u, linked, calls[n])'
      BY <1>2, <1>3, <3>2, GrantedStays
    <3> QED
      BY <3>1, <3>3
  <2> QED
    BY <1>1, <1>4, <2>1 DEF AccessInv
<1>7. StopInv'
  <2>1. ASSUME NEW n \in DOMAIN calls, calls[n].do = "delete instance"
        PROVE  inst[calls[n].on].st \in {"ended", "erased"} =>
                 inst'[calls[n].on].st \in {"ended", "erased"}
    <3>1. calls[n] \in Calls
      BY <1>2
    <3>2. calls[n].on \in Instances
      BY <2>1, <3>1, CallKinds DEF OnInstances, Deletions
    <3> QED
      BY <1>3, <3>2 DEF Stable
  <2> QED
    BY <1>1, <1>4, <2>1 DEF IndInv, StopInv
<1>8. ErasureInv'
  <2>1. \A i \in settled : inst[i].st \in {"ended", "erased"}
    BY <1>1 DEF IndInv, ErasureInv, In
  <2>2. (settled \subseteq In({"ended", "erased"}))'
    BY <1>2, <1>3, <2>1 DEF Stable, In
  <2>3. \A i \in settled : (i \in io' => i \in io) /\ (i \in incidents' => i \in incidents)
    BY <1>2, <1>3, <2>1 DEF Stable
  <2>4. ASSUME Pending, NEW n \in Left', req'.calls[n].do = "delete history",
               req'.calls[n].on \in req'.settled
        PROVE  \A x \in {"delete io", "delete incidents"} :
                 \/ req'.calls[n].on \notin IF x = "delete io" THEN io' ELSE incidents'
                 \/ \E m \in req'.pos..(n - 1) :
                      /\ Strict(req'.calls[m]) /\ req'.calls[m].do = x
                      /\ req'.calls[m].on = req'.calls[n].on
    <3>1. PICK c : c = calls[n]
      OBVIOUS
    <3>2. c.do = "delete history" /\ c.on \in settled /\ n \in Left
      BY <1>1, <1>4, <2>4, <3>1
    <3>3. \A x \in {"delete io", "delete incidents"} :
            \/ c.on \notin IF x = "delete io" THEN io ELSE incidents
            \/ \E m \in pos..(n - 1) :
                 Strict(calls[m]) /\ calls[m].do = x /\ calls[m].on = c.on
      BY <1>1, <2>4, <3>1, <3>2 DEF IndInv, ErasureInv
    <3>4. \A x \in {"delete io", "delete incidents"} :
            \/ c.on \notin IF x = "delete io" THEN io' ELSE incidents'
            \/ \E m \in pos..(n - 1) :
                 Strict(calls[m]) /\ calls[m].do = x /\ calls[m].on = c.on
      BY <2>3, <3>2, <3>3
    <3> QED
      BY <1>1, <3>1, <3>4
  <2>6. (req.settled \subseteq In({"ended", "erased"}))'
    BY <1>1, <2>2
  <2> QED
    BY <1>4, <2>4, <2>6 DEF ErasureInv
<1> QED
  BY <1>3, <1>4, <1>5, <1>6, <1>7, <1>8, <1>9 DEF IndInv

\* A request without calls, or none.
Plain(u, answer) ==
  [user |-> u, calls |-> <<>>, pos |-> 1, answer |-> answer, failed |-> FALSE,
   found |-> None, shown |-> {}, linked |-> {}, settled |-> {}]

LEMMA PlainIsHandled ==
  ASSUME NEW u \in Users \cup {None}, NEW answer \in Answers
  PROVE  Plain(u, answer) \in Handling
  BY DEF Plain, Handling

LEMMA PlainRequest ==
  ASSUME EngineTypeOK', EngineInv', NEW u \in Users \cup {None}, NEW answer \in Answers,
         req' = Plain(u, answer)
  PROVE  IndInv'
<1>0. /\ req'.calls = <<>> /\ req'.answer = answer
      /\ req'.found = None /\ req'.failed = FALSE
      /\ req'.linked = {} /\ req'.settled = {}
  BY DEF Plain
<1>1. DOMAIN req'.calls = {} /\ req'.answer # "pending"
  <2>1. DOMAIN req'.calls = {}
    BY <1>0
  <2>2. answer # "pending"
    BY DEF Answers
  <2> QED
    BY <1>0, <2>1, <2>2
<1>2. req' \in Handling
  BY PlainIsHandled
<1>3. TypeOK' /\ ~Pending'
  BY <1>1, <1>2 DEF TypeOK, Pending
<1>4. LinkedInv' /\ FoundInv' /\ AccessInv'
  BY <1>0, <1>1, <1>3 DEF LinkedInv, StillBehind, FoundInv, AccessInv
<1>5. StopInv' /\ ErasureInv'
  BY <1>0, <1>1, <1>3 DEF StopInv, ErasureInv
<1> QED
  BY <1>3, <1>4, <1>5 DEF IndInv

LEMMA GrantedAtFirst ==
  ASSUME NEW u, NEW linked \in SUBSET Definitions, NEW c \in Calls,
         EngineTypeOK, UNCHANGED engineVars, Granted(u, Definitions, c)
  PROVE  Granted(u, linked, c)'
<1>1. ASSUME c.do \in {"find definition", "read deployment"}
      PROVE  behind'[c.on] = None \/ OwnOrNew(u, linked, behind'[c.on])
  <2>1. c.on \in Vids
    BY <1>1, CallKinds DEF OnVids
  <2>2. behind'[c.on] = behind[c.on] /\ behind[c.on] \in Definitions \cup {None}
    BY <2>1 DEF EngineTypeOK, engineVars
  <2> QED
    BY <1>1, <2>2 DEF Granted, OwnOrNew
<1>2. \A i : Owned(u, i) <=> Owned(u, i)'
  BY DEF engineVars, Owned, TenantOf, Known, Running, Ended, In
<1> QED
  BY <1>1, <1>2 DEF Granted, OwnOrNew

LEMMA BeginStep ==
  ASSUME IndInv, NEW u \in Users, Begin(u) PROVE IndInv'
<1>1. PICK calls \in V2Requests(u) \cup V1Requests(u) :
        req' = [Idle EXCEPT
                  !.user = u,
                  !.calls = calls,
                  !.answer = IF calls = <<>> THEN "ok" ELSE "pending",
                  !.linked = IF AboutVids(calls) THEN {behind[v] : v \in Vids} \ {None} ELSE {},
                  !.settled = Ended \cap IdsOf(calls, "delete history")]
  BY DEF Begin
<1>2. EngineTypeOK' /\ EngineInv' /\ EngineTypeOK
  BY UnchangedStep DEF Begin, IndInv, TypeOK, EngineStep
<1>3. Proper(u, calls)
  BY HandlersAreProper
<1>4. calls \in Seq(Calls)
  BY <1>3, Zenon DEF Proper
<1>5. Len(calls) \in Nat /\ (calls = <<>> <=> ~(1 <= Len(calls)))
  BY <1>4
<1>0. PICK linked, settled :
        /\ linked = IF AboutVids(calls) THEN {behind[v] : v \in Vids} \ {None} ELSE {}
        /\ settled = Ended \cap IdsOf(calls, "delete history")
  OBVIOUS
<1>6. settled \in SUBSET Instances /\ \A i \in settled : inst'[i].st = "ended"
  BY <1>0 DEF Ended, In, Begin, engineVars
<1>7. /\ req'.user = u /\ req'.calls = calls /\ req'.pos = 1
      /\ req'.answer = (IF calls = <<>> THEN "ok" ELSE "pending")
      /\ req'.failed = FALSE /\ req'.found = None /\ req'.shown = {}
      /\ req'.linked = linked /\ req'.settled = settled
  BY <1>0, <1>1 DEF Idle
<1>15. linked \in SUBSET Definitions /\ StillBehind(linked)'
  <2>1. \A d \in linked : d \in Definitions /\ \E v \in Vids : d = behind[v]
    BY <1>0, <1>2 DEF EngineTypeOK
  <2>2. \A v \in Vids : behind[v] \notin fresh
    BY DEF IndInv, EngineInv
  <2> QED
    BY <2>1, <2>2 DEF StillBehind, Begin, engineVars
<1>8. req' \in Handling
  <2>1. req'.user \in Users \cup {None} /\ req'.answer \in Answers \cup {"pending"}
    BY <1>7 DEF Answers
  <2>2. 1 \in Nat \ {0} /\ FALSE \in BOOLEAN
    OBVIOUS
  <2>3. req'.pos \in Nat \ {0} /\ req'.failed \in BOOLEAN
    BY <1>7, <2>2, Zenon
  <2>4. /\ req'.calls \in Seq(Calls) /\ req'.found \in Definitions \cup {None}
        /\ req'.shown \in SUBSET (Instances \cup Definitions)
        /\ req'.linked \in SUBSET Definitions /\ req'.settled \in SUBSET Instances
    BY <1>4, <1>6, <1>7, <1>15
  <2>5. req' = [user |-> req'.user, calls |-> req'.calls, pos |-> req'.pos,
                answer |-> req'.answer, failed |-> req'.failed, found |-> req'.found,
                shown |-> req'.shown, linked |-> req'.linked,
                settled |-> req'.settled]
    BY <1>1 DEF Idle
  <2> QED
    BY <2>1, <2>3, <2>4, <2>5 DEF Handling
<1>9. FoundOf(u, linked, calls, None)'
  <2>1. None \notin deployed'
    BY <1>2, InstanceAssumption DEF EngineTypeOK
  <2> QED
    BY <1>3, <1>15, <2>1, Zenon DEF FoundOf, Proper
<1>10. AccessOf(u, linked, calls, 1)'
  <2>1. ASSUME NEW n \in 1..Len(calls), Granted(u, Definitions, calls[n])
        PROVE  Granted(u, linked, calls[n])'
    <3>1. calls[n] \in Calls /\ UNCHANGED engineVars
      BY <1>4 DEF Begin
    <3> QED
      BY <1>2, <1>15, <2>1, <3>1, GrantedAtFirst
  <2> QED
    BY <1>3, <2>1, Zenon DEF AccessOf, Proper
<1>11. StopOf(calls, 1, FALSE)'
  <2>1. \A n \in 1..Len(calls) : n >= 1
    OBVIOUS
  <2> QED
    BY <1>3, <2>1, Zenon DEF StopOf, Proper
<1>12. ErasureOf(calls, 1, settled)'
  <2>1. ASSUME NEW n \in 1..Len(calls), calls[n].do = "delete history"
        PROVE  /\ \E m \in 1..(n - 1) :
                    /\ Strict(calls[m]) /\ calls[m].do = "delete io"
                    /\ calls[m].on = calls[n].on
               /\ \E m \in 1..(n - 1) :
                    /\ Strict(calls[m]) /\ calls[m].do = "delete incidents"
                    /\ calls[m].on = calls[n].on
    <3>1. \A x \in {"delete io", "delete incidents"} : \E m \in 1..(n - 1) :
            Strict(calls[m]) /\ calls[m].do = x /\ calls[m].on = calls[n].on
      BY <1>3, <2>1, Zenon DEF Proper
    <3> QED
      BY <3>1
  <2> QED
    BY <1>6, <2>1 DEF ErasureOf
<1>13. (Pending <=> req.pos <= Len(req.calls))' /\ (req.answer = "ok" => ~req.failed)'
  <2>1. Pending' <=> calls # <<>>
    BY <1>7 DEF Pending
  <2>2. req'.pos <= Len(req'.calls) <=> 1 <= Len(calls)
    BY <1>7, Zenon
  <2> QED
    BY <1>5, <1>7, <2>1, <2>2, Zenon
<1>14. (req.user # None)'
  BY <1>7, InstanceAssumption
<1> QED
  BY <1>2, <1>7, <1>8, <1>9, <1>10, <1>11, <1>12, <1>13, <1>14, FromParts

LEMMA RefuseStep ==
  ASSUME IndInv, NEW u \in Users, Refuse(u) PROVE IndInv'
<1>1. EngineTypeOK' /\ EngineInv'
  BY UnchangedStep DEF Refuse, IndInv, TypeOK, EngineStep
<1>2. req' = Plain(u, "bad request")
  BY DEF Refuse, Idle, Plain
<1> QED
  BY <1>1, <1>2, PlainRequest DEF Answers

LEMMA ForgetStep == IndInv /\ Forget => IndInv'
<1> SUFFICES ASSUME IndInv, Forget PROVE IndInv'
  OBVIOUS
<1>1. EngineTypeOK' /\ EngineInv'
  BY UnchangedStep DEF Forget, IndInv, TypeOK, EngineStep
<1>2. req' = Plain(None, "ok")
  BY DEF Forget, Idle, Plain
<1> QED
  BY <1>1, <1>2, PlainRequest DEF Answers

----------------------------------------------------------------------------
(***************************************************************************)
(* The theorems.                                                           *)
(***************************************************************************)

LEMMA IndInvInit == Init => IndInv
<1> SUFFICES ASSUME Init PROVE IndInv
  OBVIOUS
<1>1. EngineTypeOK
  <2>1. Nothing("unborn") \in Instance
    BY DEF Nothing, Instance
  <2>2. inst \in [Instances -> Instance]
    BY <2>1 DEF Init, EngineInit
  <2>3. /\ fresh \in SUBSET Definitions /\ deployed \in SUBSET Definitions
        /\ io = {} /\ incidents = {}
        /\ behind \in [Vids -> Definitions \cup {None}]
    BY DEF Init, EngineInit
  <2> QED
    BY <2>2, <2>3 DEF EngineTypeOK
<1>2. EngineInv
  <2>1. \A i \in Instances : inst[i].st = "unborn" /\ inst[i].def = None
    BY DEF Init, EngineInit, Nothing
  <2>2. \A i \in Instances : i \notin Known
    BY <2>1, StatesOf
  <2>3. /\ fresh \cap deployed = {}
        /\ \A v \in Vids : behind[v] \notin fresh
    BY InstanceAssumption DEF Init, EngineInit
  <2> QED
    BY <2>1, <2>2, <2>3 DEF EngineInv
<1>3. req = Plain(None, "ok")
  BY DEF Init, Idle, Plain
<1>4. /\ req.calls = <<>> /\ req.answer = "ok"
      /\ req.found = None /\ req.failed = FALSE
      /\ req.linked = {} /\ req.settled = {}
  BY <1>3 DEF Plain
<1>5. DOMAIN req.calls = {} /\ ~Pending
  <2>1. DOMAIN req.calls = {}
    BY <1>4
  <2> QED
    BY <1>4, <2>1 DEF Pending
<1>6. TypeOK
  BY <1>1, <1>3, <1>5, PlainIsHandled DEF TypeOK, Pending, Answers
<1>7. LinkedInv /\ FoundInv /\ AccessInv
  BY <1>4, <1>5 DEF LinkedInv, StillBehind, FoundInv, AccessInv
<1>8. StopInv /\ ErasureInv
  BY <1>4, <1>5 DEF StopInv, ErasureInv
<1> QED
  BY <1>2, <1>6, <1>7, <1>8 DEF IndInv

LEMMA IndInvNext == IndInv /\ [Next]_vars => IndInv'
<1> SUFFICES ASSUME IndInv, [Next]_vars PROVE IndInv'
  OBVIOUS
<1>1. CASE Request
  <2>1. CASE \E u \in Users : Begin(u) \/ Refuse(u)
    BY <2>1, BeginStep, RefuseStep
  <2>2. CASE Forget
    BY <2>2, ForgetStep
  <2>3. CASE CheckDefinition \/ CheckDeployment \/ CheckInstance \/ CheckHistory
    BY <2>3, CheckDefinitionStep, CheckDeploymentStep, CheckInstanceStep, CheckHistoryStep
  <2>4. CASE Reads
    BY <2>4, FindDefinitionStep, ReadDefinitionStep, ReadDeploymentStep, ListInstancesStep,
      ListByVidStep, ListTheDeploymentsStep, ListByKeyStep DEF Reads
  <2>5. CASE Effects
    BY <2>5, StartStep, DeletionStep, SetInstanceVariableStep, SendMessageStep DEF Effects
  <2>6. CASE CallFails
    BY <2>6, CallFailsStep
  <2> QED
    BY <1>1, <2>1, <2>2, <2>3, <2>4, <2>5, <2>6 DEF Request
<1>2. CASE Others
  BY <1>2, OthersStep, Stays DEF IndInv, TypeOK
<1>3. CASE UNCHANGED vars
  BY <1>3, UnchangedStep, Stays DEF vars, IndInv, TypeOK
<1> QED
  BY <1>1, <1>2, <1>3 DEF Next

\* The engine never goes back on what it has answered to a check of an instance
\* or a definition, and of the calls that a handler still has to make, each that
\* needs a check has had it or has it before it, or is about a vid with
\* something new behind it (v2endpoints.go, v1endpoints.go, camunda.go).
THEOREM IndInvHolds == Spec => []IndInv
<1>1. Init => IndInv
  BY IndInvInit
<1>2. IndInv /\ [Next]_vars => IndInv'
  BY IndInvNext
<1> QED
  BY <1>1, <1>2, PTL DEF Spec

\* A request, the engine and what the other services keep have their types,
\* and a handler that has not answered has a call left to make.
THEOREM TypesHold == Spec => []TypeOK
<1>1. IndInv => TypeOK
  BY DEF IndInv
<1> QED
  BY <1>1, IndInvHolds, PTL

\* RemoveProcessInstance and its three callers: the answer 200 to a deletion of
\* running instances means that none of them runs any more.
THEOREM OkMeansStoppedHolds == Spec => []OkMeansStopped
<1>1. IndInv => OkMeansStopped
  <2> SUFFICES ASSUME IndInv, req.answer = "ok", NEW i \in IdsOf(req.calls, "delete instance")
               PROVE  i \notin Running
    BY DEF OkMeansStopped
  <2>1. PICK n \in DOMAIN req.calls : req.calls[n].do = "delete instance" /\ i = req.calls[n].on
    BY DEF IdsOf
  <2>2. ~Pending /\ ~req.failed
    BY DEF IndInv, StopInv, Pending
  <2>3. inst[i].st \in {"ended", "erased"}
    BY <2>1, <2>2 DEF IndInv, StopInv
  <2> QED
    BY <2>3 DEF Running, In
<1> QED
  BY <1>1, IndInvHolds, PTL

\* DeleteProcessMultipleInstances stops at the first error: when it turns to an
\* id, the instances before are gone.
THEOREM EarlierOnesAreGoneHolds == Spec => []EarlierOnesAreGone
<1>1. IndInv => EarlierOnesAreGone
  <2>0. SUFFICES ASSUME IndInv, Pending, req.calls[1].do = "check instance",
                        NEW n \in 1..(req.pos - 1), req.calls[n].do = "delete instance"
                 PROVE  req.calls[n].on \notin Running
    BY DEF EarlierOnesAreGone, At
  <2>1. PICK calls, pos : calls = req.calls /\ pos = req.pos
    OBVIOUS
  <2>2. calls \in Seq(Calls) /\ pos \in 1..Len(calls) /\ StopOf(calls, pos, req.failed)
    BY <2>0, <2>1, PartsOf
  <2>3. n \in 1..Len(calls) /\ ~(n >= pos)
    BY <2>1, <2>2
  <2>4. calls # <<>>
    BY <2>2
  <2>5. inst[calls[n].on].st \in {"ended", "erased"}
    BY <2>0, <2>1, <2>2, <2>3, <2>4 DEF StopOf
  <2> QED
    BY <2>1, <2>5 DEF Running, In
<1> QED
  BY <1>1, IndInvHolds, PTL

----------------------------------------------------------------------------
\* What a step shows and what it touches.

\* The request does not begin with calls to make, and the others leave it alone.
LEMMA CallMade ==
  ASSUME IndInv, Next, Pending, req' # req
  PROVE  \/ CheckDefinition \/ CheckDeployment \/ CheckInstance \/ CheckHistory
         \/ Reads \/ Effects \/ CallFails
<1>1. req.user # None
  BY DEF IndInv, TypeOK, Pending
<1> QED
  BY <1>1 DEF Next, Request, Others, Begin, Refuse, Forget

LEMMA ShowsThings ==
  ASSUME IndInv, NEW things, Show(things)
  PROVE  req'.user = req.user /\ req'.shown = req.shown \cup things
<1>1. req \in Handling
  BY DEF IndInv, TypeOK
<1> QED
  BY <1>1 DEF Show, After, Handling

LEMMA DoneShowsNothing ==
  ASSUME IndInv, Done \/ (\E more : Repeat(more)) PROVE req'.shown = req.shown
<1>1. req \in Handling
  BY DEF IndInv, TypeOK
<1> QED
  BY <1>1 DEF Done, Repeat, After, Handling

LEMMA FailureShowsNothing ==
  ASSUME IndInv, NEW code, Fail(code) \/ FailUnknown PROVE req'.shown \subseteq req.shown
<1>1. req \in Handling
  BY DEF IndInv, TypeOK
<1>2. ASSUME NEW fail, NEW c, FailsAs(fail, c) PROVE req'.shown \subseteq req.shown
  <2>1. CASE fail = "join"
    BY <1>1, <1>2, <2>1 DEF FailsAs, After, Handling
  <2>2. CASE fail = "ignore"
    BY <1>1, <1>2, <2>2 DEF FailsAs, After, Handling
  <2>3. CASE fail \notin {"join", "ignore"}
    <3>1. PICK a : Answer(a)
      BY <1>2, <2>3 DEF FailsAs
    <3> QED
      BY <3>1 DEF Answer, Idle
  <2> QED
    BY <2>1, <2>2, <2>3
<1> QED
  BY <1>2 DEF Fail, FailUnknown

\* The definition behind a vid that is read belongs to the user, or it has got
\* there since the request began.
LEMMA BehindOwn ==
  ASSUME IndInv, Pending, Current.do \in {"find definition", "read deployment"},
         behind[Current.on] \in deployed
  PROVE  /\ behind[Current.on] \in Definitions
         /\ Tenant[behind[Current.on]] = req.user \/ (ByVid /\ PutBehindVid(behind[Current.on]))
<1>1. PICK u, linked, c : u = req.user /\ linked = req.linked /\ c = Current
  OBVIOUS
<1>2. behind[c.on] # None /\ behind[c.on] \in Definitions
  BY <1>1, InstanceAssumption DEF IndInv, TypeOK, EngineTypeOK
<1>3. Granted(u, linked, c) /\ c.do \in {"find definition", "read deployment"}
  BY <1>1, AtHand
<1>4. OwnOrNew(u, linked, behind[c.on])
  BY <1>2, <1>3 DEF Granted
<1>5. ByVid
  BY DEF ByVid
<1> QED
  BY <1>1, <1>2, <1>4, <1>5 DEF OwnOrNew, PutBehindVid

\* So does the definition that was found; the one that a call names is the
\* user's.
LEMMA DefinitionOwn ==
  ASSUME IndInv, Pending, Current.do \in DefinitionReads, Definition \in deployed
  PROVE  /\ Definition \in Definitions
         /\ Tenant[Definition] = req.user \/ (ByVid /\ PutBehindVid(Definition))
<1>1. Definition \in Definitions /\ Definition # None
  BY InstanceAssumption DEF IndInv, TypeOK, EngineTypeOK
<1>2. CASE On = Found
  <2>1. Definition = req.found /\ ByVid
    BY <1>2 DEF Definition, ByVid
  <2>2. OwnOrNew(req.user, req.linked, req.found)
    BY <1>1, <2>1 DEF IndInv, FoundInv
  <2> QED
    BY <1>1, <2>1, <2>2 DEF OwnOrNew, PutBehindVid
<1>3. CASE On # Found
  BY <1>1, <1>3, AtHand DEF Definition, On, Granted
<1> QED
  BY <1>1, <1>2, <1>3

\* Everything that comes into an answer is the user's, or has been put behind
\* the vid.
ShowsOwn ==
  \A x \in req'.shown \ req.shown :
    \/ req'.user = IF x \in Instances THEN TenantOf(x) ELSE Tenant[x]
    \/ ByVid /\ PutBehindVid(x)

LEMMA ReadsShowOwn == IndInv /\ Reads => ShowsOwn
<1> SUFFICES ASSUME IndInv, Reads PROVE ShowsOwn
  OBVIOUS
<1>1. Definitions \cap Instances = {} /\ deployed \subseteq Definitions
  BY InstanceAssumption DEF IndInv, TypeOK, EngineTypeOK
<1>2. ASSUME req'.shown \subseteq req.shown PROVE ShowsOwn
  BY <1>2 DEF ShowsOwn
<1>3. ASSUME NEW things, Show(things),
             \A d \in things :
               /\ d \in Definitions
               /\ Tenant[d] = req.user \/ (ByVid /\ PutBehindVid(d))
      PROVE  ShowsOwn
  BY <1>1, <1>3, ShowsThings DEF ShowsOwn
<1>4. ASSUME NEW things, Show(things),
             \A i \in things : i \in Instances /\ TenantOf(i) = req.user
      PROVE  ShowsOwn
  BY <1>4, ShowsThings DEF ShowsOwn
<1>5. CASE FindDefinition
  <2>1. Pending /\ Current.do = "find definition"
    BY <1>5 DEF FindDefinition, At
  <2>2. \/ FailUnknown \/ Done \/ Fail("internal error")
        \/ /\ behind[Current.on] \in deployed
           /\ req' = After([req EXCEPT !.found = behind[Current.on],
                                       !.shown = @ \cup {behind[Current.on]}])
    BY <1>5 DEF FindDefinition, On
  <2>3. CASE /\ behind[Current.on] \in deployed
             /\ req' = After([req EXCEPT !.found = behind[Current.on],
                                         !.shown = @ \cup {behind[Current.on]}])
    <3>1. PICK d : d = behind[Current.on]
      OBVIOUS
    <3>2. d \in Definitions /\ (Tenant[d] = req.user \/ (ByVid /\ PutBehindVid(d)))
      BY <2>1, <2>3, <3>1, BehindOwn
    <3>3. req \in Handling
      BY DEF IndInv, TypeOK
    <3>4. req'.user = req.user /\ req'.shown = req.shown \cup {d}
      BY <2>3, <3>1, <3>3 DEF After, Handling
    <3> QED
      BY <1>1, <3>2, <3>4 DEF ShowsOwn
  <2> QED
    BY <1>2, <2>2, <2>3, DoneShowsNothing, FailureShowsNothing
<1>6. CASE ReadDefinition \/ ReadLinkedDefinition \/ ReadDiagram
  <2>1. Pending /\ Current.do \in DefinitionReads
    BY <1>6 DEF ReadDefinition, ReadLinkedDefinition, ReadDiagram, At, DefinitionReads
  <2>2. PICK things :
          /\ things \subseteq {Definition}
          /\ (things \subseteq deployed /\ Show(things)) \/ Fail("internal error")
    BY <1>6 DEF ReadDefinition, ReadLinkedDefinition, ReadDiagram
  <2>3. CASE things \subseteq deployed /\ Show(things)
    <3>1. \A d \in things : d \in Definitions /\ (Tenant[d] = req.user \/ (ByVid /\ PutBehindVid(d)))
      <4>1. \A d \in things : d = Definition /\ d \in deployed
        BY <2>2, <2>3
      <4> QED
        BY <2>1, <4>1, DefinitionOwn
    <3> QED
      BY <1>3, <2>3, <3>1
  <2> QED
    BY <1>2, <2>2, <2>3, FailureShowsNothing
<1>7. CASE ReadDeployment
  <2>1. Pending /\ Current.do = "read deployment"
    BY <1>7 DEF ReadDeployment, At
  <2>2. \/ FailUnknown \/ Fail("internal error")
        \/ behind[Current.on] \in deployed /\ Show({behind[Current.on]})
    BY <1>7 DEF ReadDeployment, On
  <2>3. CASE behind[Current.on] \in deployed /\ Show({behind[Current.on]})
    <3>1. PICK d : d = behind[Current.on]
      OBVIOUS
    <3>2. d \in Definitions /\ (Tenant[d] = req.user \/ (ByVid /\ PutBehindVid(d)))
      BY <2>1, <2>3, <3>1, BehindOwn
    <3> QED
      BY <1>3, <2>3, <3>1, <3>2
  <2> QED
    BY <1>2, <2>2, <2>3, FailureShowsNothing
<1>8. CASE ListInstances
  <2>1. PICK c : c = Current
    OBVIOUS
  <2>2. Pending /\ c.do = "list"
    BY <1>8, <2>1 DEF ListInstances, At
  <2>3. PICK things :
          /\ Show(things)
          /\ things = In(c.on[2]) \cap IF c.on[1] \in Users THEN OfTenant(c.on[1])
                                       ELSE OfDefinition(c.on[1])
    BY <1>8, <2>1 DEF ListInstances, On
  <2>4. c.on[1] \in Users \cup Definitions
    BY <2>1, <2>2, CurrentCall, CallKinds
  <2>5. CASE c.on[1] \in Users
    <3>1. c.on[1] = req.user
      BY <2>1, <2>2, <2>5, AtHand DEF Fixed
    <3>2. \A i \in things : i \in Instances /\ TenantOf(i) = req.user
      BY <2>3, <2>5, <3>1 DEF OfTenant, In
    <3> QED
      BY <1>4, <2>3, <3>2
  <2>6. CASE c.on[1] \notin Users
    <3>1. Tenant[c.on[1]] = req.user
      BY <2>1, <2>2, <2>4, <2>6, AtHand DEF Granted
    <3>2. \A i \in things : i \in Instances /\ TenantOf(i) = req.user
      BY <2>3, <2>6, <3>1 DEF OfDefinition, TenantOf, In
    <3> QED
      BY <1>4, <2>3, <3>2
  <2> QED
    BY <2>5, <2>6
<1>9. CASE ListByVid
  <2>1. \/ FailUnknown
        \/ Show(Running \cap OfTenant(req.user) \cap OfDefinition(behind[On]))
    BY <1>9 DEF ListByVid
  <2>2. \A i \in Running \cap OfTenant(req.user) \cap OfDefinition(behind[On]) :
          i \in Instances /\ TenantOf(i) = req.user
    BY DEF Running, In, OfTenant
  <2> QED
    BY <1>2, <1>4, <2>1, <2>2, FailureShowsNothing
<1>10. CASE ListTheDeployments \/ ListByKey
  <2>1. \E more : Repeat(more)
    BY <1>10 DEF ListTheDeployments, ListByKey
  <2> QED
    BY <1>2, <2>1, DoneShowsNothing
<1> QED
  BY <1>5, <1>6, <1>7, <1>8, <1>9, <1>10 DEF Reads

\* Every instance that is touched is the user's.
TouchesOwn == \A i \in Instances : Touched(i) => TenantsOf(i) \subseteq {req.user}

LEMMA Touches ==
  ASSUME NEW i
  PROVE  Touched(i) <=> \/ At("set variable") /\ On = i
                        \/ inst'[i] # inst[i]
                        \/ ~(i \in io <=> i \in io')
                        \/ ~(i \in incidents <=> i \in incidents')
<1>1. ((i \in io) # (i \in io')) <=> ~(i \in io <=> i \in io')
  OBVIOUS
<1>2. ((i \in incidents) # (i \in incidents')) <=> ~(i \in incidents <=> i \in incidents')
  OBVIOUS
<1> QED
  BY <1>1, <1>2, Zenon DEF Touched

\* A variable is set in an instance of the user.
LEMMA SetTouchesOwn == ASSUME IndInv, At("set variable") PROVE Owned(req.user, On)
<1>1. Pending /\ Current.do = "set variable"
  BY DEF At
<1> QED
  BY <1>1, AtHand DEF Granted, On

LEMMA UntouchedIsOwn == ASSUME IndInv, UNCHANGED engineVars PROVE TouchesOwn
<1> SUFFICES ASSUME NEW i \in Instances, Touched(i) PROVE TenantsOf(i) \subseteq {req.user}
  BY DEF TouchesOwn
<1>1. At("set variable") /\ On = i
  BY Touches DEF engineVars
<1>2. i \in Known => Tenant[inst[i].def] = req.user
  BY <1>1, SetTouchesOwn DEF Owned, TenantOf
<1>3. inst[i].def # None => Tenant[inst[i].def] = req.user
  BY <1>2 DEF IndInv, EngineInv
<1> QED
  BY <1>3 DEF TenantsOf, engineVars

LEMMA StartTouchesOwn ==
  ASSUME IndInv, ~At("set variable"), NEW i \in Instances, NEW d \in deployed, NEW k, Tenant[d] = req.user,
         Started(i, d, k)
  PROVE  TouchesOwn
<1>1. /\ \A j \in Instances : j # i => inst'[j] = inst[j]
      /\ inst'[i].def = d /\ inst[i].st = "unborn"
      /\ io' = io /\ incidents' = incidents
  BY DEF Started, IndInv, TypeOK, EngineTypeOK
<1>2. inst[i].def = None
  BY <1>1, StatesOf DEF IndInv, EngineInv
<1> QED
  BY <1>1, <1>2, Touches DEF TouchesOwn, TenantsOf

LEMMA StopTouchesOwn ==
  ASSUME IndInv, ~At("set variable"), NEW i \in Running, TenantOf(i) = req.user, Stopped(i) PROVE TouchesOwn
<1>1. i \in Instances
  BY DEF Running, In
<1>2. inst'[i].def = inst[i].def
  BY <1>1, StoppedStep DEF IndInv, TypeOK
<1>3. (\A j \in Instances : j # i => inst'[j] = inst[j]) /\ io' = io /\ incidents' = incidents
  BY DEF Stopped, IndInv, TypeOK, EngineTypeOK
<1> QED
  BY <1>2, <1>3, Touches DEF TouchesOwn, TenantsOf, TenantOf

\* What else a request may touch: an admin's message, and a start of what has
\* been put behind the vid.
Excepted ==
  \/ At("message") /\ req.user \in Admins
  \/ ByVid /\ PutBehindVid(req.found)

LEMMA EffectsTouchOwn == IndInv /\ Effects => TouchesOwn \/ Excepted
<1> SUFFICES ASSUME IndInv, Effects PROVE TouchesOwn \/ Excepted
  OBVIOUS
<1>0. EngineTypeOK /\ EngineInv
  BY DEF IndInv, TypeOK
<1>2. ASSUME NEW i \in Instances, Start(i) PROVE TouchesOwn \/ Excepted
  <2>1. Pending /\ Current.do = "start" /\ ~At("set variable")
    BY <1>2 DEF Start, At
  <2>2. PICK d, k : d = (IF On[1] = Found THEN req.found ELSE On[1]) /\ Started(i, d, k)
    BY <1>2 DEF Start
  <2>3. d \in deployed /\ d # None /\ d \in Definitions
    BY <1>0, <2>2, InstanceAssumption DEF Started, EngineTypeOK
  <2>4. Tenant[d] = req.user \/ Excepted
    <3>1. CASE On[1] = Found
      <4>1. d = req.found /\ OwnOrNew(req.user, req.linked, req.found)
        BY <2>2, <2>3, <3>1 DEF IndInv, FoundInv
      <4>2. ByVid
        BY <2>1, <3>1 DEF ByVid
      <4> QED
        BY <2>3, <4>1, <4>2 DEF OwnOrNew, PutBehindVid, Excepted
    <3>2. CASE On[1] # Found
      BY <2>1, <2>2, <3>2, AtHand DEF Granted, On
    <3> QED
      BY <3>1, <3>2
  <2> QED
    BY <2>1, <2>2, <2>3, <2>4, StartTouchesOwn
<1>3. CASE DeleteIo \/ DeleteIncidents \/ DeleteInstance \/ DeleteHistory
  <2>1. Pending /\ Current.do \in Deletions /\ ~At("set variable")
    BY <1>3 DEF DeleteIo, DeleteIncidents, DeleteInstance, DeleteHistory, At, Deletions
  <2>2. PICK i \in Instances : i = On
    BY <2>1, CurrentCall, CallKinds DEF On, OnInstances
  <2>3. Owned(req.user, i)
    BY <2>1, <2>2, AtHand DEF Granted, On
  <2>4. inst[i].def # None => Tenant[inst[i].def] = req.user
    BY <1>0, <2>3 DEF EngineInv, Owned, TenantOf
  <2>5. CASE DeleteInstance
    <3>1. i \in Running /\ Stopped(i)
      BY <2>2, <2>5 DEF DeleteInstance, Stopped
    <3>2. TenantOf(i) = req.user
      BY <2>3, <3>1 DEF Owned, Known
    <3> QED
      BY <2>1, <3>1, <3>2, StopTouchesOwn, Zenon
  <2>6. CASE DeleteIo \/ DeleteIncidents \/ DeleteHistory
    <3>1. IoDeleted(i) \/ IncidentsDeleted(i) \/ Erased(i)
      BY <2>2, <2>6 DEF DeleteIo, DeleteIncidents, DeleteHistory
    <3>2. \A j \in Instances : j # i => ~Touched(j)
      BY <1>0, <2>1, <3>1, Touches DEF IoDeleted, IncidentsDeleted, Erased, EngineTypeOK
    <3>3. inst'[i].def \in {inst[i].def, None}
      <4>1. CASE Erased(i)
        BY <1>0, <4>1, ErasedStep DEF Nothing
      <4> QED
        BY <3>1, <4>1 DEF IoDeleted, IncidentsDeleted
    <3> QED
      <4>1. TenantsOf(i) \subseteq {req.user}
        BY <2>4, <3>3 DEF TenantsOf
      <4> QED
        BY <3>2, <4>1, Zenon DEF TouchesOwn
  <2> QED
    BY <1>3, <2>5, <2>6
<1>4. CASE SendMessage
  <2>1. At("message") /\ Pending /\ Current.do = "message" /\ ~At("set variable")
    BY <1>4 DEF SendMessage, At
  <2>2. On = req.user \/ req.user \in Admins
    BY <2>1, AtHand DEF Fixed, On
  <2>3. ASSUME On = req.user PROVE TouchesOwn
    <3>1. CASE \E i \in Instances : \E d \in deployed : Tenant[d] = On /\ Started(i, d, None)
      BY <2>1, <2>3, <3>1, StartTouchesOwn
    <3>2. CASE \E i \in Running \cap OfTenant(On) : Stopped(i)
      BY <2>1, <2>3, <3>2, StopTouchesOwn DEF OfTenant
    <3> QED
      BY <1>4, <3>1, <3>2, UntouchedIsOwn DEF SendMessage
  <2> QED
    BY <2>1, <2>2, <2>3, Zenon DEF Excepted
<1>5. CASE SetInstanceVariable
  BY <1>5, UntouchedIsOwn DEF SetInstanceVariable
<1> QED
  BY <1>2, <1>3, <1>4, <1>5, Zenon DEF Effects

----------------------------------------------------------------------------
\* Access control (camunda.go Check*Access): whatever happens between the check
\* and the call, a request touches only what belongs to its user, but for the
\* message of an admin and for the start of a definition which another request
\* has put behind the vid since this one began.
THEOREM OnlyOwnHolds == Spec => OnlyOwn
<1> DEFINE A == Pending /\ req' # req =>
                  \A i \in Instances : Touched(i) =>
                    \/ TenantsOf(i) \subseteq {req.user}
                    \/ At("message") /\ req.user \in Admins
                    \/ ByVid /\ PutBehindVid(req.found)
<1>1. IndInv /\ [Next]_vars => [A]_vars
  <2> SUFFICES ASSUME IndInv, Next, Pending, req' # req PROVE TouchesOwn \/ Excepted
    BY DEF TouchesOwn, Excepted
  <2>1. CASE Effects
    BY <2>1, EffectsTouchOwn
  <2>2. CASE ~Effects
    <3>1. UNCHANGED engineVars
      BY <2>2, CallMade DEF CheckDefinition, CheckDeployment, CheckInstance, CheckHistory,
        Reads, FindDefinition, ReadDefinition, ReadLinkedDefinition, ReadDiagram,
        ReadDeployment, ListInstances, ListByVid, ListTheDeployments, ListByKey, CallFails
    <3> QED
      BY <3>1, UntouchedIsOwn
  <2> QED
    BY <2>1, <2>2
<1> QED
  BY <1>1, IndInvHolds, PTL DEF Spec, OnlyOwn

\* Everything in an answer belongs to who asked, although the queries by
\* definition name no tenant (GetProcessInstanceHistoryByProcessDefinition*);
\* but for a deployment which another request has put behind the vid since this
\* one began.
THEOREM AnswersShowOwnHolds == Spec => AnswersShowOwn
<1>1. IndInv /\ [Next]_vars => [ShowsOwn]_vars
  <2> SUFFICES ASSUME IndInv, Next PROVE ShowsOwn
    BY DEF ShowsOwn
  <2>1. ASSUME req'.shown \subseteq req.shown PROVE ShowsOwn
    BY <2>1 DEF ShowsOwn
  <2>2. CASE Others
    BY <2>1, <2>2 DEF Others
  <2>3. CASE Forget \/ \E u \in Users : Begin(u) \/ Refuse(u)
    <3>1. req'.shown = {}
      <4>1. ASSUME NEW u \in Users, Begin(u) PROVE req'.shown = {}
        <5>1. PICK calls : req' = [Idle EXCEPT
                                     !.user = u,
                                     !.calls = calls,
                                     !.answer = IF calls = <<>> THEN "ok" ELSE "pending",
                                     !.linked = IF AboutVids(calls)
                                                THEN {behind[v] : v \in Vids} \ {None} ELSE {},
                                     !.settled = Ended \cap IdsOf(calls, "delete history")]
          BY <4>1 DEF Begin
        <5> QED
          BY <5>1 DEF Idle
      <4>2. ASSUME NEW u \in Users, Refuse(u) PROVE req'.shown = {}
        BY <4>2 DEF Refuse, Idle
      <4>3. CASE Forget
        BY <4>3 DEF Forget, Idle
      <4> QED
        BY <2>3, <4>1, <4>2, <4>3
    <3> QED
      BY <2>1, <3>1
  <2>4. CASE Reads
    BY <2>4, ReadsShowOwn
  <2>5. CASE CheckDefinition \/ CheckDeployment \/ CheckInstance \/ CheckHistory
    <3>1. Done \/ FailUnknown \/ \E code : Fail(code)
      BY <2>5 DEF CheckDefinition, CheckDeployment, CheckInstance, CheckHistory
    <3> QED
      BY <2>1, <3>1, DoneShowsNothing, FailureShowsNothing
  <2>6. CASE Effects \/ CallFails
    <3>1. Done \/ \E code : Fail(code)
      BY <2>6 DEF Effects, Start, DeleteIo, DeleteIncidents, DeleteInstance, DeleteHistory,
        SetInstanceVariable, SendMessage, CallFails, Lost
    <3> QED
      BY <2>1, <3>1, DoneShowsNothing, FailureShowsNothing
  <2> QED
    BY <2>2, <2>3, <2>4, <2>5, <2>6 DEF Next, Request
<1> QED
  BY <1>1, IndInvHolds, PTL DEF Spec, AnswersShowOwn, ShowsOwn

\* DeleteHistoricProcessInstance: what is erased from the history leaves no io
\* variables and no incidents, if it had ended before the request came.
THEOREM ErasedLeavesNothingHolds == Spec => ErasedLeavesNothing
<1> DEFINE A == DeleteHistory /\ On \in req.settled => On \notin io' \cup incidents'
<1>1. IndInv /\ [Next]_vars => [A]_vars
  <2>0. SUFFICES ASSUME IndInv, DeleteHistory, On \in req.settled
                 PROVE  On \notin io' \cup incidents'
    OBVIOUS
  <2>1. PICK calls, pos, i, settled :
          calls = req.calls /\ pos = req.pos /\ i = On /\ settled = req.settled
    OBVIOUS
  <2>2. /\ Pending /\ calls[pos].do = "delete history" /\ calls[pos].on = i /\ i \in settled
        /\ io' = io /\ incidents' = incidents
    BY <2>0, <2>1 DEF DeleteHistory, At, Erased, On, Current
  <2>3. ErasureOf(calls, pos, settled) /\ pos \in 1..Len(calls) /\ Len(calls) \in Nat
    <3>1. calls \in Seq(Calls) /\ pos \in 1..Len(calls) /\ ErasureOf(calls, pos, settled)
      BY <2>0, <2>1, <2>2, PartsOf
    <3> QED
      BY <3>1
  <2>4. pos \in pos..Len(calls) /\ pos..(pos - 1) = {}
    BY <2>3
  <2>5. i \notin io /\ i \notin incidents
    BY <2>2, <2>3, <2>4 DEF ErasureOf
  <2> QED
    BY <2>1, <2>2, <2>5
<1> QED
  BY <1>1, IndInvHolds, PTL DEF Spec, ErasedLeavesNothing

\* StartDeployment: the instance started for a vid runs the definition that is
\* behind the vid at that moment, whatever was deployed in between.
THEOREM StartsBehindVidHolds == Spec => StartsBehindVid
<1> DEFINE A == \A i \in Instances :
                  Start(i) /\ On[1] = Found => inst'[i].def = behind[req.calls[1].on]
<1>1. IndInv /\ [Next]_vars => [A]_vars
  <2> SUFFICES ASSUME IndInv, NEW i \in Instances, Start(i), On[1] = Found
               PROVE  inst'[i].def = behind[req.calls[1].on]
    OBVIOUS
  <2>1. PICK calls, pos : calls = req.calls /\ pos = req.pos
    OBVIOUS
  <2>2. /\ Pending /\ calls[pos].do = "start" /\ calls[pos].on[1] = Found
        /\ req.found \in deployed /\ inst'[i].def = req.found
    BY <2>1 DEF Start, At, Started, On, Current, IndInv, TypeOK, EngineTypeOK
  <2>3. FoundOf(req.user, req.linked, calls, req.found) /\ pos \in 1..Len(calls)
    BY <2>1, <2>2, PartsOf
  <2>4. behind[calls[1].on] = req.found
    BY <2>2, <2>3 DEF FoundOf
  <2> QED
    BY <2>1, <2>2, <2>4
<1> QED
  BY <1>1, IndInvHolds, PTL DEF Spec, StartsBehindVid
=============================================================================
