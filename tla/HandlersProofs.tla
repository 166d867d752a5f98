--------------------------- MODULE HandlersProofs ---------------------------
(***************************************************************************)
(* What the sequences of calls of the handlers (V2Endpoints, V1Endpoints)  *)
(* have in common: every call that needs it comes after a check of what it *)
(* is about, and what the properties of Instances need of the order of the *)
(* calls and of what becomes of their errors.                              *)
(***************************************************************************)
EXTENDS Instances, SequenceTheorems, TLAPS

\* What the proofs need of the calls of a handler, whatever the engine knows.
\* No definition counts as new yet: those of linked are all there are.
Proper(u, calls) ==
  /\ calls \in Seq(Calls)
  /\ \A n \in 1..Len(calls) :
       /\ Fixed(u, calls[n])
       /\ \/ Granted(u, Definitions, calls[n])
          \/ \E m \in 1..(n - 1) : Grants(calls[m], calls[n])
       /\ calls[n].do \in {"list deployments", "list by key"} => Len(calls) = 1
       /\ calls[n].do = "delete instance" =>
            /\ calls[n].fail # "ignore"
            /\ \A m \in 1..Len(calls) : "ok" \notin {calls[m].fail, calls[m].unknown}
       /\ calls[n].do = "start" /\ calls[n].on[1] = Found =>
            /\ calls[1].on \in Vids
            /\ \A m \in 1..Len(calls) : calls[m].do = "find definition" => calls[m].on = calls[1].on
       /\ calls[n].do = "delete history" =>
            \A x \in {"delete io", "delete incidents"} : \E m \in 1..(n - 1) :
              Strict(calls[m]) /\ calls[m].do = x /\ calls[m].on = calls[n].on
  /\ calls # <<>> /\ calls[1].do = "check instance" =>
       \A n \in 1..Len(calls) : "join" \notin {calls[n].fail, calls[n].unknown}

----------------------------------------------------------------------------
\* Sequences written out.

LEMMA Joined11 == ASSUME NEW a, NEW b PROVE <<a>> \o <<b>> = <<a, b>>
<1> DEFINE S == {a, b}
<1>1. <<a>> \in Seq(S) /\ <<b>> \in Seq(S) /\ <<a, b>> \in Seq(S)
  OBVIOUS
<1>2. /\ <<a>> \o <<b>> \in Seq(S)
      /\ Len(<<a>> \o <<b>>) = 2
      /\ \A i \in 1..2 : (<<a>> \o <<b>>)[i] = <<a, b>>[i]
  BY <1>1, ConcatProperties
<1> QED
  BY <1>1, <1>2, SeqEqual

LEMMA Joined12 == ASSUME NEW a, NEW b, NEW c PROVE <<a>> \o <<b, c>> = <<a, b, c>>
<1> DEFINE S == {a, b, c}
<1>1. <<a>> \in Seq(S) /\ <<b, c>> \in Seq(S) /\ <<a, b, c>> \in Seq(S)
  OBVIOUS
<1>2. /\ <<a>> \o <<b, c>> \in Seq(S)
      /\ Len(<<a>> \o <<b, c>>) = 3
      /\ \A i \in 1..3 : (<<a>> \o <<b, c>>)[i] = <<a, b, c>>[i]
  BY <1>1, ConcatProperties
<1> QED
  BY <1>1, <1>2, SeqEqual

LEMMA Joined21 == ASSUME NEW a, NEW b, NEW c PROVE <<a, b>> \o <<c>> = <<a, b, c>>
<1> DEFINE S == {a, b, c}
<1>1. <<a, b>> \in Seq(S) /\ <<c>> \in Seq(S) /\ <<a, b, c>> \in Seq(S)
  OBVIOUS
<1>2. /\ <<a, b>> \o <<c>> \in Seq(S)
      /\ Len(<<a, b>> \o <<c>>) = 3
      /\ \A i \in 1..3 : (<<a, b>> \o <<c>>)[i] = <<a, b, c>>[i]
  BY <1>1, ConcatProperties
<1> QED
  BY <1>1, <1>2, SeqEqual

LEMMA Joined22 ==
  ASSUME NEW a, NEW b, NEW c, NEW d PROVE <<a, b>> \o <<c, d>> = <<a, b, c, d>>
<1> DEFINE S == {a, b, c, d}
<1>1. <<a, b>> \in Seq(S) /\ <<c, d>> \in Seq(S) /\ <<a, b, c, d>> \in Seq(S)
  OBVIOUS
<1>2. /\ <<a, b>> \o <<c, d>> \in Seq(S)
      /\ Len(<<a, b>> \o <<c, d>>) = 4
      /\ \A i \in 1..4 : (<<a, b>> \o <<c, d>>)[i] = <<a, b, c, d>>[i]
  BY <1>1, ConcatProperties
<1> QED
  BY <1>1, <1>2, SeqEqual

----------------------------------------------------------------------------
\* Handlers that read, start a definition or send a message.

\* A call that no order matters to.
Simple(u, c) ==
  /\ c \in Calls
  /\ Fixed(u, c)
  /\ c.do \notin {"delete instance", "delete history"}
  /\ c.do = "start" => c.on[1] # Found

LEMMA TupleOne ==
  ASSUME NEW S, NEW a \in S
  PROVE  /\ <<a>> \in Seq(S) /\ <<a>> # <<>> /\ Len(<<a>>) = 1 /\ <<a>>[1] = a
         /\ \A n \in 1..Len(<<a>>) : n = 1
  OBVIOUS

LEMMA TupleTwo ==
  ASSUME NEW S, NEW a \in S, NEW b \in S
  PROVE  /\ <<a, b>> \in Seq(S) /\ <<a, b>> # <<>> /\ Len(<<a, b>>) = 2
         /\ <<a, b>>[1] = a /\ <<a, b>>[2] = b
         /\ \A n \in 1..Len(<<a, b>>) : n = 1 \/ n = 2
  OBVIOUS

LEMMA TupleThree ==
  ASSUME NEW S, NEW a \in S, NEW b \in S, NEW c \in S
  PROVE  /\ <<a, b, c>> \in Seq(S) /\ <<a, b, c>> # <<>> /\ Len(<<a, b, c>>) = 3
         /\ <<a, b, c>>[1] = a /\ <<a, b, c>>[2] = b /\ <<a, b, c>>[3] = c
         /\ \A n \in 1..Len(<<a, b, c>>) : n \in {1, 2, 3}
  OBVIOUS

LEMMA TupleFour ==
  ASSUME NEW S, NEW a \in S, NEW b \in S, NEW c \in S, NEW d \in S
  PROVE  /\ <<a, b, c, d>> \in Seq(S) /\ <<a, b, c, d>> # <<>> /\ Len(<<a, b, c, d>>) = 4
         /\ <<a, b, c, d>>[1] = a /\ <<a, b, c, d>>[2] = b
         /\ <<a, b, c, d>>[3] = c /\ <<a, b, c, d>>[4] = d
         /\ \A n \in 1..Len(<<a, b, c, d>>) : n \in {1, 2, 3, 4}
  OBVIOUS

LEMMA ProperOne ==
  ASSUME NEW u, NEW c, Simple(u, c), Granted(u, Definitions, c),
         c.do # "check instance"
  PROVE  Proper(u, <<c>>)
<1>1. c \in Calls
  BY DEF Simple
<1> DEFINE s == <<c>>
<1>2. /\ s \in Seq(Calls) /\ s # <<>> /\ Len(s) = 1 /\ s[1] = c
      /\ \A n \in 1..Len(s) : n = 1
  BY <1>1, TupleOne
<1> HIDE DEF s
<1>3. Proper(u, s)
  BY <1>2 DEF Proper, Simple
<1> QED
  BY <1>3 DEF s

LEMMA ProperTwo ==
  ASSUME NEW u, NEW a, NEW b, Simple(u, a), Simple(u, b),
         Granted(u, Definitions, a), Granted(u, Definitions, b) \/ Grants(a, b),
         "join" \notin {a.fail, a.unknown, b.fail, b.unknown},
         {a.do, b.do} \cap {"list deployments", "list by key"} = {}
  PROVE  Proper(u, <<a, b>>)
<1>1. a \in Calls /\ b \in Calls
  BY DEF Simple
<1> DEFINE s == <<a, b>>
<1>2. /\ s \in Seq(Calls) /\ s # <<>> /\ Len(s) = 2 /\ s[1] = a /\ s[2] = b
      /\ \A n \in 1..Len(s) : n = 1 \/ n = 2
  BY <1>1, TupleTwo
<1>3. 1 \in 1..(2 - 1)
  OBVIOUS
<1> HIDE DEF s
<1>4. \A n \in 1..Len(s) :
        /\ Fixed(u, s[n])
        /\ s[n].do \notin {"delete instance", "delete history", "list deployments", "list by key"}
        /\ s[n].do = "start" => s[n].on[1] # Found
        /\ "join" \notin {s[n].fail, s[n].unknown}
  BY <1>2 DEF Simple
<1>5. \A n \in 1..Len(s) :
        Granted(u, Definitions, s[n]) \/ \E m \in 1..(n - 1) : Grants(s[m], s[n])
  BY <1>2, <1>3
<1>6. Proper(u, s)
  BY <1>2, <1>4, <1>5 DEF Proper
<1> QED
  BY <1>6 DEF s

\* Where a call belongs.
LEMMA CallsByKind ==
  ASSUME NEW fail \in Failures
  PROVE  /\ \A do \in OnInstances, i \in Instances : Call(do, i, fail) \in Calls
         /\ \A do \in OnVids, v \in Vids : Call(do, v, fail) \in Calls
         /\ \A do \in DefinitionReads \cup {"check definition"}, d \in Definitions \cup {Found} :
              Call(do, d, fail) \in Calls
         /\ \A d \in Definitions \cup {Found}, k \in Keys \cup {None} :
              Call("start", <<d, k>>, fail) \in Calls
         /\ \A of \in Users \cup Definitions, st \in SUBSET {"running", "ended"} :
              Call("list", <<of, st>>, fail) \in Calls
         /\ \A u \in Users, k \in Keys : Call("list by key", <<u, k>>, fail) \in Calls
         /\ \A u \in Users : Call("list deployments", u, fail) \in Calls
         /\ \A u \in Users : Call("message", u, fail) \in Calls
<1>1. \A do \in OnInstances, i \in Instances : Call(do, i, fail) \in Calls
  BY DEF Call, Calls
<1>2. \A do \in OnVids, v \in Vids : Call(do, v, fail) \in Calls
  BY DEF Call, Calls
<1>3. \A do \in DefinitionReads \cup {"check definition"}, d \in Definitions \cup {Found} :
        Call(do, d, fail) \in Calls
  BY DEF Call, Calls
<1>4. \A d \in Definitions \cup {Found}, k \in Keys \cup {None} :
        Call("start", <<d, k>>, fail) \in Calls
  BY DEF Call, Calls
<1>5. \A of \in Users \cup Definitions, st \in SUBSET {"running", "ended"} :
        Call("list", <<of, st>>, fail) \in Calls
  BY DEF Call, Calls
<1>6. \A u \in Users, k \in Keys : Call("list by key", <<u, k>>, fail) \in Calls
  BY DEF Call, Calls
<1>7. /\ \A u \in Users : Call("list deployments", u, fail) \in Calls
      /\ \A u \in Users : Call("message", u, fail) \in Calls
  BY DEF Call, Calls
<1> QED
  BY <1>1, <1>2, <1>3, <1>4, <1>5, <1>6, <1>7

LEMMA TheFailures ==
  {"internal error", "unauthorized", "bad request", "ok", "own", "join", "ignore"} \subseteq Failures
  BY DEF Failures, Answers

\* A check of a definition or a vid, and the call that needs it.
LEMMA CheckedDefinition ==
  ASSUME NEW u, NEW d \in Definitions, NEW b, Simple(u, b), "join" \notin {b.fail, b.unknown},
         \/ b.do \in {"start", "list"} /\ b.on[1] = d
         \/ b.do \in DefinitionReads /\ b.on = d
  PROVE  Proper(u, CheckProcessDefinitionAccess(d) \o <<b>>)
<1> DEFINE a == Call("check definition", d, "unauthorized")
<1>1. CheckProcessDefinitionAccess(d) \o <<b>> = <<a, b>>
  BY Joined11 DEF CheckProcessDefinitionAccess
<1>2. a \in Calls
  BY CallsByKind, TheFailures
<1>3. /\ a.do = "check definition" /\ a.on = d
      /\ a.fail = "unauthorized" /\ a.unknown = "unauthorized"
  BY DEF Call
<1> HIDE DEF a
<1>4. Simple(u, a) /\ Granted(u, Definitions, a)
  BY <1>2, <1>3 DEF Simple, Fixed, Granted, Deletions, DefinitionReads
<1>5. Grants(a, b)
  BY <1>3 DEF Grants, Strict
<1>6. {a.do, b.do} \cap {"list deployments", "list by key"} = {}
  BY <1>3 DEF DefinitionReads
<1>7. "join" \notin {a.fail, a.unknown, b.fail, b.unknown}
  BY <1>3
<1> QED
  BY <1>1, <1>4, <1>5, <1>6, <1>7, ProperTwo

LEMMA CheckedVid ==
  ASSUME NEW u, NEW v \in Vids, NEW b, Simple(u, b), "join" \notin {b.fail, b.unknown},
         b.do \in {"find definition", "read deployment"}, b.on = v
  PROVE  Proper(u, CheckDeploymentAccess(v) \o <<b>>)
<1> DEFINE a == Call("check deployment", v, "unauthorized")
<1>1. CheckDeploymentAccess(v) \o <<b>> = <<a, b>>
  BY Joined11 DEF CheckDeploymentAccess
<1>2. a \in Calls
  BY CallsByKind, TheFailures DEF OnVids
<1>3. /\ a.do = "check deployment" /\ a.on = v
      /\ a.fail = "unauthorized" /\ a.unknown = "unauthorized"
  BY DEF Call
<1> HIDE DEF a
<1>4. Simple(u, a) /\ Granted(u, Definitions, a)
  BY <1>2, <1>3 DEF Simple, Fixed, Granted, Deletions, DefinitionReads
<1>5. Grants(a, b)
  BY <1>3 DEF Grants, Strict
<1>6. {a.do, b.do} \cap {"list deployments", "list by key"} = {}
  BY <1>3
<1>7. "join" \notin {a.fail, a.unknown, b.fail, b.unknown}
  BY <1>3
<1> QED
  BY <1>1, <1>4, <1>5, <1>6, <1>7, ProperTwo

LEMMA StartProcessDefinitionIsProper ==
  ASSUME NEW u, NEW d \in Definitions, NEW k \in Keys \cup {None}
  PROVE  /\ Proper(u, StartProcessDefinition(d, k))
         /\ Proper(u, StartProcessDefinitionAndGetInstanceId(d, k))
<1> DEFINE b == Call("start", <<d, k>>, "internal error")
<1>1. b \in Calls
  BY CallsByKind, TheFailures
<1>2. b.do = "start" /\ b.on[1] = d /\ b.fail = "internal error" /\ b.unknown = "internal error"
  BY DEF Call
<1>3. d # Found
  BY InstanceAssumption DEF Found
<1> HIDE DEF b
<1>4. Simple(u, b)
  BY <1>1, <1>2, <1>3 DEF Simple, Fixed
<1>5. Proper(u, CheckProcessDefinitionAccess(d) \o <<b>>)
  BY <1>2, <1>4, CheckedDefinition
<1> QED
  BY <1>5 DEF b, StartProcessDefinition, StartProcessDefinitionAndGetInstanceId,
              StartProcess, StartProcessGetId

LEMMA DefinitionsAreProper ==
  ASSUME NEW u, NEW d \in Definitions
  PROVE  Proper(u, GetDefinition(d)) /\ Proper(u, GetDefinitionDiagram(d))
<1>1. ASSUME NEW do \in {"read linked definition", "read diagram"}
      PROVE  Proper(u, CheckProcessDefinitionAccess(d) \o <<Call(do, d, "internal error")>>)
  <2> DEFINE b == Call(do, d, "internal error")
  <2>1. b \in Calls
    BY CallsByKind, TheFailures DEF DefinitionReads
  <2>2. b.do \in DefinitionReads /\ b.on = d /\ b.fail = "internal error" /\ b.unknown = "internal error"
    BY DEF Call, DefinitionReads
  <2> HIDE DEF b
  <2>3. Simple(u, b)
    BY <2>1, <2>2 DEF Simple, Fixed, DefinitionReads
  <2>4. Proper(u, CheckProcessDefinitionAccess(d) \o <<b>>)
    BY <2>2, <2>3, CheckedDefinition
  <2> QED
    BY <2>4 DEF b
<1> QED
  BY <1>1 DEF GetDefinition, GetDefinitionDiagram, GetProcessDefinition, GetProcessDefinitionDiagram

LEMMA HistoryOfDefinitionIsProper ==
  ASSUME NEW u, NEW d \in Definitions, NEW st \in SUBSET {"running", "ended"}
  PROVE  Proper(u, V1GetHistoricProcessInstancesOfProcessDefinition(d, st))
<1> DEFINE b == Call("list", <<d, st>>, "internal error")
<1>1. b \in Calls
  BY CallsByKind, TheFailures
<1>2. b.do = "list" /\ b.on[1] = d /\ b.fail = "internal error" /\ b.unknown = "internal error"
  BY DEF Call
<1>3. d \notin Users
  BY InstanceAssumption
<1> HIDE DEF b
<1>4. Simple(u, b)
  BY <1>1, <1>2, <1>3 DEF Simple, Fixed
<1>5. Proper(u, CheckProcessDefinitionAccess(d) \o <<b>>)
  BY <1>2, <1>4, CheckedDefinition
<1> QED
  BY <1>5 DEF b, V1GetHistoricProcessInstancesOfProcessDefinition,
              GetProcessInstanceHistoryByProcessDefinition, List

LEMMA DeploymentsAreProper ==
  ASSUME NEW u, NEW v \in Vids
  PROVE  Proper(u, GetDeploymentByVid(v)) /\ Proper(u, GetDeploymentDefinition(v))
<1>1. ASSUME NEW do \in {"find definition", "read deployment"}
      PROVE  Proper(u, CheckDeploymentAccess(v) \o <<Call(do, v, "internal error")>>)
  <2> DEFINE b == Call(do, v, "internal error")
  <2>1. b \in Calls
    BY CallsByKind, TheFailures DEF OnVids
  <2>2. b.do \in {"find definition", "read deployment"} /\ b.on = v /\ b.fail = "internal error" /\ b.unknown = "internal error"
    BY DEF Call
  <2> HIDE DEF b
  <2>3. Simple(u, b)
    BY <2>1, <2>2 DEF Simple, Fixed
  <2>4. Proper(u, CheckDeploymentAccess(v) \o <<b>>)
    BY <2>2, <2>3, CheckedVid
  <2> QED
    BY <2>4 DEF b
<1> QED
  BY <1>1 DEF GetDeploymentByVid, GetDeploymentDefinition, GetDeployment, GetDefinitionByDeploymentVid

LEMMA QuestionsAboutVidsAreProper ==
  ASSUME NEW u, NEW v \in Vids
  PROVE  Proper(u, DeploymentExists(v)) /\ Proper(u, GetDeploymentInstances(v))
<1>1. ASSUME NEW do \in {"check deployment", "list by vid"}, NEW x \in {"ok", "bad request"}
      PROVE  Proper(u, <<VidCall(do, v, "internal error", x)>>)
  <2> DEFINE c == VidCall(do, v, "internal error", x)
  <2>1. c \in Calls
    BY TheFailures DEF VidCall, Call, Calls, OnVids
  <2>2. c.do \in {"check deployment", "list by vid"}
    BY DEF VidCall, Call
  <2> HIDE DEF c
  <2>3. Simple(u, c) /\ Granted(u, Definitions, c)
    BY <2>1, <2>2 DEF Simple, Fixed, Granted, Deletions, DefinitionReads
  <2>4. Proper(u, <<c>>)
    BY <2>2, <2>3, ProperOne
  <2> QED
    BY <2>4 DEF c
<1> QED
  BY <1>1 DEF DeploymentExists, GetDeploymentInstances, GetInstancesByDeploymentVid

LEMMA ListsAreProper ==
  ASSUME NEW u \in Users, NEW st \in SUBSET {"running", "ended"}
  PROVE  Proper(u, List(u, st)) /\ Proper(u, ListWithTotal(u, st))
<1> DEFINE c == Call("list", <<u, st>>, "internal error")
<1>1. c \in Calls
  BY CallsByKind, TheFailures
<1>2. c.do = "list" /\ c.on[1] = u /\ c.fail = "internal error" /\ c.unknown = "internal error"
  BY DEF Call
<1>3. u \notin Definitions
  BY InstanceAssumption
<1> HIDE DEF c
<1>4. Simple(u, c) /\ Granted(u, Definitions, c)
  BY <1>1, <1>2, <1>3 DEF Simple, Fixed, Granted, Deletions, DefinitionReads
<1>5. Proper(u, <<c>>)
  BY <1>2, <1>4, ProperOne
<1>6. {c.do, c.do} \cap {"list deployments", "list by key"} = {}
  BY <1>2
<1>7. Proper(u, <<c, c>>)
  BY <1>2, <1>4, <1>6, ProperTwo
<1>8. <<c>> \o <<c>> = <<c, c>>
  BY Joined11
<1> QED
  BY <1>5, <1>7, <1>8 DEF c, List, ListWithTotal

LEMMA OthersAreProper ==
  ASSUME NEW u \in Users
  PROVE  /\ Proper(u, <<>>)
         /\ Proper(u, ListDeployments(u))
         /\ \A k \in Keys : Proper(u, DeleteProcessInstancesByBusinessKey(u, k))
         /\ \A tenant \in Users : Proper(u, TriggerEvent(u, tenant))
<1>1. Proper(u, <<>>)
  BY DEF Proper
<1>2. ASSUME NEW c \in Calls,
             \/ c.do = "list deployments" /\ c.on = u
             \/ c.do = "list by key" /\ c.on[1] = u /\ "ok" \notin {c.fail, c.unknown}
             \/ c.do = "message" /\ (c.on = u \/ u \in Admins)
      PROVE  Proper(u, <<c>>)
  <2>1. Simple(u, c) /\ Granted(u, Definitions, c)
    BY <1>2 DEF Simple, Fixed, Granted, Deletions, DefinitionReads
  <2> QED
    BY <1>2, <2>1, ProperOne
<1>3. Proper(u, ListDeployments(u))
  <2> DEFINE c == Call("list deployments", u, "internal error")
  <2>1. c \in Calls
    BY CallsByKind, TheFailures
  <2>2. c.do = "list deployments" /\ c.on = u
    BY DEF Call
  <2> HIDE DEF c
  <2>3. Proper(u, <<c>>)
    BY <1>2, <2>1, <2>2
  <2> QED
    BY <2>3 DEF c, ListDeployments, GetExtendedDeploymentList
<1>4. ASSUME NEW k \in Keys PROVE Proper(u, DeleteProcessInstancesByBusinessKey(u, k))
  <2> DEFINE c == Call("list by key", <<u, k>>, "internal error")
  <2>1. c \in Calls
    BY CallsByKind, TheFailures
  <2>2. c.do = "list by key" /\ c.on[1] = u /\ "ok" \notin {c.fail, c.unknown}
    BY DEF Call
  <2> HIDE DEF c
  <2>3. Proper(u, <<c>>)
    BY <1>2, <2>1, <2>2
  <2> QED
    BY <2>3 DEF c, DeleteProcessInstancesByBusinessKey
<1>5. ASSUME NEW tenant \in Users PROVE Proper(u, TriggerEvent(u, tenant))
  <2> DEFINE to == IF u \in Admins THEN tenant ELSE u
             c == Call("message", to, "internal error")
  <2>1. to \in Users /\ (to = u \/ u \in Admins)
    OBVIOUS
  <2> HIDE DEF to
  <2>2. c \in Calls
    BY <2>1, CallsByKind, TheFailures
  <2>3. c.do = "message" /\ c.on = to
    BY DEF Call
  <2> HIDE DEF c
  <2>4. Proper(u, <<c>>)
    BY <1>2, <2>1, <2>2, <2>3
  <2> QED
    BY <2>4 DEF c, to, TriggerEvent, SendEventTrigger
<1> QED
  BY <1>1, <1>3, <1>4, <1>5

LEMMA SetVariableIsProper ==
  ASSUME NEW u, NEW i \in Instances
  PROVE  Proper(u, SetProcessInstanceVariable(i))
<1> DEFINE a == Call("check instance", i, "own")
           b == Call("set variable", i, "internal error")
<1>1. SetProcessInstanceVariable(i) = <<a, b>>
  BY Joined11 DEF SetProcessInstanceVariable, CheckProcessInstanceAccess, SetVariable
<1>2. a \in Calls /\ b \in Calls
  BY CallsByKind, TheFailures DEF OnInstances
<1>3. /\ a.do = "check instance" /\ a.on = i /\ a.fail = "own" /\ a.unknown = "own"
      /\ b.do = "set variable" /\ b.on = i /\ b.fail = "internal error" /\ b.unknown = "internal error"
  BY DEF Call
<1> HIDE DEF a, b
<1>4. Simple(u, a) /\ Granted(u, Definitions, a) /\ Simple(u, b)
  BY <1>2, <1>3 DEF Simple, Fixed, Granted, Deletions, DefinitionReads
<1>5. Grants(a, b)
  BY <1>3 DEF Grants, Strict
<1>6. {a.do, b.do} \cap {"list deployments", "list by key"} = {}
  BY <1>3
<1> QED
  BY <1>1, <1>3, <1>4, <1>5, <1>6, ProperTwo

----------------------------------------------------------------------------
\* Handlers that look for the definition behind a vid.

LEMMA StartDeploymentIsProper ==
  ASSUME NEW u, NEW v \in Vids, NEW k \in Keys \cup {None}
  PROVE  Proper(u, StartDeployment(v, k))
<1> DEFINE a == Call("check deployment", v, "unauthorized")
           b == Call("find definition", v, "internal error")
           c == Call("start", <<Found, k>>, "internal error")
           s == <<a, b, c>>
<1>1. StartDeployment(v, k) = s
  <2> HIDE DEF a, b, c
  <2>1. StartDeployment(v, k) = (<<a>> \o <<b>>) \o <<c>>
    BY Zenon DEF a, b, c, StartDeployment, CheckDeploymentAccess,
      GetDefinitionByDeploymentVid, StartProcessGetId
  <2>2. <<a>> \o <<b>> = <<a, b>> /\ <<a, b>> \o <<c>> = <<a, b, c>>
    BY Joined11, Joined21
  <2> QED
    BY <2>1, <2>2
<1>2. a \in Calls /\ b \in Calls /\ c \in Calls
  BY CallsByKind, TheFailures DEF OnVids
<1>3. /\ a.do = "check deployment" /\ a.on = v
      /\ a.fail = "unauthorized" /\ a.unknown = "unauthorized"
      /\ b.do = "find definition" /\ b.on = v
      /\ c.do = "start" /\ c.on[1] = Found
  BY DEF Call
<1> HIDE DEF a, b, c
<1>4. /\ s \in Seq(Calls) /\ Len(s) = 3 /\ s # <<>> /\ s[1] = a /\ s[2] = b /\ s[3] = c
      /\ \A n \in 1..Len(s) : n \in {1, 2, 3}
  BY <1>2, TupleThree
<1>5. Granted(u, Definitions, a) /\ Granted(u, Definitions, c) /\ Grants(a, b)
  BY <1>3 DEF Granted, Grants, Strict, Deletions, DefinitionReads
<1> HIDE DEF s
<1>6. 1 \in 1..(2 - 1)
  OBVIOUS
<1>7. \A n \in 1..Len(s) :
        Granted(u, Definitions, s[n]) \/ \E m \in 1..(n - 1) : Grants(s[m], s[n])
  BY <1>4, <1>5, <1>6
<1>8. \A n \in 1..Len(s) :
        /\ Fixed(u, s[n])
        /\ s[n].do \notin {"delete instance", "delete history", "list deployments", "list by key"}
        /\ s[n].do = "find definition" => s[n].on = s[1].on
  BY <1>3, <1>4 DEF Fixed
<1>9. Proper(u, s)
  BY <1>3, <1>4, <1>7, <1>8 DEF Proper
<1> QED
  BY <1>1, <1>9

LEMMA DeploymentParametersAreProper ==
  ASSUME NEW u, NEW v \in Vids
  PROVE  Proper(u, GetDeploymentParameters(v))
<1> DEFINE a == Call("check deployment", v, "unauthorized")
           b == Call("find definition", v, "internal error")
           c == Call("read definition", Found, "internal error")
           d == Call("read definition", Found, "ignore")
           s == <<a, b, c, d>>
<1>1. GetDeploymentParameters(v) = s
  <2> HIDE DEF a, b, c, d
  <2>1. GetDeploymentParameters(v) = (<<a>> \o <<b>>) \o <<c, d>>
    BY Zenon DEF a, b, c, d, GetDeploymentParameters, CheckDeploymentAccess,
      GetDefinitionByDeploymentVid, GetProcessParameters
  <2>2. <<a>> \o <<b>> = <<a, b>> /\ <<a, b>> \o <<c, d>> = <<a, b, c, d>>
    BY Joined11, Joined22
  <2> QED
    BY <2>1, <2>2
<1>2. a \in Calls /\ b \in Calls /\ c \in Calls /\ d \in Calls
  BY CallsByKind, TheFailures DEF OnVids, DefinitionReads
<1>3. /\ a.do = "check deployment" /\ a.on = v
      /\ a.fail = "unauthorized" /\ a.unknown = "unauthorized"
      /\ b.do = "find definition" /\ b.on = v
      /\ c.do = "read definition" /\ c.on = Found
      /\ d.do = "read definition" /\ d.on = Found
  BY DEF Call
<1> HIDE DEF a, b, c, d
<1>4. /\ s \in Seq(Calls) /\ Len(s) = 4 /\ s # <<>>
      /\ s[1] = a /\ s[2] = b /\ s[3] = c /\ s[4] = d
      /\ \A n \in 1..Len(s) : n \in {1, 2, 3, 4}
  BY <1>2, TupleFour
<1>5. /\ \A x \in {a, c, d} : Granted(u, Definitions, x)
      /\ Grants(a, b)
  BY <1>3 DEF Granted, Grants, Strict, Deletions, DefinitionReads
<1> HIDE DEF s
<1>6. 1 \in 1..(2 - 1)
  OBVIOUS
<1>7. \A n \in 1..Len(s) :
        Granted(u, Definitions, s[n]) \/ \E m \in 1..(n - 1) : Grants(s[m], s[n])
  BY <1>4, <1>5, <1>6
<1>8. \A n \in 1..Len(s) :
        /\ Fixed(u, s[n])
        /\ s[n].do \notin {"start", "delete instance", "delete history",
                            "list deployments", "list by key"}
  BY <1>3, <1>4 DEF Fixed
<1>9. Proper(u, s)
  BY <1>3, <1>4, <1>7, <1>8 DEF Proper
<1> QED
  BY <1>1, <1>9

----------------------------------------------------------------------------
\* The calls for each id of a list: the one at n is the r-th for the q-th id.

LEMMA Place ==
  ASSUME NEW k \in {2, 3, 4}, NEW l \in Nat, NEW n \in 1..(k * l)
  PROVE  /\ 1 + ((n - 1) \div k) \in 1..l
         /\ 1 + ((n - 1) % k) \in 1..k
         /\ n = k * ((n - 1) \div k) + 1 + ((n - 1) % k)
<1>1. CASE k = 2
  BY <1>1
<1>2. CASE k = 3
  BY <1>2
<1>3. CASE k = 4
  BY <1>3
<1> QED
  BY <1>1, <1>2, <1>3

LEMMA PlaceOf ==
  ASSUME NEW k \in {2, 3, 4}, NEW l \in Nat, NEW q \in 1..l, NEW r \in 1..k
  PROVE  /\ k * (q - 1) + r \in 1..(k * l)
         /\ 1 + ((k * (q - 1) + r - 1) \div k) = q
         /\ 1 + ((k * (q - 1) + r - 1) % k) = r
<1>1. CASE k = 2
  BY <1>1
<1>2. CASE k = 3
  BY <1>2
<1>3. CASE k = 4
  BY <1>3
<1> QED
  BY <1>1, <1>2, <1>3

Blocks(s, k, ids, calls) ==
  /\ s \in Seq(Calls)
  /\ Len(s) = k * Len(ids)
  /\ \A n \in 1..Len(s) : \E q \in 1..Len(ids), r \in 1..k : n = k * (q - 1) + r
  /\ \A q \in 1..Len(ids), r \in 1..k :
       k * (q - 1) + r \in 1..Len(s) /\ s[k * (q - 1) + r] = calls[ids[q]][r]

LEMMA ForEachBlocks ==
  ASSUME NEW S, NEW k \in {2, 3, 4}, NEW ids \in Seq(S), NEW calls,
         \A x \in S : \A r \in 1..k : calls[x][r] \in Calls
  PROVE  Blocks(ForEach(ids, k, calls), k, ids, calls)
<1> DEFINE l == Len(ids)
           s == ForEach(ids, k, calls)
<1>1. l \in Nat /\ k * l \in Nat
  OBVIOUS
<1>2. s = [n \in 1..(k * l) |-> calls[ids[1 + ((n - 1) \div k)]][1 + ((n - 1) % k)]]
  BY DEF ForEach
<1>3. \A q \in 1..l : ids[q] \in S
  OBVIOUS
<1> HIDE DEF l, s
<1>4. ASSUME NEW n \in 1..(k * l)
      PROVE  /\ \E q \in 1..l, r \in 1..k : n = k * (q - 1) + r
             /\ s[n] \in Calls
  <2> DEFINE q == 1 + ((n - 1) \div k)
             r == 1 + ((n - 1) % k)
  <2>1. q \in 1..l /\ r \in 1..k /\ n = k * (q - 1) + r
    BY <1>1, Place
  <2>2. s[n] = calls[ids[q]][r]
    BY <1>2
  <2> HIDE DEF q, r
  <2> QED
    BY <1>3, <2>1, <2>2
<1>5. ASSUME NEW q \in 1..l, NEW r \in 1..k
      PROVE  k * (q - 1) + r \in 1..(k * l) /\ s[k * (q - 1) + r] = calls[ids[q]][r]
  <2> DEFINE n == k * (q - 1) + r
  <2>1. n \in 1..(k * l) /\ 1 + ((n - 1) \div k) = q /\ 1 + ((n - 1) % k) = r
    BY <1>1, PlaceOf
  <2> HIDE DEF n
  <2>2. s[n] = calls[ids[q]][r]
    BY <1>2, <2>1
  <2> QED
    BY <2>1, <2>2 DEF n
<1>6. s \in [1..(k * l) -> Calls]
  BY <1>2, <1>4
<1>7. s \in Seq(Calls) /\ Len(s) = k * l
  BY <1>1, <1>6
<1>8. Blocks(s, k, ids, calls)
  BY <1>4, <1>5, <1>7 DEF Blocks, l
<1> QED
  BY <1>8 DEF s

----------------------------------------------------------------------------
\* Deletions.

Stops == [i \in Instances |-> DeleteProcessInstance(i)]
Erasures == [i \in Instances |-> DeleteHistoricProcessInstance(i)]

LEMMA StopParts ==
  ASSUME NEW i \in Instances
  PROVE  /\ Stops[i] \in Seq(Calls) /\ Len(Stops[i]) = 3
         /\ \A r \in 1..3 :
              /\ Stops[i][r] \in Calls /\ Stops[i][r].on = i
              /\ Strict(Stops[i][r]) /\ "ok" \notin {Stops[i][r].fail, Stops[i][r].unknown}
         /\ Stops[i][1].do = "check instance"
         /\ Stops[i][2].do = "delete io"
         /\ Stops[i][3].do = "delete instance"
<1> DEFINE a == Call("check instance", i, "own")
           b == Call("delete io", i, "internal error")
           c == Call("delete instance", i, "internal error")
           s == <<a, b, c>>
           Part(x) == /\ x \in Calls /\ x.on = i
                      /\ Strict(x) /\ "ok" \notin {x.fail, x.unknown}
<1>1. a \in Calls /\ b \in Calls /\ c \in Calls
  BY CallsByKind, TheFailures DEF OnInstances, Deletions
<1>2. /\ a.do = "check instance" /\ a.on = i /\ a.fail = "own" /\ a.unknown = "own"
      /\ b.do = "delete io" /\ b.on = i
      /\ b.fail = "internal error" /\ b.unknown = "internal error"
      /\ c.do = "delete instance" /\ c.on = i
      /\ c.fail = "internal error" /\ c.unknown = "internal error"
  BY DEF Call
<1>3. Stops[i] = <<a>> \o <<b, c>>
  BY Zenon DEF Stops, DeleteProcessInstance, CheckProcessInstanceAccess, RemoveProcessInstance
<1> HIDE DEF a, b, c
<1>4. /\ s \in Seq(Calls) /\ Len(s) = 3 /\ s[1] = a /\ s[2] = b /\ s[3] = c
  BY <1>1, TupleThree
<1>5. Stops[i] = s
  BY <1>3, Joined12
<1> HIDE DEF s
<1>6. Part(a) /\ Part(b) /\ Part(c)
  BY <1>1, <1>2 DEF Strict
<1> HIDE DEF Part
<1>7. \A r \in 1..3 : Part(s[r])
  BY <1>4, <1>6
<1>8. s[1].do = "check instance" /\ s[2].do = "delete io" /\ s[3].do = "delete instance"
  BY <1>2, <1>4
<1> QED
  BY <1>4, <1>5, <1>7, <1>8, Zenon DEF Part

LEMMA ErasureParts ==
  ASSUME NEW i \in Instances
  PROVE  /\ Erasures[i] \in Seq(Calls) /\ Len(Erasures[i]) = 4
         /\ \A r \in 1..4 :
              /\ Erasures[i][r] \in Calls /\ Erasures[i][r].on = i
              /\ Strict(Erasures[i][r])
         /\ Erasures[i][1].do = "check history"
         /\ Erasures[i][2].do = "delete incidents"
         /\ Erasures[i][3].do = "delete io"
         /\ Erasures[i][4].do = "delete history"
<1> DEFINE a == Call("check history", i, "unauthorized")
           b == Call("delete incidents", i, "own")
           c == Call("delete io", i, "ok")
           d == Call("delete history", i, "ok")
           s == <<a, b, c, d>>
           Part(x) == x \in Calls /\ x.on = i /\ Strict(x)
<1>1. a \in Calls /\ b \in Calls /\ c \in Calls /\ d \in Calls
  BY CallsByKind, TheFailures DEF OnInstances, Deletions
<1>2. /\ a.do = "check history" /\ a.on = i
      /\ a.fail = "unauthorized" /\ a.unknown = "unauthorized"
      /\ b.do = "delete incidents" /\ b.on = i /\ b.fail = "own" /\ b.unknown = "own"
      /\ c.do = "delete io" /\ c.on = i /\ c.fail = "ok" /\ c.unknown = "ok"
      /\ d.do = "delete history" /\ d.on = i /\ d.fail = "ok" /\ d.unknown = "ok"
  BY DEF Call
<1>3. Erasures[i] = (<<a>> \o <<b>>) \o <<c, d>>
  BY Zenon DEF Erasures, DeleteHistoricProcessInstance, CheckHistoryAccess,
    RemoveProcessInstanceHistory
<1> HIDE DEF a, b, c, d
<1>4. /\ s \in Seq(Calls) /\ Len(s) = 4
      /\ s[1] = a /\ s[2] = b /\ s[3] = c /\ s[4] = d
  BY <1>1, TupleFour
<1>5. <<a>> \o <<b>> = <<a, b>> /\ <<a, b>> \o <<c, d>> = s
  BY Joined11, Joined22
<1>6. Erasures[i] = s
  BY <1>3, <1>5
<1> HIDE DEF s
<1>7. Part(a) /\ Part(b) /\ Part(c) /\ Part(d)
  BY <1>1, <1>2 DEF Strict
<1> HIDE DEF Part
<1>8. \A r \in 1..4 : Part(s[r])
  BY <1>4, <1>7
<1>9. /\ s[1].do = "check history" /\ s[2].do = "delete incidents"
      /\ s[3].do = "delete io" /\ s[4].do = "delete history"
  BY <1>2, <1>4
<1> QED
  BY <1>4, <1>6, <1>8, <1>9, Zenon DEF Part

\* One deletion after the other.
LEMMA StopsAreProper ==
  ASSUME NEW u, NEW s, NEW ids \in Seq(Instances), Blocks(s, 3, ids, Stops)
  PROVE  Proper(u, s)
<1>1. s \in Seq(Calls) /\ Len(s) \in Nat
  BY DEF Blocks
<1>2. ASSUME NEW n \in 1..Len(s)
      PROVE  /\ s[n].do \in {"check instance", "delete io", "delete instance"}
             /\ Strict(s[n]) /\ "ok" \notin {s[n].fail, s[n].unknown}
             /\ Granted(u, Definitions, s[n]) \/ \E m \in 1..(n - 1) : Grants(s[m], s[n])
  <2>1. PICK q \in 1..Len(ids), r \in 1..3 : n = 3 * (q - 1) + r
    BY DEF Blocks
  <2>2. ids[q] \in Instances
    OBVIOUS
  <2> DEFINE d == Stops[ids[q]]
             m == 3 * (q - 1) + 1
  <2>3. /\ \A x \in 1..3 : d[x].on = ids[q] /\ Strict(d[x])
        /\ \A x \in 1..3 : "ok" \notin {d[x].fail, d[x].unknown}
        /\ d[1].do = "check instance" /\ d[2].do = "delete io" /\ d[3].do = "delete instance"
    <3> DEFINE i == ids[q]
    <3> HIDE DEF i
    <3>1. i \in Instances
      BY <2>2 DEF i
    <3>2. /\ \A x \in 1..3 : Stops[i][x].on = i /\ Strict(Stops[i][x])
          /\ \A x \in 1..3 : "ok" \notin {Stops[i][x].fail, Stops[i][x].unknown}
          /\ Stops[i][1].do = "check instance" /\ Stops[i][2].do = "delete io"
          /\ Stops[i][3].do = "delete instance"
      BY <3>1, StopParts
    <3> QED
      BY <3>2 DEF i
  <2>4. s[n] = d[r]
    BY <2>1 DEF Blocks
  <2>5. s[m] = d[1]
    BY <2>1 DEF Blocks
  <2>10. r = 1 \/ m \in 1..(n - 1)
    BY <2>1
  <2>6. r \in {1, 2, 3} /\ 1 \in 1..3
    OBVIOUS
  <2> HIDE DEF d, m
  <2>7. /\ s[n].on = ids[q] /\ Strict(s[n]) /\ "ok" \notin {s[n].fail, s[n].unknown}
        /\ s[m].on = ids[q] /\ Strict(s[m]) /\ s[m].do = "check instance"
    BY <2>3, <2>4, <2>5, <2>6, Zenon
  <2>8. /\ r # 1 => s[n].do \in {"delete io", "delete instance"}
        /\ r = 1 => s[n].do = "check instance"
    BY <2>3, <2>4, <2>6
  <2>9. Granted(u, Definitions, s[n]) \/ \E x \in 1..(n - 1) : Grants(s[x], s[n])
    <3>1. CASE r = 1
      BY <2>8, <3>1 DEF Granted, Deletions, DefinitionReads
    <3>2. CASE r # 1
      <4>1. Grants(s[m], s[n])
        BY <2>7, <2>8, <3>2 DEF Grants, Deletions
      <4> QED
        BY <2>10, <3>2, <4>1
    <3> QED
      BY <3>1, <3>2
  <2> QED
    BY <2>7, <2>8, <2>9
<1>3. \A n \in 1..Len(s) : s[n].fail # "ignore" /\ "join" \notin {s[n].fail, s[n].unknown}
  BY <1>2 DEF Strict
<1>4. \A n \in 1..Len(s) : Fixed(u, s[n])
  BY <1>2 DEF Fixed
<1>5. \A n \in 1..Len(s) :
        s[n].do \notin {"start", "list deployments", "list by key", "delete history"}
  BY <1>2
<1>6. \A n \in 1..Len(s) :
        /\ "ok" \notin {s[n].fail, s[n].unknown}
        /\ Granted(u, Definitions, s[n]) \/ \E m \in 1..(n - 1) : Grants(s[m], s[n])
  BY <1>2
<1> QED
  BY <1>1, <1>3, <1>4, <1>5, <1>6 DEF Proper

LEMMA ErasuresAreProper ==
  ASSUME NEW u, NEW s, NEW ids \in Seq(Instances), Blocks(s, 4, ids, Erasures)
  PROVE  Proper(u, s)
<1> DEFINE Before(n, do) == \E m \in 1..(n - 1) :
             Strict(s[m]) /\ s[m].do = do /\ s[m].on = s[n].on
<1>1. s \in Seq(Calls) /\ Len(s) \in Nat
  BY DEF Blocks
<1>2. ASSUME NEW n \in 1..Len(s)
      PROVE  /\ s[n].do \in {"check history", "delete incidents", "delete io", "delete history"}
             /\ Strict(s[n])
             /\ Granted(u, Definitions, s[n]) \/ \E m \in 1..(n - 1) : Grants(s[m], s[n])
             /\ s[n].do = "delete history" =>
                  Before(n, "delete io") /\ Before(n, "delete incidents")
  <2>1. PICK q \in 1..Len(ids), r \in 1..4 : n = 4 * (q - 1) + r
    BY DEF Blocks
  <2>2. ids[q] \in Instances
    OBVIOUS
  <2> DEFINE d == Erasures[ids[q]]
             m == 4 * (q - 1)
  <2>3. /\ \A x \in 1..4 : d[x].on = ids[q] /\ Strict(d[x])
        /\ d[1].do = "check history" /\ d[2].do = "delete incidents"
        /\ d[3].do = "delete io" /\ d[4].do = "delete history"
    BY <2>2, ErasureParts
  <2>4. s[n] = d[r]
    BY <2>1 DEF Blocks
  <2>5. /\ s[m + 1] = d[1] /\ s[m + 2] = d[2] /\ s[m + 3] = d[3]
    BY <2>1 DEF Blocks
  <2>6. /\ r = 1 \/ m + 1 \in 1..(n - 1)
        /\ r = 4 => m + 2 \in 1..(n - 1) /\ m + 3 \in 1..(n - 1)
    BY <2>1
  <2>7. r \in {1, 2, 3, 4} /\ 1 \in 1..4 /\ 2 \in 1..4 /\ 3 \in 1..4
    OBVIOUS
  <2> HIDE DEF d, m
  <2>8. /\ s[n].on = ids[q] /\ Strict(s[n])
        /\ s[m + 1].on = ids[q] /\ Strict(s[m + 1]) /\ s[m + 1].do = "check history"
        /\ s[m + 2].on = ids[q] /\ Strict(s[m + 2]) /\ s[m + 2].do = "delete incidents"
        /\ s[m + 3].on = ids[q] /\ Strict(s[m + 3]) /\ s[m + 3].do = "delete io"
    BY <2>3, <2>4, <2>5, <2>7, Zenon
  <2>9. /\ r # 1 => s[n].do \in {"delete incidents", "delete io", "delete history"}
        /\ r = 1 => s[n].do = "check history"
        /\ s[n].do = "delete history" => r = 4
    BY <2>3, <2>4, <2>7
  <2>10. Granted(u, Definitions, s[n]) \/ \E x \in 1..(n - 1) : Grants(s[x], s[n])
    <3>1. CASE r = 1
      BY <2>9, <3>1 DEF Granted, Deletions, DefinitionReads
    <3>2. CASE r # 1
      <4>1. Grants(s[m + 1], s[n])
        BY <2>8, <2>9, <3>2 DEF Grants, Deletions
      <4> QED
        BY <2>6, <3>2, <4>1
    <3> QED
      BY <3>1, <3>2
  <2>11. s[n].do = "delete history" => Before(n, "delete io") /\ Before(n, "delete incidents")
    BY <2>6, <2>8, <2>9
  <2> QED
    BY <2>8, <2>9, <2>10, <2>11
<1> HIDE DEF Before
<1>3. \A n \in 1..Len(s) : "join" \notin {s[n].fail, s[n].unknown}
  BY <1>2 DEF Strict
<1>4. \A n \in 1..Len(s) : Fixed(u, s[n])
  BY <1>2 DEF Fixed
<1>5. \A n \in 1..Len(s) :
        /\ s[n].do \notin {"start", "list deployments", "list by key", "delete instance"}
        /\ Granted(u, Definitions, s[n]) \/ \E m \in 1..(n - 1) : Grants(s[m], s[n])
  BY <1>2
<1>6. \A n \in 1..Len(s) : s[n].do = "delete history" =>
        \A x \in {"delete io", "delete incidents"} : Before(n, x)
  BY <1>2
<1> QED
  BY <1>1, <1>3, <1>4, <1>5, <1>6 DEF Proper, Before

LEMMA DeletionsAreProper ==
  ASSUME NEW u, NEW ids \in Seq(Instances)
  PROVE  /\ Proper(u, DeleteProcessMultipleInstances(ids))
         /\ Proper(u, DeleteMultipleHistoricProcessInstances(ids))
<1>1. /\ DeleteProcessMultipleInstances(ids) = ForEach(ids, 3, Stops)
      /\ DeleteMultipleHistoricProcessInstances(ids) = ForEach(ids, 4, Erasures)
  BY DEF DeleteProcessMultipleInstances, DeleteMultipleHistoricProcessInstances, Stops, Erasures
<1>2. /\ \A i \in Instances : \A r \in 1..3 : Stops[i][r] \in Calls
      /\ \A i \in Instances : \A r \in 1..4 : Erasures[i][r] \in Calls
  BY StopParts, ErasureParts, Zenon
<1>3. Blocks(ForEach(ids, 3, Stops), 3, ids, Stops)
  BY <1>2, ForEachBlocks
<1>4. Blocks(ForEach(ids, 4, Erasures), 4, ids, Erasures)
  BY <1>2, ForEachBlocks
<1> QED
  BY <1>1, <1>3, <1>4, StopsAreProper, ErasuresAreProper, Zenon

\* A single deletion is a list of one.
LEMMA OneBlock ==
  ASSUME NEW i \in Instances, NEW k \in {3, 4}, NEW calls,
         calls[i] \in Seq(Calls), Len(calls[i]) = k
  PROVE  Blocks(calls[i], k, <<i>>, calls)
<1>1. Len(<<i>>) = 1 /\ <<i>>[1] = i
  BY TupleOne
<1> DEFINE ids == <<i>>
           s == calls[i]
<1> HIDE DEF ids, s
<1>2. s \in Seq(Calls) /\ Len(s) = k * 1 /\ Len(s) = k /\ Len(ids) = 1 /\ calls[ids[1]] = s
  BY <1>1 DEF ids, s
<1>3. \A n \in 1..k : \E q \in 1..1, r \in 1..k : n = k * (q - 1) + r
  <2> TAKE n \in 1..k
  <2>1. n = k * (1 - 1) + n
    OBVIOUS
  <2> QED
    BY <2>1
<1>4. \A q \in 1..1, r \in 1..k : q = 1 /\ k * (q - 1) + r = r
  OBVIOUS
<1>5. Blocks(s, k, ids, calls)
  BY <1>2, <1>3, <1>4 DEF Blocks
<1> QED
  BY <1>5 DEF ids, s

LEMMA DeletionIsProper ==
  ASSUME NEW u, NEW i \in Instances
  PROVE  Proper(u, DeleteProcessInstance(i)) /\ Proper(u, DeleteHistoricProcessInstance(i))
<1>1. Stops[i] = DeleteProcessInstance(i) /\ Erasures[i] = DeleteHistoricProcessInstance(i)
  BY DEF Stops, Erasures
<1>2. <<i>> \in Seq(Instances)
  BY TupleOne
<1>3. Blocks(Stops[i], 3, <<i>>, Stops)
  BY StopParts, OneBlock
<1>4. Blocks(Erasures[i], 4, <<i>>, Erasures)
  BY ErasureParts, OneBlock
<1> QED
  BY <1>1, <1>2, <1>3, <1>4, StopsAreProper, ErasuresAreProper

----------------------------------------------------------------------------
\* Every handler of lib/api makes its calls properly: what it does to an
\* instance, setting a variable included, or with a definition or a vid comes
\* after a successful check of it; io variables and incidents are deleted
\* before the history is; a deletion of running instances passes over no error.
THEOREM HandlersAreProper ==
  ASSUME NEW u \in Users, NEW calls \in V2Requests(u) \cup V1Requests(u)
  PROVE  Proper(u, calls)
<1> DEFINE keys == Keys \cup {None}
           lists == SeqOf(Instances, MaxIds)
           states == {{"running", "ended"}, {"ended"}, {"running"}}
<1>1. \A d \in Definitions, k \in keys :
        /\ Proper(u, StartProcessDefinition(d, k))
        /\ Proper(u, StartProcessDefinitionAndGetInstanceId(d, k))
  BY StartProcessDefinitionIsProper
<1>2. \A d \in Definitions : Proper(u, GetDefinition(d)) /\ Proper(u, GetDefinitionDiagram(d))
  BY DefinitionsAreProper
<1>3. \A d \in Definitions, st \in states :
        Proper(u, V1GetHistoricProcessInstancesOfProcessDefinition(d, st))
  BY HistoryOfDefinitionIsProper
<1>4. \A v \in Vids :
        /\ Proper(u, GetDeploymentByVid(v))
        /\ Proper(u, GetDeploymentDefinition(v))
        /\ Proper(u, DeploymentExists(v))
        /\ Proper(u, GetDeploymentInstances(v))
        /\ Proper(u, GetDeploymentParameters(v))
  BY DeploymentsAreProper, QuestionsAboutVidsAreProper, DeploymentParametersAreProper
<1>5. \A v \in Vids, k \in keys : Proper(u, StartDeployment(v, k))
  BY StartDeploymentIsProper
<1>6. \A st \in states : Proper(u, List(u, st)) /\ Proper(u, ListWithTotal(u, st))
  BY ListsAreProper
<1>7. /\ Proper(u, <<>>)
      /\ Proper(u, ListDeployments(u))
      /\ \A k \in Keys : Proper(u, DeleteProcessInstancesByBusinessKey(u, k))
      /\ \A tenant \in Users : Proper(u, TriggerEvent(u, tenant))
  BY OthersAreProper
<1>8. \A i \in Instances :
        /\ Proper(u, SetProcessInstanceVariable(i))
        /\ Proper(u, DeleteProcessInstance(i))
        /\ Proper(u, DeleteHistoricProcessInstance(i))
  BY SetVariableIsProper, DeletionIsProper
<1>9. \A ids \in lists :
        /\ Proper(u, DeleteProcessMultipleInstances(ids))
        /\ Proper(u, DeleteMultipleHistoricProcessInstances(ids))
  <2>1. lists \subseteq Seq(Instances)
    BY InstanceAssumption DEF SeqOf
  <2> QED
    BY <2>1, DeletionsAreProper
<1>10. /\ Proper(u, ListProcessInstances(u)) /\ Proper(u, GetProcessInstanceList(u))
       /\ Proper(u, GetProcessInstanceCount(u))
       /\ \A total \in BOOLEAN : Proper(u, GetHistoricProcessInstances(u, total))
  BY <1>6 DEF ListProcessInstances, GetProcessInstanceList, GetProcessInstanceCount,
    GetHistoricProcessInstances, GetProcessInstanceHistoryList
<1>11. /\ Proper(u, V1GetHistoricProcessInstances(u))
       /\ Proper(u, V1GetFilteredHistoricProcessInstances(u))
       /\ Proper(u, V1GetFinishedProcessInstances(u))
       /\ Proper(u, V1GetUnfinishedProcessInstances(u))
       /\ Proper(u, V1FindFinishedProcessInstances(u))
       /\ Proper(u, V1FindUnfinishedProcessInstances(u))
  BY <1>6 DEF V1GetHistoricProcessInstances, V1GetFilteredHistoricProcessInstances,
    V1GetFinishedProcessInstances, V1GetUnfinishedProcessInstances,
    V1FindFinishedProcessInstances, V1FindUnfinishedProcessInstances,
    GetProcessInstanceHistoryList, GetProcessInstanceHistoryListWithTotal
<1>12. CASE calls \in V2Requests(u)
  BY <1>1, <1>2, <1>4, <1>5, <1>7, <1>8, <1>9, <1>10, <1>12 DEF V2Requests
<1>13. CASE calls \in V1Requests(u)
  BY <1>1, <1>2, <1>3, <1>4, <1>5, <1>7, <1>8, <1>10, <1>11, <1>13
  DEF V1Requests, V1HealthCheck, V1StartProcessDefinition,
    V1StartProcessDefinitionAndGetInstanceId, V1GetDeployment, V1DeploymentExists,
    V1StartDeployment, V1GetDeploymentParameters, V1GetDeploymentDefinition,
    V1GetDeployments, V1GetProcessDefinition, V1GetProcessDefinitionDiagram,
    V1GetProcessInstances, V1GetProcessInstanceCount,
    V1DeleteHistoricProcessInstance, V1DeleteProcessInstance
<1> QED
  BY <1>12, <1>13
=============================================================================
