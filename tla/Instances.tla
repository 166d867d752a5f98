------------------------------ MODULE Instances ------------------------------
(***************************************************************************)
(* A request for definitions, instances or events, while instances start   *)
(* and end by themselves, vids are redeployed and other requests are       *)
(* handled.  A request is a sequence of remote calls (V2Endpoints,         *)
(* V1Endpoints); every call is one step, and everything may happen between *)
(* two of them.  What the others do appears as the single effects their    *)
(* calls have, so that one observed request stands for any number.  A call *)
(* that reports an error may have had its effect: the answer can be lost.  *)
(***************************************************************************)
EXTENDS V1Endpoints

VARIABLE req   \* the observed request

vars == <<engineVars, req>>

Idle ==
  [user |-> None,       \* None: there is no request
   calls |-> <<>>,      \* the calls of the handler
   pos |-> 1,           \* the call that is next
   answer |-> "ok",     \* "pending" as long as there is none
   failed |-> FALSE,    \* an error is kept in err
   found |-> None,      \* definitions[0] of the handler
   shown |-> {},        \* instances and definitions in the answer
   linked |-> {},       \* behind vids when the request about them began
   settled |-> {}]      \* instances to erase, ended when the request began

Handling ==
  [user : Users \cup {None}, calls : Seq(Calls), pos : Nat \ {0},
   answer : Answers \cup {"pending"}, failed : BOOLEAN, found : Definitions \cup {None},
   shown : SUBSET (Instances \cup Definitions), linked : SUBSET Definitions,
   settled : SUBSET Instances]

TypeOK ==
  /\ EngineTypeOK
  /\ req \in Handling
  /\ req.answer = "pending" => req.user # None /\ req.pos <= Len(req.calls)

Init == EngineInit /\ req = Idle

----------------------------------------------------------------------------
\* How a handler goes on.

Pending == req.answer = "pending"
Current == req.calls[req.pos]
At(do) == Pending /\ Current.do = do

\* What the call is about; the definition may have been found before.
On == Current.on
Definition == IF On = Found THEN req.found ELSE On

\* The ids that the request has calls of this kind for.
IdsOf(calls, do) == {calls[n].on : n \in {m \in DOMAIN calls : calls[m].do = do}}

\* The request looks for deployments by their vids.
AboutVids(calls) == \E n \in DOMAIN calls : calls[n].do \in OnVids \cup {"list deployments"}

\* The answer tells nothing but its code; what a 200 promises is in the calls.
Answer(code) ==
  req' = [Idle EXCEPT
            !.user = req.user,
            !.answer = code,
            !.calls = IF code = "ok" THEN req.calls ELSE <<>>]

\* A faulty variant of the next one: it looks for one call too many.
AfterTooMany(r) ==
  [r EXCEPT !.pos = @ + 1, !.answer = IF r.pos <= Len(r.calls) THEN "pending" ELSE "ok"]

\* The request after a call.
After(r) ==
  [r EXCEPT
     !.pos = @ + 1,
     !.answer = IF r.pos < Len(r.calls) THEN "pending"
                ELSE IF r.failed THEN "internal error" ELSE "ok"]

Done == req' = After(req)
Show(things) == req' = After([req EXCEPT !.shown = @ \cup things])
Repeat(calls) == req' = After([req EXCEPT !.calls = @ \o calls])

\* The call returns an error; code is what it returns with it.
FailsAs(fail, code) ==
  CASE fail = "join" -> req' = After([req EXCEPT !.failed = TRUE])
    [] fail = "ignore" -> req' = After([req EXCEPT !.found = None])
    [] fail = "own" -> Answer(code)
    [] OTHER -> Answer(fail)
Fail(code) == FailsAs(Current.fail, code)
FailUnknown == FailsAs(Current.unknown, "internal error")

----------------------------------------------------------------------------
\* The request comes and goes.

Begin(u) ==
  /\ req.user = None
  /\ \E calls \in V2Requests(u) \cup V1Requests(u) :
       req' = [Idle EXCEPT
                 !.user = u,
                 !.calls = calls,
                 !.answer = IF calls = <<>> THEN "ok" ELSE "pending",
                 !.linked = IF AboutVids(calls) THEN {behind[v] : v \in Vids} \ {None} ELSE {},
                 !.settled = Ended \cap IdsOf(calls, "delete history")]
  /\ UNCHANGED engineVars

\* The token or the body can not be parsed: no call is made.
Refuse(u) ==
  /\ req.user = None
  /\ req' = [Idle EXCEPT !.user = u, !.answer = "bad request"]
  /\ UNCHANGED engineVars

Forget == req.user # None /\ ~Pending /\ req' = Idle /\ UNCHANGED engineVars

----------------------------------------------------------------------------
\* Access checks.

CheckDefinition ==
  /\ At("check definition")
  /\ IF On \in deployed /\ Tenant[On] = req.user THEN Done ELSE Fail("internal error")
  /\ UNCHANGED engineVars

\* By the vid's relation and the deployment it names.
CheckDeployment ==
  /\ At("check deployment")
  /\ IF behind[On] = None THEN FailUnknown
     ELSE IF behind[On] \in deployed /\ Tenant[behind[On]] = req.user THEN Done
     ELSE Fail("internal error")
  /\ UNCHANGED engineVars

CheckInstance ==
  /\ At("check instance")
  /\ IF On \notin Running THEN Fail("not found")
     ELSE IF TenantOf(On) # req.user THEN Fail("forbidden") ELSE Done
  /\ UNCHANGED engineVars

CheckHistory ==
  /\ At("check history")
  /\ IF On \in Known /\ TenantOf(On) = req.user THEN Done ELSE Fail("unauthorized")
  /\ UNCHANGED engineVars

----------------------------------------------------------------------------
\* Calls that read.

\* The engine knows no definitions of a deployment it does not have: no error
\* in itself, but a handler that goes on needs the first.
FindDefinition ==
  /\ At("find definition")
  /\ LET d == behind[On]
     IN IF d = None THEN FailUnknown
        ELSE IF d \in deployed
        THEN req' = After([req EXCEPT !.found = d, !.shown = @ \cup {d}])
        ELSE IF req.pos = Len(req.calls) THEN Done ELSE Fail("internal error")
  /\ UNCHANGED engineVars

ReadDefinition ==
  /\ At("read definition")
  /\ IF Definition \in deployed THEN Show({Definition}) ELSE Fail("internal error")
  /\ UNCHANGED engineVars

\* The vid of the definition's deployment has to be known.
ReadLinkedDefinition ==
  /\ At("read linked definition")
  /\ IF Definition \in deployed /\ \E v \in Vids : behind[v] = Definition
     THEN Show({Definition}) ELSE Fail("internal error")
  /\ UNCHANGED engineVars

\* The engine's error is passed on as if it were the diagram.  There is none
\* to ask for when the definition was not found.
ReadDiagram ==
  /\ At("read diagram")
  /\ Show({Definition} \cap deployed)
  /\ UNCHANGED engineVars

ReadDeployment ==
  /\ At("read deployment")
  /\ IF behind[On] = None THEN FailUnknown
     ELSE IF behind[On] \in deployed THEN Show({behind[On]}) ELSE Fail("internal error")
  /\ UNCHANGED engineVars

\* Instances of a tenant or of a definition.
ListInstances ==
  /\ At("list")
  /\ LET of == On[1]
     IN Show(In(On[2]) \cap IF of \in Users THEN OfTenant(of) ELSE OfDefinition(of))
  /\ UNCHANGED engineVars

ListByVid ==
  /\ At("list by vid")
  /\ IF behind[On] = None THEN FailUnknown
     ELSE Show(Running \cap OfTenant(req.user) \cap OfDefinition(behind[On]))
  /\ UNCHANGED engineVars

\* The deployments of the user which have a vid, each to be read.
ListTheDeployments ==
  /\ At("list deployments")
  /\ \E vids \in SetToSeqs({v \in Vids : behind[v] \in deployed /\ Tenant[behind[v]] = On}) :
       Repeat(ForEach(vids, 2, [v \in Vids |-> GetExtendedDeployment(v)]))
  /\ UNCHANGED engineVars

\* The running instances of the user with the key, each to be stopped.
ListByKey ==
  /\ At("list by key")
  /\ \E ids \in SetToSeqs({i \in Running \cap OfTenant(On[1]) : inst[i].key = On[2]}) :
       Repeat(StopByKey(ids))
  /\ UNCHANGED engineVars

----------------------------------------------------------------------------
\* Calls that change something; the answer of each may be lost.

Lost == Done \/ Fail("internal error")

Start(i) ==
  /\ At("start")
  /\ LET d == IF On[1] = Found THEN req.found ELSE On[1] IN Started(i, d, On[2])
  /\ Lost

DeleteIo == At("delete io") /\ IoDeleted(On) /\ Lost
DeleteIncidents == At("delete incidents") /\ IncidentsDeleted(On) /\ Lost
DeleteInstance == At("delete instance") /\ Stopped(On) /\ Lost
DeleteHistory == At("delete history") /\ Erased(On) /\ Lost

\* Variables are not part of the state.
SetInstanceVariable == At("set variable") /\ On \in Running /\ Lost /\ UNCHANGED engineVars

\* The message starts an instance of the tenant, makes one go on to its end,
\* or does nothing that matters here.
SendMessage ==
  /\ At("message")
  /\ \/ \E i \in Instances : \E d \in deployed : Tenant[d] = On /\ Started(i, d, None)
     \/ \E i \in Running \cap OfTenant(On) : Stopped(i)
     \/ UNCHANGED engineVars
  /\ Lost

\* The service can not be reached, answers with an error (as the engine does
\* to the deletion of an instance it does not have) or too late.
CallFails ==
  /\ Pending
  /\ \/ Fail("internal error")
     \/ At("check instance") /\ Fail("no answer")
  /\ UNCHANGED engineVars

----------------------------------------------------------------------------
Reads ==
  \/ FindDefinition \/ ReadDefinition \/ ReadLinkedDefinition \/ ReadDiagram
  \/ ReadDeployment \/ ListInstances \/ ListByVid \/ ListTheDeployments \/ ListByKey

Effects ==
  \/ \E i \in Instances : Start(i)
  \/ DeleteIo \/ DeleteIncidents \/ DeleteInstance \/ DeleteHistory
  \/ SetInstanceVariable \/ SendMessage

Request ==
  \/ \E u \in Users : Begin(u) \/ Refuse(u)
  \/ Forget
  \/ CheckDefinition \/ CheckDeployment \/ CheckInstance \/ CheckHistory
  \/ Reads \/ Effects \/ CallFails

Others ==
  /\ \/ \E i \in Instances :
          \/ OthersStart(i) \/ OthersStop(i) \/ OthersErase(i)
          \/ OthersWriteIo(i) \/ OthersDeleteIo(i)
          \/ OthersReportIncident(i) \/ OthersDeleteIncidents(i)
     \/ \E v \in Vids : Undeploy(v) \/ Unlink(v)
     \/ \E d \in Definitions : Deploy(d) \/ \E v \in Vids : Link(v, d)
  /\ UNCHANGED req

Next == Request \/ Others

Spec == Init /\ [][Next]_vars

----------------------------------------------------------------------------
\* Properties.

\* StartDeployment and the reads of a deployment by its vid name no tenant
\* after CheckDeploymentAccess.  So what another request has put behind the vid
\* since this one began, for whatever user, is started or shown.  It is the
\* only way to what belongs to others: a definition is never put behind a vid
\* again, so one that is not in req.linked has got there since.
ByVid ==
  \/ Current.do \in {"find definition", "read deployment"}
  \/ Current.do \in DefinitionReads /\ On = Found
  \/ Current.do = "start" /\ On[1] = Found
PutBehindVid(d) == d \in Definitions \ req.linked

\* Access control (camunda.go Check*Access): whatever happens between the
\* check and the call, a request starts, changes, stops or erases only
\* instances of its user, and deletes only what those left.  The message of an
\* admin is for the tenant it names; and a definition is started that another
\* request has put behind the vid since.
Touched(i) ==
  \/ At("set variable") /\ On = i
  \/ inst'[i] # inst[i]
  \/ (i \in io) # (i \in io')
  \/ (i \in incidents) # (i \in incidents')
TenantsOf(i) == {Tenant[d] : d \in {inst[i].def, inst'[i].def} \ {None}}

OnlyOwn ==
  [][Pending /\ req' # req =>
       \A i \in Instances : Touched(i) =>
         \/ TenantsOf(i) \subseteq {req.user}
         \/ At("message") /\ req.user \in Admins
         \/ ByVid /\ PutBehindVid(req.found)]_vars

\* Everything in an answer belongs to who asked, although the queries by
\* definition name no tenant (GetProcessInstanceHistoryByProcessDefinition*);
\* but for a deployment that another request has put behind the vid since.
AnswersShowOwn ==
  [][\A x \in req'.shown \ req.shown :
       \/ req'.user = IF x \in Instances THEN TenantOf(x) ELSE Tenant[x]
       \/ ByVid /\ PutBehindVid(x)]_vars

\* A deletion of running instances that is answered with 200 leaves none of
\* them running, whichever calls were lost (RemoveProcessInstance and its
\* three callers).
OkMeansStopped ==
  req.answer = "ok" => IdsOf(req.calls, "delete instance") \cap Running = {}

\* The bulk deletion stops at the first error: before it turns to an id, all
\* the ids before are gone (DeleteProcessMultipleInstances).
EarlierOnesAreGone ==
  At("delete io") /\ req.calls[1].do = "check instance" =>
    \A n \in 1..(req.pos - 1) : req.calls[n].do = "delete instance" =>
      req.calls[n].on \notin Running

\* What is erased from the history leaves no io variables and no incidents,
\* if it had ended before the request came (DeleteHistoricProcessInstance,
\* RemoveProcessInstanceHistory).
ErasedLeavesNothing ==
  [][DeleteHistory /\ On \in req.settled => On \notin io' \cup incidents']_vars

\* The instance which a request starts for a vid runs the definition that is
\* behind the vid at that moment, although vids are redeployed between the
\* calls of StartDeployment.
StartsBehindVid ==
  [][\A i \in Instances :
       Start(i) /\ On[1] = Found => inst'[i].def = behind[req.calls[1].on]]_vars

\* The answer 200 to the deletion of a history means that it is deleted.
OkMeansErased ==
  req.answer = "ok" => IdsOf(req.calls, "delete history") \cap Known = {}

----------------------------------------------------------------------------
(***************************************************************************)
(* The inductive invariant behind these properties.  Most of it says of    *)
(* the calls that are left: what one of them needs is the case already, or *)
(* a call before it will see to it, or end the request.                    *)
(***************************************************************************)

\* What an instance and a vid have been.
EngineInv ==
  /\ fresh \cap deployed = {}
  /\ \A v \in Vids : behind[v] \notin fresh
  /\ \A i \in Instances : i \in Known <=> inst[i].def # None

\* What was behind a vid when the request began, has been there ever since, as
\* long as it is deployed.
StillBehind(linked) ==
  \A d \in linked :
    d \notin fresh /\ (d \in deployed => \E v \in Vids : behind[v] = d)
LinkedInv == StillBehind(req.linked)

\* A definition of the user, or one that has been put behind a vid since those
\* of linked were.
OwnOrNew(u, linked, d) == Tenant[d] = u \/ d \notin linked

\* A deployed definition the request has found, is the one of its vid.
FoundInv ==
  /\ req.found # None =>
       req.found \notin fresh /\ OwnOrNew(req.user, req.linked, req.found)
  /\ \A n \in DOMAIN req.calls : req.calls[n].do = "start" /\ req.calls[n].on[1] = Found =>
       /\ req.calls[1].on \in Vids
       /\ \A m \in DOMAIN req.calls : req.calls[m].do = "find definition" =>
            req.calls[m].on = req.calls[1].on
       /\ req.found \in deployed => behind[req.calls[1].on] = req.found

Left == req.pos..Len(req.calls)

\* An error of the call ends the request.
Strict(a) == {a.fail, a.unknown} \cap {"ignore", "join"} = {}

Owned(u, i) == inst[i].st # "unborn" /\ (i \in Known => TenantOf(i) = u)

\* The call is about something of the user, or about a vid which has something
\* new behind it.
Granted(u, linked, c) ==
  /\ c.do \in Deletions \cup {"set variable"} => Owned(u, c.on)
  /\ c.do = "start" /\ c.on[1] # Found => Tenant[c.on[1]] = u
  /\ c.do \in DefinitionReads /\ c.on # Found => Tenant[c.on] = u
  /\ c.do \in {"find definition", "read deployment"} =>
       behind[c.on] = None \/ OwnOrNew(u, linked, behind[c.on])
  /\ c.do = "list" /\ c.on[1] \in Definitions => Tenant[c.on[1]] = u

\* When the one call succeeds, the other one is.
Grants(a, c) ==
  /\ Strict(a)
  /\ \/ /\ a.do \in {"check instance", "check history"}
        /\ c.do \in Deletions \cup {"set variable"}
        /\ a.on = c.on
     \/ a.do = "check definition" /\ c.do \in {"start", "list"} /\ a.on = c.on[1]
     \/ a.do = "check definition" /\ c.do \in DefinitionReads /\ a.on = c.on
     \/ a.do = "check deployment" /\ c.do \in {"find definition", "read deployment"} /\ a.on = c.on

\* What a call names by itself.
Fixed(u, c) ==
  /\ c.do = "list" /\ c.on[1] \in Users => c.on[1] = u
  /\ c.do = "list by key" => c.on[1] = u /\ "ok" \notin {c.fail, c.unknown}
  /\ c.do = "list deployments" => c.on = u
  /\ c.do = "message" => c.on = u \/ u \in Admins

AccessInv ==
  /\ Pending => \A n \in Left :
       \/ Granted(req.user, req.linked, req.calls[n])
       \/ \E m \in req.pos..(n - 1) : Grants(req.calls[m], req.calls[n])
  /\ Pending => \A n \in Left : Fixed(req.user, req.calls[n])
  /\ Pending => \A n \in Left :
       req.calls[n].do \in {"list deployments", "list by key"} => Len(req.calls) = 1

\* No instance to stop is passed over without an error that is kept.
StopInv ==
  /\ req.answer = "ok" => ~req.failed
  /\ \A n \in DOMAIN req.calls : req.calls[n].do = "delete instance" =>
       /\ req.calls[n].fail # "ignore"
       /\ \A m \in DOMAIN req.calls : "ok" \notin {req.calls[m].fail, req.calls[m].unknown}
       /\ \/ Pending /\ n \in Left
          \/ req.failed
          \/ inst[req.calls[n].on].st \in {"ended", "erased"}
  /\ req.calls # <<>> /\ req.calls[1].do = "check instance" =>
       /\ ~req.failed
       /\ \A n \in DOMAIN req.calls : "join" \notin {req.calls[n].fail, req.calls[n].unknown}

\* Before an instance is erased that had ended already, the calls that delete
\* what it left have been made.
ErasureInv ==
  /\ req.settled \subseteq In({"ended", "erased"})
  /\ Pending => \A n \in Left :
       req.calls[n].do = "delete history" /\ req.calls[n].on \in req.settled =>
         \A x \in {"delete io", "delete incidents"} :
           \/ req.calls[n].on \notin IF x = "delete io" THEN io ELSE incidents
           \/ \E m \in req.pos..(n - 1) :
                Strict(req.calls[m]) /\ req.calls[m].do = x /\ req.calls[m].on = req.calls[n].on

IndInv ==
  /\ TypeOK /\ EngineInv /\ LinkedInv /\ FoundInv
  /\ AccessInv /\ StopInv /\ ErasureInv
=============================================================================
