------------------------------- MODULE Cleanup -------------------------------
(***************************************************************************)
(* lib/cleanup: the command line tool that looks for deployments without a *)
(* relation (list-unlinked-pid) and removes the ones the operator passes   *)
(* back to it (remove-pid).  It reads the relations and then the           *)
(* deployments of one shard after the other, while the wrapper goes on     *)
(* serving requests; only the age of a deployment tells an orphan from one *)
(* whose relation is still to be saved.                                    *)
(***************************************************************************)
EXTENDS VidRelation, Engine

CONSTANT Cleaning   \* TRUE if the operator may run the tool

ASSUME CleaningAssumption == Cleaning \in BOOLEAN

VARIABLE tool   \* the state of the tool and of the operator's list

Tool ==
  [pc : {"idle", "scan", "listed"},
   known : SUBSET Dids,             \* byDeploymentId, as read
   left : SUBSET Shards,            \* shards not yet listed
   pids : SUBSET (Shards \X Dids)]  \* unlinkedPid

NoTask == [pc |-> "idle", known |-> {}, left |-> {}, pids |-> {}]

CleanupTypeOK == tool \in Tool
CleanupInit == tool = NoTask

\* FindUnlinkedPid reads GetShards and then GetRelations.
ReadRelations ==
  /\ Cleaning
  /\ tool.pc = "idle"
  /\ \E known \in SUBSET RelatedDids, left \in SUBSET Shards \ {{}} :
       /\ (known = RelatedDids /\ left = Shards) \/ May("read")
       /\ tool' = [tool EXCEPT !.pc = "scan", !.known = known, !.left = left]
  /\ UNCHANGED <<vidVars, engineVars>>

\* Faulty variants of Unlinked: without the age, without the relations.
UnlinkedYoung(s) == {d \in Dids : engine[d] = s /\ d \notin tool.known}
UnlinkedLinked(s) == {d \in Dids : engine[d] = s /\ d \in aged}

Unlinked(s) == {d \in Dids : engine[d] = s /\ d \notin tool.known /\ d \in aged}

ListShard ==
  /\ tool.pc = "scan"
  /\ \E s \in tool.left :
       tool' = [tool EXCEPT !.left = @ \ {s}, !.pids = @ \cup ({s} \X Unlinked(s)),
                            !.pc = IF tool.left = {s} THEN "listed" ELSE @]
  /\ UNCHANGED <<vidVars, engineVars>>

\* RemovePid sends the DELETE for the next pair of the list, any time later.
RemovePid ==
  /\ tool.pc = "listed"
  /\ \E p \in tool.pids :
       \/ /\ engine' = Erased(p[1], p[2])
          /\ tool' = IF engine[p[2]] = p[1] THEN [tool EXCEPT !.pids = @ \ {p}] ELSE NoTask
          /\ UNCHANGED lateDeletes
       \/ /\ engine[p[2]] = p[1]       \* the call times out
          /\ lateDeletes' = lateDeletes \cup {p}
          /\ tool' = NoTask
          /\ UNCHANGED engine
  /\ UNCHANGED <<vidVars, aged, shardOf>>

\* The list is worked off or dropped, or a call failed.  (RemovePid also
\* stops at the first pid the engine answers with 404.)
Stop ==
  /\ tool.pc # "idle"
  /\ tool' = NoTask
  /\ UNCHANGED <<vidVars, engineVars>>

ToolStep == ReadRelations \/ ListShard \/ RemovePid \/ Stop
=============================================================================
