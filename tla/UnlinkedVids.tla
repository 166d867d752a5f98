---------------------------- MODULE UnlinkedVids ----------------------------
(***************************************************************************)
(* FindUnlinkedVid of lib/cleanup (list-unlinked-vid): beside the wrapper  *)
(* and the rest of the cleanup, the tool reads the list of shards, then    *)
(* the relations, then the deployments of one shard after the other, and   *)
(* prints the vids whose deployment no shard of the list has.  It looks at *)
(* no age and writes nothing.                                              *)
(***************************************************************************)
EXTENDS Deployments

VARIABLE scan

\* The tool collects the deployments it finds (deplIndex) and looks for those
\* of the relations when it has them all; here what is found is struck off the
\* relations at once.
Scanner ==
  [pc : {"idle", "relations", "shards", "printed"},
   shards : SUBSET Shards,    \* shards, as read
   left : SUBSET Shards,      \* shards not yet listed
   unlinked : SUBSET Row]     \* relations whose deployment has not been found

NoScan == [pc |-> "idle", shards |-> {}, left |-> {}, unlinked |-> {}]

\* The table of shards is another one: a shard with deployments can have been
\* taken from it (RemoveShard), or be added to it and used when it has been
\* read, and an error while it is read is not noticed.  So any of the shards
\* may be in the list; none of them is an error.
ReadShards ==
  /\ scan.pc = "idle"
  /\ \E shards \in SUBSET Shards \ {{}} :
       scan' = [scan EXCEPT !.pc = "relations", !.shards = shards, !.left = shards]

ReadVidRelations ==
  /\ scan.pc = "relations"
  /\ \E relations \in SUBSET rows :
       /\ relations = rows \/ May("read")
       /\ scan' = [scan EXCEPT !.pc = "shards", !.unlinked = relations]

Listed(s) == {d \in Dids : engine[d] = s}

\* The deployments have been found in s: the next shard is asked, or the vids
\* that are left are printed.
Indexed(s, found) ==
  scan' = [scan EXCEPT !.pc = IF scan.left = {s} THEN "printed" ELSE @,
                       !.left = @ \ {s},
                       !.unlinked = {x \in @ : x.did \notin found}]

\* A faulty variant of IndexShard: a shard that does not answer is skipped.
IndexShardOrSkip ==
  /\ scan.pc = "shards"
  /\ \E s \in scan.left : Indexed(s, {}) \/ Indexed(s, Listed(s))

IndexShard ==
  /\ scan.pc = "shards"
  /\ \E s \in scan.left : Indexed(s, Listed(s))

\* The operator is done with the list, or a call failed.
Forget == scan.pc # "idle" /\ scan' = NoScan

ScanStep == ReadShards \/ ReadVidRelations \/ IndexShard \/ Forget

scanVars == <<vars, scan>>

ScanInit == Init /\ scan = NoScan
ScanNext == (Next /\ UNCHANGED scan) \/ (ScanStep /\ UNCHANGED vars)
ScanSpec == ScanInit /\ [][ScanNext]_scanVars

----------------------------------------------------------------------------
\* The deployment of a relation that is printed is gone for good, although
\* deployments are created, linked and removed while the tool reads; or it is
\* on a shard that was not in the list: nothing else makes the vid of a running
\* deployment look unlinked.
Unlisted == Shards \ scan.shards
UnlinkedAreGone ==
  scan.pc = "printed" => \A x \in scan.unlinked : engine[x.did] \in {"gone"} \cup Unlisted

\* The inductive invariant behind it: a deployment that has not been found yet
\* is on a shard that is still to be listed, or gone, or on none of the list.
ScanInv ==
  /\ IndInv
  /\ scan \in Scanner
  /\ scan.pc = "relations" => scan.left = scan.shards
  /\ scan.pc = "printed" => scan.left = {}
  /\ \A x \in scan.unlinked : engine[x.did] \in scan.left \cup {"gone"} \cup Unlisted
=============================================================================
