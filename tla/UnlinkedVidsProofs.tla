------------------------- MODULE UnlinkedVidsProofs -------------------------
(***************************************************************************)
(* Proofs about UnlinkedVids, for any number of request slots, vids,       *)
(* deployment ids, users and shards, with requests that overlap, whatever  *)
(* fails, and remove-pid running beside.                                   *)
(***************************************************************************)
EXTENDS UnlinkedVids, DeploymentsProofs

\* The relations of the table, when they are read, have deployments the
\* engine has created.
LEMMA RelationsAreBorn ==
  ASSUME IndInv, NEW x \in rows
  PROVE  engine[x.did] # "unborn" /\ engine[x.did] \in Shards \cup {"gone"}
BY DEF IndInv, Relations, TypeOK, VidTypeOK, EngineTypeOK, Row

\* The invariant, of a scan that has got to a point.
ScanControl == {"idle", "relations", "shards", "printed"}

ScanOf(point, shards, left, unlinked) ==
  /\ point \in ScanControl
  /\ shards \in SUBSET Shards /\ left \in SUBSET Shards /\ unlinked \in SUBSET Row
  /\ point = "relations" => left = shards
  /\ point = "printed" => left = {}
  /\ \A x \in unlinked : engine[x.did] \in left \cup {"gone"} \cup (Shards \ shards)

LEMMA PartsOf ==
  ASSUME ScanInv
  PROVE  /\ ScanOf(scan.pc, scan.shards, scan.left, scan.unlinked)
         /\ scan = [pc |-> scan.pc, shards |-> scan.shards, left |-> scan.left,
                    unlinked |-> scan.unlinked]
BY DEF ScanInv, Scanner, ScanControl, ScanOf, Unlisted

\* A step of the tool: the rest stays as it is.
LEMMA ScanStepKeeps ==
  ASSUME ScanInv, UNCHANGED vars, NEW point, NEW shards, NEW left, NEW unlinked,
         scan' = [pc |-> point, shards |-> shards, left |-> left, unlinked |-> unlinked],
         ScanOf(point, shards, left, unlinked)
  PROVE  ScanInv'
<1>1. /\ scan'.pc = point /\ scan'.shards = shards /\ scan'.left = left
      /\ scan'.unlinked = unlinked
  OBVIOUS
<1>2. scan' \in Scanner
  BY DEF ScanOf, Scanner, ScanControl
<1>3. IndInv' /\ UNCHANGED engine
  BY InvStep DEF ScanInv, vars, engineVars
<1>4. QED
  BY <1>1, <1>2, <1>3 DEF ScanOf, ScanInv, Unlisted

LEMMA ScanOfShards ==
  ASSUME ScanInv, ReadShards, UNCHANGED vars
  PROVE  ScanInv'
<1>1. PICK shards \in SUBSET Shards :
        scan' = [scan EXCEPT !.pc = "relations", !.shards = shards, !.left = shards]
  BY DEF ReadShards
<1>2. scan' = [pc |-> "relations", shards |-> shards, left |-> shards,
               unlinked |-> scan.unlinked]
  BY <1>1, PartsOf
<1>3. ScanOf("relations", shards, shards, scan.unlinked)
  BY PartsOf DEF ScanOf, ScanControl
<1>4. QED
  BY <1>2, <1>3, ScanStepKeeps

LEMMA ScanOfRelations ==
  ASSUME ScanInv, ReadVidRelations, UNCHANGED vars
  PROVE  ScanInv'
<1>1. PICK relations \in SUBSET rows :
        scan' = [scan EXCEPT !.pc = "shards", !.unlinked = relations]
  BY DEF ReadVidRelations
<1>2. scan' = [pc |-> "shards", shards |-> scan.shards, left |-> scan.left,
               unlinked |-> relations]
  BY <1>1, PartsOf
<1>3. scan.left = scan.shards /\ scan.shards \subseteq Shards
  BY PartsOf DEF ScanOf, ReadVidRelations
<1>4. relations \subseteq Row
  BY DEF ScanInv, IndInv, TypeOK, VidTypeOK
<1>5. \A x \in relations : engine[x.did] \in Shards \cup {"gone"}
  BY RelationsAreBorn DEF ScanInv
<1>6. ScanOf("shards", scan.shards, scan.left, relations)
  BY <1>3, <1>4, <1>5 DEF ScanOf, ScanControl
<1>7. QED
  BY <1>2, <1>6, ScanStepKeeps

LEMMA ScanOfIndex ==
  ASSUME ScanInv, IndexShard, UNCHANGED vars
  PROVE  ScanInv'
<1>1. PICK s \in scan.left : Indexed(s, Listed(s))
  BY DEF IndexShard
<1>2. PICK point, left, unlinked :
        /\ point = IF scan.left = {s} THEN "printed" ELSE scan.pc
        /\ left = scan.left \ {s}
        /\ unlinked = {x \in scan.unlinked : x.did \notin Listed(s)}
  OBVIOUS
<1>3. scan' = [pc |-> point, shards |-> scan.shards, left |-> left, unlinked |-> unlinked]
  BY <1>1, <1>2, PartsOf DEF Indexed
<1>4. ASSUME NEW x \in unlinked
      PROVE  engine[x.did] \in left \cup {"gone"} \cup (Shards \ scan.shards)
  <2>1. x \in scan.unlinked /\ x.did \in Dids /\ x.did \notin Listed(s)
    BY <1>2, <1>4, PartsOf DEF ScanOf, Row
  <2>2. engine[x.did] # s
    BY <2>1 DEF Listed
  <2>3. engine[x.did] \in scan.left \cup {"gone"} \cup (Shards \ scan.shards)
    BY <2>1, PartsOf DEF ScanOf
  <2>4. QED
    BY <1>2, <2>2, <2>3
<1>5. ScanOf(point, scan.shards, left, unlinked)
  <2>1. scan.pc = "shards" /\ point \in {"shards", "printed"}
    BY <1>2 DEF IndexShard
  <2>2. point = "printed" => left = {}
    BY <1>2, <2>1
  <2>3. QED
    BY <1>2, <1>4, <2>1, <2>2, PartsOf DEF ScanOf, ScanControl
<1>6. QED
  BY <1>3, <1>5, ScanStepKeeps

\* While the tool waits, deployments it has read of stay where they are, or
\* are gone.
LEMMA ScanBeside ==
  ASSUME ScanInv, [Next]_vars, UNCHANGED scan
  PROVE  ScanInv'
<1>1. IndInv' /\ Lives
  BY InvStep, LivesInStep DEF ScanInv
<1>2. ASSUME NEW x \in scan.unlinked
      PROVE  engine'[x.did] \in scan.left \cup {"gone"} \cup (Shards \ scan.shards)
  <2>1. /\ engine[x.did] \in scan.left \cup {"gone"} \cup (Shards \ scan.shards)
        /\ x.did \in Dids /\ scan.left \subseteq Shards
    BY PartsOf DEF ScanOf, Row
  <2>2. engine'[x.did] \in {engine[x.did], "gone"}
    BY <1>1, <2>1, StatesAreNotShards DEF Lives
  <2>3. QED
    BY <2>1, <2>2
<1>3. QED
  BY <1>1, <1>2 DEF ScanInv, Unlisted

\* The list of shards, the relations and the shards that answer later fit
\* together: what was not found so far is on a shard that is still to be asked,
\* or gone, or on a shard that is not in the list.
THEOREM ScanInvariance == ScanSpec => []ScanInv
<1>1. ScanInit => ScanInv
  <2> SUFFICES ASSUME ScanInit PROVE ScanInv
    OBVIOUS
  <2>1. IndInv
    BY InvInit DEF ScanInit
  <2>2. scan \in Scanner /\ scan.unlinked = {} /\ scan.pc = "idle"
    BY DEF ScanInit, NoScan, Scanner
  <2>3. QED
    BY <2>1, <2>2 DEF ScanInv
<1>2. ScanInv /\ [ScanNext]_scanVars => ScanInv'
  <2> SUFFICES ASSUME ScanInv, [ScanNext]_scanVars PROVE ScanInv'
    OBVIOUS
  <2>1. CASE [Next]_vars /\ UNCHANGED scan
    BY <2>1, ScanBeside
  <2>2. CASE Forget /\ UNCHANGED vars
    <3>1. scan' = [pc |-> "idle", shards |-> {}, left |-> {}, unlinked |-> {}]
      BY <2>2 DEF Forget, NoScan
    <3>2. ScanOf("idle", {}, {}, {})
      BY DEF ScanOf, ScanControl
    <3>3. QED
      BY <2>2, <3>1, <3>2, ScanStepKeeps
  <2>3. QED
    BY <2>1, <2>2, ScanOfShards, ScanOfRelations, ScanOfIndex DEF ScanNext, ScanStep, scanVars
<1>3. QED
  BY <1>1, <1>2, PTL DEF ScanSpec

\* list-unlinked-vid never prints a vid whose deployment runs on a shard it has
\* asked, or may still be created, although it looks at no age, reads the list
\* of shards, the relations and the shards at different moments, and does not
\* notice when a result set breaks off.
THEOREM UnlinkedVidsAreSafe == ScanSpec => []UnlinkedAreGone
<1>1. ScanInv => UnlinkedAreGone
  BY DEF ScanInv, UnlinkedAreGone
<1>2. QED
  BY <1>1, ScanInvariance, PTL

\* The tool only reads: with it running beside, the wrapper and the cleanup
\* do what they do without it, and what is proved of them holds.
THEOREM ScanOnlyReads == ScanSpec => Spec
<1>1. ScanInit => Init
  BY DEF ScanInit
<1>2. [ScanNext]_scanVars => [Next]_vars
  BY DEF ScanNext, scanVars
<1>3. QED
  BY <1>1, <1>2, PTL DEF ScanSpec, Spec
=============================================================================
