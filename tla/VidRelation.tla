---------------------------- MODULE VidRelation ----------------------------
(***************************************************************************)
(* The table of lib/vid: which virtual id (vid, chosen by the caller of    *)
(* the wrapper) stands for which deployment id (did, chosen by Camunda).   *)
(* The table has a serial primary key and no uniqueness constraint on      *)
(* either column, so nothing in the database keeps a vid from having two   *)
(* rows.  A request removes rows in a transaction that stays open while    *)
(* the process is removed from the engine: until it ends, the rows it has  *)
(* deleted are locked, but every other connection still reads them         *)
(* (Postgres, READ COMMITTED).                                             *)
(***************************************************************************)
EXTENDS Domain

VARIABLES
  rows,       \* committed rows of VidRelation
  locked      \* locked[r]: rows deleted by the open transaction of request r

vidVars == <<rows, locked>>

Row == [did : Dids, vid : Vids]

VidTypeOK ==
  /\ rows \in SUBSET Row
  /\ locked \in [Requests -> SUBSET Row]

VidInit ==
  /\ rows = {}
  /\ locked = [r \in Requests |-> {}]

----------------------------------------------------------------------------
\* Queries.  They see committed rows only, and no SELECT has an ORDER BY.

RowsOfDid(d) == {x \in rows : x.did = d}
RowsOfVid(v) == {x \in rows : x.vid = v}

VidExists(v) == RowsOfVid(v) # {}

\* Faulty variants of GetDeploymentId: the WHERE clause is missing; an empty
\* result is not recognised.
AnyDeploymentId(v) == {x.did : x \in rows}
DeploymentIdOrEmpty(v) ==
  IF VidExists(v) THEN {x.did : x \in RowsOfVid(v)} ELSE {None}

\* The code takes the first element of an unordered result: any of these.
GetDeploymentId(v) == {x.did : x \in RowsOfVid(v)}

\* The keys of byDeploymentId.
RelatedDids == {x.did : x \in rows}

----------------------------------------------------------------------------
\* Updates.

SaveVidRelation(v, d) ==
  /\ rows' = rows \cup {[did |-> d, vid |-> v]}
  /\ UNCHANGED locked

LockedByAnother(r, x) == \E q \in Requests \ {r} : x \in locked[q]

\* A DELETE statement of the transaction of r reaches row x.  It waits for a
\* transaction that has deleted x, and skips x if that transaction committed.
DeleteRow(r, x) ==
  /\ ~LockedByAnother(r, x)
  /\ locked' = [locked EXCEPT ![r] = @ \cup ({x} \cap rows)]
  /\ UNCHANGED rows

Commit(r) ==
  /\ rows' = rows \ locked[r]
  /\ locked' = [locked EXCEPT ![r] = {}]

\* A faulty variant of Rollback: the transaction is left open.
LeakTransaction(r) == UNCHANGED vidVars

Rollback(r) ==
  /\ locked' = [locked EXCEPT ![r] = {}]
  /\ UNCHANGED rows

\* The connections of a dead wrapper are closed: every open transaction ends.
RollbackAll ==
  /\ locked' = [r \in Requests |-> {}]
  /\ UNCHANGED rows
=============================================================================
