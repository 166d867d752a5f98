-------------------------- MODULE ShardTablesProofs --------------------------
(***************************************************************************)
(* Proofs about ShardTables, for any number of users, shards and calls,    *)
(* with every call of the package running beside every other one.          *)
(***************************************************************************)
EXTENDS ShardTables, FiniteSetTheorems, TLAPS

(***************************************************************************)
(* Type correctness.                                                       *)
(***************************************************************************)

LEMMA TypeInit == Init => TypeOK
BY DEF Init, TypeOK, NoCall, Call, Control

\* A call that arrives has the arguments of its function.
LEMMA Arrivals ==
  ASSUME TypeOK, NEW c \in Calls, Start(c)
  PROVE  \E op \in Operations, u \in Users \cup {None}, s \in Shards \cup {None} :
           /\ Arrive(c, op, u, s)
           /\ op \in {"ensure", "set", "remove"}
           /\ op \in {"ensure", "set"} => u \in Users
           /\ op \in {"set", "remove"} => s \in Shards
<1>1. CASE \E u \in Users : StartEnsure(c, u)
  BY <1>1 DEF StartEnsure
<1>2. CASE \E u \in Users, s \in Shards : StartSet(c, u, s)
  BY <1>2 DEF StartSet
<1>3. CASE \E s \in Shards : StartRemove(c, s)
  BY <1>3 DEF StartRemove
<1>4. QED
  BY <1>1, <1>2, <1>3 DEF Start

\* Where a call is and what it has been called with go together.
LEMMA PlaceStep ==
  ASSUME TypeOK, CallsAreInPlace, NEW c \in Calls, Start(c) \/ Run(c) \/ Timeout(c)
  PROVE  CallsAreInPlace' /\ call' \in [Calls -> Call] /\ pc' \in [Calls -> Control]
<1> USE DEF TypeOK, CallsAreInPlace, Is, At, User, Target, Goto, Control, MayTimeOut, tables
<1>1. CASE Start(c)
  <2>1. PICK op \in Operations, u \in Users \cup {None}, s \in Shards \cup {None} :
          /\ Arrive(c, op, u, s)
          /\ op \in {"ensure", "set", "remove"}
          /\ op \in {"ensure", "set"} => u \in Users
          /\ op \in {"set", "remove"} => s \in Shards
    BY <1>1, Arrivals
  <2>2. [op |-> op, user |-> u, shard |-> s] \in Call
    BY DEF Call
  <2>3. call' \in [Calls -> Call] /\ pc' \in [Calls -> Control]
    BY <2>1, <2>2 DEF Arrive
  <2>4. QED
    BY <2>1, <2>3 DEF Arrive
<1>2. CASE Return(c)
  <2>1. NoCall \in Call
    BY DEF NoCall, Call
  <2>2. QED
    BY <1>2, <2>1 DEF Return, NoCall
<1>3. CASE Timeout(c)
  BY <1>3 DEF Timeout, Fail
<1>4. CASE LookIntoCache(c) \/ ReadMapping(c) \/ FillCache(c)
  BY <1>4 DEF LookIntoCache, ReadMapping, FillCache
<1>5. CASE Select(c)
  BY <1>5 DEF Select, Fail
<1>6. CASE Begin(c) \/ Unmap(c) \/ EndOfUnmap(c)
  BY <1>6 DEF Begin, Unmap, EndOfUnmap
<1>7. CASE Insert(c) \/ Drop(c)
  BY <1>7 DEF Insert, Drop, Fail
<1>8. CASE Commit(c)
  BY <1>8 DEF Commit
<1>9. QED
  BY <1>1, <1>2, <1>3, <1>4, <1>5, <1>6, <1>7, <1>8 DEF Run

LEMMA TypeStep ==
  ASSUME TypeOK, CallsAreInPlace, NEW c \in Calls, Start(c) \/ Run(c) \/ Timeout(c)
  PROVE  TypeOK'
<1>1. call' \in [Calls -> Call] /\ pc' \in [Calls -> Control]
  BY PlaceStep
<1> USE DEF TypeOK, CallsAreInPlace, Is, At, User, Target, tables
<1>2. CASE Start(c)
  BY <1>1, <1>2, Arrivals DEF Arrive
<1>3. CASE Return(c) \/ Timeout(c)
  BY <1>1, <1>3 DEF Return, Timeout, Fail
<1>4. CASE LookIntoCache(c) \/ ReadMapping(c) \/ FillCache(c)
  BY <1>1, <1>4 DEF LookIntoCache, ReadMapping, FillCache
<1>5. CASE Select(c)
  BY <1>1, <1>5 DEF Select, Fail, FewestUsers
<1>6. CASE Begin(c) \/ Unmap(c) \/ EndOfUnmap(c)
  BY <1>1, <1>6 DEF Begin, Unmap, EndOfUnmap
<1>7. CASE Insert(c) \/ Drop(c)
  BY <1>1, <1>7 DEF Insert, Drop, Fail
<1>8. CASE Commit(c)
  BY <1>1, <1>8 DEF Commit, MappingAfter, Inserted
<1>9. QED
  BY <1>2, <1>3, <1>4, <1>5, <1>6, <1>7, <1>8 DEF Run

(***************************************************************************)
(* The invariant of the open transactions.                                 *)
(***************************************************************************)

\* A step of a call before or after its transaction changes rows.
Quiet(c) ==
  /\ UNCHANGED <<registered, mapping, todo, unmapped>>
  /\ \A d \in Calls \ {c} : pc'[d] = pc[d] /\ call'[d] = call[d] /\ picked'[d] = picked[d]
  /\ pc[c] # "commit" /\ pc'[c] # "commit" /\ todo[c] = {}
  /\ unmapped[c] = {} \/ (call'[c] = call[c] /\ pc'[c] \in {"insert", "drop"})

LEMMA QuietStep ==
  ASSUME IndInv, TypeOK', CallsAreInPlace', NEW c \in Calls, Quiet(c)
  PROVE  IndInv'
<1> USE DEF Quiet, IndInv, tables, At, Is, User, Target
<1>1. MappedToRegistered'
  BY DEF MappedToRegistered
<1>2. RowsAreOwn'
  BY DEF RowsAreOwn
<1>3. InsertIsSafe'
  BY DEF InsertIsSafe, KeyExists, Inserted, Dropped
<1>4. DropIsSafe'
  BY DEF DropIsSafe, Inserted, Dropped
<1>5. QED
  BY <1>1, <1>2, <1>3, <1>4

\* A transaction that ends without effect releases what it held.
LEMMA FailStep ==
  ASSUME IndInv, TypeOK', CallsAreInPlace', NEW c \in Calls, Fail(c)
  PROVE  IndInv'
<1> USE DEF IndInv, tables, At, Is, User, Target, Fail, Goto, TypeOK
<1>1. MappedToRegistered'
  BY DEF MappedToRegistered
<1>2. RowsAreOwn'
  BY DEF RowsAreOwn
<1>3. InsertIsSafe'
  BY DEF InsertIsSafe, KeyExists, Inserted, Dropped
<1>4. DropIsSafe'
  BY DEF DropIsSafe, Inserted, Dropped
<1>5. QED
  BY <1>1, <1>2, <1>3, <1>4

\* A DELETE statement reaches rows that exist and nobody else holds; so it
\* cannot touch the key of an inserted row.
LEMMA DeleteStep ==
  ASSUME IndInv, TypeOK', CallsAreInPlace', NEW c \in Calls, Begin(c) \/ Unmap(c)
  PROVE  IndInv'
<1> USE DEF IndInv, tables, At, Is, User, Target, Goto, TypeOK, CallsAreInPlace
<1>1. CASE Begin(c)
  <2>1. MappedToRegistered'
    BY <1>1 DEF Begin, MappedToRegistered
  <2>2. RowsAreOwn'
    BY <1>1, NoShardAssumption DEF Begin, RowsAreOwn
  <2>3. InsertIsSafe'
    BY <1>1 DEF Begin, InsertIsSafe, KeyExists, Inserted, Dropped
  <2>4. DropIsSafe'
    BY <1>1 DEF Begin, DropIsSafe, Inserted, Dropped
  <2>5. QED
    BY <1>1, <2>1, <2>2, <2>3, <2>4
<1>2. CASE Unmap(c)
  <2>1. PICK u \in todo[c] :
          /\ \A d \in Calls \ {c} : u \notin unmapped[d]
          /\ todo' = [todo EXCEPT ![c] = @ \ {u}]
          /\ unmapped' = [unmapped EXCEPT ![c] = @ \cup {u}]
    BY <1>2 DEF Unmap
  <2>2. MappedToRegistered'
    BY <1>2 DEF Unmap, MappedToRegistered
  <2>3. RowsAreOwn'
    BY <1>2, <2>1 DEF Unmap, RowsAreOwn
  <2>4. InsertIsSafe'
    <3>1. \A e \in Calls : Inserted(e)' => Inserted(e) /\ e # c
      BY <1>2 DEF Unmap, Inserted
    <3>2. \A e \in Calls : Inserted(e) => User(e) # u
      BY <1>2, <2>1 DEF Unmap, InsertIsSafe, Inserted, KeyExists, RowsAreOwn
    <3>3. QED
      BY <1>2, <2>1, <3>1, <3>2 DEF Unmap, InsertIsSafe, KeyExists, Inserted, Dropped
  <2>5. DropIsSafe'
    BY <1>2, <2>1 DEF Unmap, DropIsSafe, Inserted, Dropped
  <2>6. QED
    BY <2>2, <2>3, <2>4, <2>5
<1>3. QED
  BY <1>1, <1>2

\* The INSERT that finds its key free and its shard, and nobody it has to
\* wait for.
LEMMA InsertStep ==
  ASSUME IndInv, TypeOK', CallsAreInPlace', NEW c \in Calls, Insert(c), Goto(c, "commit"),
         ~KeyExists(c), picked[c] \in registered,
         UNCHANGED <<tables, cached, call, picked, todo, unmapped>>
  PROVE  IndInv'
<1> USE DEF IndInv, tables, At, Is, User, Target, Goto, TypeOK, CallsAreInPlace
<1>1. Inserted(c)' /\ ~InsertWaits(c) /\ \A d \in Calls \ {c} : pc'[d] = pc[d]
  BY DEF Insert, Inserted
<1>2. MappedToRegistered'
  BY DEF MappedToRegistered
<1>3. RowsAreOwn'
  BY DEF RowsAreOwn, Insert
<1>4. InsertIsSafe'
  BY <1>1 DEF InsertIsSafe, KeyExists, Inserted, Dropped, InsertWaits
<1>5. DropIsSafe'
  BY <1>1 DEF DropIsSafe, Inserted, Dropped
<1>6. QED
  BY <1>2, <1>3, <1>4, <1>5

\* The DELETE of a shard without users.
LEMMA DropStep ==
  ASSUME IndInv, TypeOK', CallsAreInPlace', NEW c \in Calls, Drop(c), Goto(c, "commit"),
         \A u \in Users \ unmapped[c] : mapping[u] # Target(c),
         picked' = [picked EXCEPT ![c] = IF Target(c) \in registered THEN Target(c) ELSE None],
         UNCHANGED <<tables, cached, call, todo, unmapped>>
  PROVE  IndInv'
<1> USE DEF IndInv, tables, At, Is, User, Target, Goto, TypeOK, CallsAreInPlace
<1>1. /\ ~Inserted(c)' /\ ~DropWaits(c) /\ Is(c, "remove") /\ Target(c) \in Shards
      /\ \A d \in Calls \ {c} : pc'[d] = pc[d] /\ picked'[d] = picked[d]
  BY DEF Drop, Inserted
<1>2. MappedToRegistered'
  BY DEF MappedToRegistered
<1>3. RowsAreOwn'
  BY DEF RowsAreOwn, Drop
<1>4. InsertIsSafe'
  BY <1>1, NoShardAssumption DEF InsertIsSafe, KeyExists, Inserted, Dropped, DropWaits
<1>5. DropIsSafe'
  <2>1. Target(c) \notin registered => unmapped[c] = {}
    BY <1>1, NoShardAssumption DEF RowsAreOwn, MappedToRegistered
  <2>2. QED
    BY <1>1, <2>1, NoShardAssumption DEF DropIsSafe, Inserted, Dropped, DropWaits
<1>6. QED
  BY <1>2, <1>3, <1>4, <1>5

\* COMMIT: the rows of the call become what its statements made of them.
LEMMA CommitStep ==
  ASSUME IndInv, TypeOK', CallsAreInPlace', NEW c \in Calls, Commit(c)
  PROVE  IndInv'
<1> USE DEF IndInv, tables, At, Is, User, Target, Goto, TypeOK, CallsAreInPlace
<1>1. /\ mapping' = MappingAfter(c)
      /\ registered' = IF Dropped(c) THEN registered \ {picked[c]} ELSE registered
      /\ \A d \in Calls : todo'[d] = todo[d] \ unmapped[c]
      /\ \A d \in Calls \ {c} : unmapped'[d] = unmapped[d] /\ pc'[d] = pc[d]
      /\ unmapped'[c] = {} /\ pc'[c] \in {"ok", "error"}
      /\ call' = call /\ picked' = picked
  BY DEF Commit
<1>2. \A u \in Users : mapping'[u] = IF Inserted(c) /\ u = User(c) THEN picked[c]
                                     ELSE IF u \in unmapped[c] THEN None ELSE mapping[u]
  BY <1>1 DEF MappingAfter
<1>3. MappedToRegistered'
  BY <1>1, <1>2 DEF MappedToRegistered, InsertIsSafe, DropIsSafe, Inserted, Dropped
<1>4. RowsAreOwn'
  <2>1. todo[c] = {}
    BY DEF RowsAreOwn, Commit
  <2>2. ASSUME NEW d \in Calls, NEW u \in todo'[d] \cup unmapped'[d]
        PROVE  mapping'[u] = mapping[u] /\ u \in todo[d] \cup unmapped[d]
    <3>1. d # c /\ u \in Users /\ u \in todo[d] \cup unmapped[d] /\ u \notin unmapped[c]
      BY <1>1, <2>1, <2>2 DEF RowsAreOwn
    <3>2. mapping[u] # None
      BY <3>1 DEF RowsAreOwn
    <3>3. ~(Inserted(c) /\ u = User(c))
      BY <3>1, <3>2 DEF InsertIsSafe, KeyExists
    <3>4. QED
      BY <1>2, <3>1, <3>3
  <2>3. ASSUME NEW d \in Calls, NEW u \in todo'[d] \cup unmapped'[d]
        PROVE  /\ mapping'[u] # None
               /\ call'[d].op = "set" => u = call'[d].user
               /\ call'[d].op = "remove" => mapping'[u] = call'[d].shard
    BY <1>1, <2>2, <2>3 DEF RowsAreOwn
  <2>4. \A d \in Calls : /\ todo'[d] # {} => pc'[d] = "unmap"
                         /\ unmapped'[d] # {} => pc'[d] \in {"unmap", "insert", "drop", "commit"}
                         /\ call'[d].op = "ensure" => unmapped'[d] = {}
                         /\ \A e \in Calls \ {d} : unmapped'[d] \cap unmapped'[e] = {}
    BY <1>1, <2>1 DEF RowsAreOwn
  <2>5. QED
    BY <2>3, <2>4 DEF RowsAreOwn
<1>5. InsertIsSafe'
  BY <1>1, <1>2 DEF InsertIsSafe, KeyExists, Inserted, Dropped
<1>6. DropIsSafe'
  BY <1>1, <1>2 DEF DropIsSafe, InsertIsSafe, Inserted, Dropped
<1>7. QED
  BY <1>3, <1>4, <1>5, <1>6

LEMMA CallStep ==
  ASSUME IndInv, NEW c \in Calls, Start(c) \/ Run(c) \/ Timeout(c)
  PROVE  IndInv'
<1>1. TypeOK' /\ CallsAreInPlace'
  BY TypeStep, PlaceStep DEF IndInv
<1>2. CASE Start(c)
  <2>1. PICK op \in Operations, u \in Users \cup {None}, s \in Shards \cup {None} :
          Arrive(c, op, u, s)
    BY <1>2, Arrivals DEF IndInv
  <2>2. Quiet(c)
    BY <2>1 DEF Quiet, Arrive, IndInv, TypeOK, RowsAreOwn, At, Goto, tables
  <2>3. QED
    BY <1>1, <2>2, QuietStep
<1>3. CASE Return(c)
  <2>1. Quiet(c)
    BY <1>3 DEF Quiet, Return, IndInv, TypeOK, RowsAreOwn, At, Goto, tables
  <2>2. QED
    BY <1>1, <2>1, QuietStep
<1>4. CASE LookIntoCache(c) \/ ReadMapping(c) \/ FillCache(c)
  <2>1. Quiet(c)
    BY <1>4 DEF Quiet, LookIntoCache, ReadMapping, FillCache, IndInv, TypeOK, RowsAreOwn, At,
       Goto, tables
  <2>2. QED
    BY <1>1, <2>1, QuietStep
<1>5. CASE Select(c)
  <2>1. Fail(c) \/ Quiet(c)
    BY <1>5 DEF Quiet, Select, IndInv, TypeOK, RowsAreOwn, At, Goto, tables
  <2>2. QED
    BY <1>1, <2>1, QuietStep, FailStep
<1>6. CASE EndOfUnmap(c)
  <2>1. Quiet(c)
    BY <1>6 DEF Quiet, EndOfUnmap, IndInv, TypeOK, At, Goto, tables
  <2>2. QED
    BY <1>1, <2>1, QuietStep
<1>7. CASE Begin(c) \/ Unmap(c)
  BY <1>1, <1>7, DeleteStep
<1>8. CASE Insert(c)
  BY <1>1, <1>8, InsertStep, FailStep DEF Insert, tables
<1>9. CASE Drop(c)
  BY <1>1, <1>9, DropStep, FailStep DEF Drop, tables
<1>10. CASE Commit(c)
  BY <1>1, <1>10, CommitStep
<1>11. CASE Timeout(c)
  BY <1>1, <1>11, FailStep DEF Timeout
<1>12. QED
  BY <1>2, <1>3, <1>4, <1>5, <1>6, <1>7, <1>8, <1>9, <1>10, <1>11 DEF Run

LEMMA InvariantStep == IndInv /\ [Next]_vars => IndInv'
<1> SUFFICES ASSUME IndInv, [Next]_vars PROVE IndInv'
  OBVIOUS
<1> USE DEF IndInv, TypeOK, MappedToRegistered, CallsAreInPlace, RowsAreOwn, InsertIsSafe,
            DropIsSafe, Inserted, Dropped, KeyExists, At, Is, User, Target
<1>1. CASE \E c \in Calls : Start(c) \/ Run(c) \/ Timeout(c)
  BY <1>1, CallStep
<1>2. CASE \E s \in Shards : AddShard(s)
  BY <1>2 DEF AddShard
<1>3. CASE \E u \in Users : Expire(u)
  BY <1>3 DEF Expire, tables
<1>4. CASE UNCHANGED vars
  BY <1>4 DEF vars, tables
<1>5. QED
  BY <1>1, <1>2, <1>3, <1>4 DEF Next

LEMMA InvariantInit == Init => IndInv
BY TypeInit DEF Init, IndInv, MappedToRegistered, CallsAreInPlace, RowsAreOwn, InsertIsSafe,
   DropIsSafe, Inserted, Dropped, At, Is, NoCall

\* The invariant of the transactions holds in every reachable state.
THEOREM Invariance == Spec => []IndInv
BY InvariantInit, InvariantStep, PTL DEF Spec

\* Every variable keeps its type.
THEOREM TypeCorrect == Spec => []TypeOK
<1>1. IndInv => TypeOK
  BY DEF IndInv
<1>2. QED
  BY <1>1, Invariance, PTL

\* No user is ever mapped to a shard that is not registered, whatever
\* requests and tools run at the same time.
THEOREM UsersHaveRegisteredShards == Spec => []MappedToRegistered
<1>1. IndInv => MappedToRegistered
  BY DEF IndInv
<1>2. QED
  BY <1>1, Invariance, PTL

\* No step of a call does what ShardMap does not allow: a COMMIT registers,
\* assigns, moves or retires, every other step leaves the tables alone.
LEMMA CallRefines ==
  ASSUME IndInv, IndInv', NEW c \in Calls, Start(c) \/ Run(c) \/ Timeout(c)
  PROVE  Map!Next \/ UNCHANGED tables
<1> USE DEF At, Is, User, Target
<1>1. CASE ~Commit(c)
  BY <1>1 DEF Start, StartEnsure, StartSet, StartRemove, Arrive, Run, Timeout, Return, LookIntoCache,
     ReadMapping, FillCache, Select, Begin, Unmap, EndOfUnmap, Insert, Drop, Fail, tables
<1>2. CASE Commit(c)
  <2>1. /\ TypeOK /\ mapping' = MappingAfter(c)
        /\ registered' = IF Dropped(c) THEN registered \ {picked[c]} ELSE registered
        /\ At(c, "commit") /\ call[c].op \in {"ensure", "set", "remove"}
    BY <1>2 DEF Commit, IndInv, CallsAreInPlace
  <2>2. CASE Inserted(c)
    <3>1. User(c) \in Users /\ picked[c] \in registered /\ picked[c] \in Shards
      BY <2>1, <2>2 DEF IndInv, TypeOK, CallsAreInPlace, InsertIsSafe, Inserted
    <3>2. unmapped[c] \subseteq {User(c)}
      BY <2>1, <2>2 DEF IndInv, RowsAreOwn, Inserted
    <3>3. mapping' = [mapping EXCEPT ![User(c)] = picked[c]]
      BY <2>1, <2>2, <3>1, <3>2 DEF TypeOK, MappingAfter
    <3>4. registered' = registered
      BY <2>1, <2>2 DEF Inserted, Dropped
    <3>5. Map!Assign(User(c), picked[c]) \/ Map!Move(User(c), picked[c])
      BY <3>1, <3>3, <3>4 DEF Map!Assign, Map!Move
    <3>6. QED
      BY <3>1, <3>5 DEF Map!Next
  <2>3. CASE Dropped(c)
    <3>1. picked[c] = Target(c) /\ picked[c] \in Shards /\ ~Inserted(c)
      BY <2>1, <2>3 DEF IndInv, DropIsSafe, CallsAreInPlace, Dropped, Inserted
    <3>2. \A u \in Users : mapping[u] = picked[c] <=> u \in unmapped[c]
      BY <2>1, <2>3, <3>1 DEF IndInv, TypeOK, DropIsSafe, RowsAreOwn, Dropped
    <3>3. Map!Retire(picked[c])
      BY <2>1, <2>3, <3>1, <3>2 DEF Map!Retire, MappingAfter
    <3>4. QED
      BY <3>1, <3>3 DEF Map!Next
  <2>4. CASE ~Inserted(c) /\ ~Dropped(c)
    <3>1. unmapped[c] = {}
      BY <2>1, <2>4 DEF IndInv, DropIsSafe
    <3>2. mapping' = mapping
      BY <2>1, <2>4, <3>1 DEF TypeOK, MappingAfter
    <3>3. QED
      BY <2>1, <2>4, <3>2 DEF tables
  <2>5. QED
    BY <2>2, <2>3, <2>4
<1>3. QED
  BY <1>1, <1>2

LEMMA StepRefines == IndInv /\ IndInv' /\ [Next]_vars => [Map!Next]_<<registered, mapping>>
<1> SUFFICES ASSUME IndInv, IndInv', [Next]_vars
             PROVE  [Map!Next]_<<registered, mapping>>
  OBVIOUS
<1> USE DEF tables
<1>1. CASE \E c \in Calls : Start(c) \/ Run(c) \/ Timeout(c)
  BY <1>1, CallRefines
<1>2. CASE \E s \in Shards : AddShard(s)
  BY <1>2 DEF AddShard, Map!Next, Map!Register
<1>3. CASE \E u \in Users : Expire(u)
  BY <1>3 DEF Expire
<1>4. CASE UNCHANGED vars
  BY <1>4 DEF vars
<1>5. QED
  BY <1>1, <1>2, <1>3, <1>4 DEF Next

\* The transactions of the wrapper and of the tools implement ShardMap: each
\* takes effect at once or not at all.
THEOREM Refinement == Spec => ImplementsShardMap
<1>1. Init => Map!Init
  BY DEF Init, Map!Init
<1>2. QED
  BY <1>1, Invariance, StepRefines, PTL DEF Spec, ImplementsShardMap, Map!Spec

\* A user is without a shard only when his shard is gone.
THEOREM UsersKeepTheirShard == Spec => KeepsShard
<1> DEFINE Keeps ==
      \A u \in Users : mapping[u] # None /\ mapping'[u] = None =>
        mapping[u] \in registered \ registered'
<1>1. ASSUME IndInv, IndInv', [Next]_vars PROVE Keeps \/ UNCHANGED vars
  <2>1. TypeOK /\ MappedToRegistered
    BY <1>1 DEF IndInv
  <2>2. CASE UNCHANGED <<registered, mapping>>
    BY <2>2
  <2>3. CASE \E s \in Shards : Map!Register(s)
    BY <2>3 DEF Map!Register
  <2>4. CASE \E s \in Shards : Map!Retire(s)
    BY <2>1, <2>4 DEF Map!Retire, TypeOK, MappedToRegistered
  <2>5. CASE \E u \in Users, s \in Shards : Map!Assign(u, s) \/ Map!Move(u, s)
    BY <2>1, <2>5, NoShardAssumption DEF Map!Assign, Map!Move, TypeOK
  <2>6. QED
    BY <1>1, <2>2, <2>3, <2>4, <2>5, StepRefines DEF Map!Next
<1>2. QED
  BY <1>1, Invariance, PTL DEF Spec, KeepsShard

(***************************************************************************)
(* While nobody is moved, calls and cache agree with the table.            *)
(***************************************************************************)
LEMMA AgreedStep ==
  ASSUME IndInv, Agreed, [Next]_vars
  PROVE  Agreed'
<1> SUFFICES ASSUME Operations \cap {"set", "remove"} = {}
             PROVE  Agreed'
  BY DEF Agreed
<1> USE DEF At, Is, User, Goto, tables
<1>1. /\ call \in [Calls -> Call] /\ pc \in [Calls -> Control]
      /\ picked \in [Calls -> Shards \cup {None}]
      /\ mapping \in [Users -> Shards \cup {None}]
      /\ cached \in [Users -> Shards \cup {None}]
  BY DEF IndInv, TypeOK
<1>2. /\ \A c \in Calls : call[c].op \in {"none", "ensure", "add"}
      /\ \A c \in Calls : Is(c, "ensure") => User(c) \in Users /\ unmapped[c] = {}
      /\ \A c \in Calls : At(c, "commit") => Is(c, "ensure")
  BY <1>1, OperationsAssumption DEF Call, IndInv, CallsAreInPlace, RowsAreOwn
<1>3. /\ \A u \in Users : cached[u] \in {None, mapping[u]}
      /\ \A c \in Calls : pc[c] \in {"fill", "ok"} =>
           Is(c, "ensure") /\ picked[c] # None /\ picked[c] = mapping[User(c)]
  BY DEF Agreed
<1>4. ASSUME NEW c \in Calls, UNCHANGED <<mapping, cached>>,
             \A d \in Calls \ {c} : pc'[d] = pc[d] /\ call'[d] = call[d] /\ picked'[d] = picked[d],
             pc'[c] \in {"fill", "ok"} =>
               Is(c, "ensure")' /\ picked'[c] # None /\ picked'[c] = mapping'[User(c)']
      PROVE  Agreed'
  BY <1>3, <1>4 DEF Agreed
<1>5. ASSUME NEW c \in Calls, Start(c) PROVE Agreed'
  <2>1. PICK op \in Operations, u \in Users \cup {None}, s \in Shards \cup {None} :
          Arrive(c, op, u, s)
    BY <1>5, Arrivals DEF IndInv
  <2>2. QED
    BY <1>1, <1>4, <2>1 DEF Arrive
<1>6. ASSUME NEW c \in Calls, Return(c) \/ Fail(c) PROVE Agreed'
  BY <1>1, <1>4, <1>6 DEF Return, Fail
<1>7. ASSUME NEW c \in Calls, LookIntoCache(c) \/ ReadMapping(c) PROVE Agreed'
  <2>1. Is(c, "ensure") /\ User(c) \in Users
    BY <1>2, <1>7 DEF LookIntoCache, ReadMapping, IndInv, CallsAreInPlace
  <2>2. UNCHANGED <<mapping, cached, call>>
    BY <1>7 DEF LookIntoCache, ReadMapping
  <2>3. pc'[c] \in {"fill", "ok"} => picked'[c] # None /\ picked'[c] = mapping[User(c)]
    BY <1>1, <1>3, <1>7, <2>1 DEF LookIntoCache, ReadMapping
  <2>4. QED
    BY <1>1, <1>4, <1>7, <2>1, <2>2, <2>3 DEF LookIntoCache, ReadMapping
<1>8. ASSUME NEW c \in Calls, FillCache(c) PROVE Agreed'
  <2>1. Is(c, "ensure") /\ picked[c] # None /\ picked[c] = mapping[User(c)] /\ User(c) \in Users
    BY <1>2, <1>3, <1>8 DEF FillCache
  <2>2. UNCHANGED <<mapping, call, picked>>
    BY <1>8 DEF FillCache
  <2>3. \A u \in Users : cached'[u] \in {None, mapping[u]}
    BY <1>1, <1>3, <1>8, <2>1 DEF FillCache
  <2>4. \A d \in Calls : pc'[d] \in {"fill", "ok"} => pc[d] \in {"fill", "ok"}
    BY <1>1, <1>8 DEF FillCache
  <2>5. QED
    BY <1>3, <2>2, <2>3, <2>4 DEF Agreed
<1>9. ASSUME NEW c \in Calls,
             Select(c) \/ Begin(c) \/ Unmap(c) \/ EndOfUnmap(c) \/ Insert(c) \/ Drop(c)
      PROVE  Agreed'
  <2>1. CASE Fail(c)
    BY <1>6, <2>1
  <2>2. CASE ~Fail(c)
    <3>1. /\ UNCHANGED <<mapping, cached, call>>
          /\ \A d \in Calls \ {c} : pc'[d] = pc[d] /\ picked'[d] = picked[d]
          /\ pc'[c] \notin {"fill", "ok"}
      BY <1>1, <1>9, <2>2 DEF Select, Begin, Unmap, EndOfUnmap, Insert, Drop
    <3>2. QED
      BY <1>4, <3>1
  <2>3. QED
    BY <2>1, <2>2
<1>10. ASSUME NEW c \in Calls, Commit(c) PROVE Agreed'
  <2>1. Inserted(c) /\ Is(c, "ensure") /\ User(c) \in Users /\ unmapped[c] = {}
    BY <1>2, <1>10 DEF Commit, Inserted
  <2>2. mapping[User(c)] = None /\ picked[c] # None
    BY <2>1, NoShardAssumption DEF IndInv, TypeOK, InsertIsSafe, KeyExists
  <2>3. \A u \in Users : mapping'[u] = IF u = User(c) THEN picked[c] ELSE mapping[u]
    BY <1>10, <2>1 DEF Commit, MappingAfter
  <2>4. /\ UNCHANGED <<cached, call, picked>> /\ pc'[c] \in {"ok", "error"}
        /\ \A d \in Calls \ {c} : pc'[d] = pc[d]
    BY <1>1, <1>10 DEF Commit
  <2>5. \A u \in Users : cached'[u] \in {None, mapping'[u]}
    BY <1>3, <2>2, <2>3, <2>4
  <2>6. ASSUME NEW d \in Calls, pc'[d] \in {"fill", "ok"}
        PROVE  Is(d, "ensure") /\ picked[d] # None /\ picked[d] = mapping'[User(d)]
    <3>1. CASE d = c
      BY <2>1, <2>2, <2>3, <3>1
    <3>2. CASE d # c
      <4>1. Is(d, "ensure") /\ picked[d] # None /\ picked[d] = mapping[User(d)]
        BY <1>3, <2>4, <2>6, <3>2
      <4>2. QED
        BY <1>2, <2>2, <2>3, <4>1
    <3>3. QED
      BY <3>1, <3>2
  <2>7. QED
    BY <2>4, <2>5, <2>6 DEF Agreed
<1>11. ASSUME NEW s \in Shards, AddShard(s) PROVE Agreed'
  BY <1>3, <1>11 DEF AddShard, Agreed
<1>12. ASSUME NEW u \in Users, Expire(u) PROVE Agreed'
  BY <1>1, <1>3, <1>12 DEF Expire, Agreed
<1>13. CASE UNCHANGED vars
  BY <1>3, <1>13 DEF vars, Agreed
<1>14. QED
  BY <1>5, <1>6, <1>7, <1>8, <1>9, <1>10, <1>11, <1>12, <1>13 DEF Next, Run, Timeout

(***************************************************************************)
(* While users only come, the shards get them evenly.                      *)
(***************************************************************************)
LEMMA CountTypes ==
  ASSUME NEW s
  PROVE  /\ UserCount(s) \in Nat
         /\ IsFiniteSet({u \in Users : mapping[u] = s})
         /\ Cardinality(Incoming(s)) \in Nat /\ IsFiniteSet(Incoming(s))
         /\ Cardinality(Incoming(s)) <= Cardinality(Calls)
         /\ Cardinality(Calls) \in Nat
<1>1. IsFiniteSet(Users) /\ IsFiniteSet(Calls)
  BY FiniteAssumption
<1>2. {u \in Users : mapping[u] = s} \in SUBSET Users /\ Incoming(s) \in SUBSET Calls
  BY DEF Incoming
<1>3. /\ IsFiniteSet({u \in Users : mapping[u] = s}) /\ IsFiniteSet(Incoming(s))
      /\ Cardinality(Incoming(s)) <= Cardinality(Calls)
  BY <1>1, <1>2, FS_Subset
<1>4. QED
  BY <1>1, <1>3, FS_CardinalityType DEF UserCount

\* Sums of counts, away from everything else.
LEMMA SumOfBounds ==
  ASSUME NEW a \in Nat, NEW b \in Nat, NEW c \in Nat, NEW n \in Nat, a <= b, c <= n
  PROVE  a + c <= b + n
OBVIOUS

\* A step that gives no user to a shard and lets no call select one.
LEMMA EvenStays ==
  ASSUME Even, UNCHANGED mapping, registered' \subseteq registered,
         \A s \in registered : Incoming(s)' \subseteq Incoming(s)
  PROVE  Even'
<1> SUFFICES ASSUME Operations = {"ensure"}, ~Breaks, NEW s \in registered', NEW t \in registered'
             PROVE  UserCount(s)' + Cardinality(Incoming(s)')
                      <= UserCount(t)' + Cardinality(Calls)
  BY DEF Even
<1>1. UserCount(s) + Cardinality(Incoming(s)) <= UserCount(t) + Cardinality(Calls)
  BY DEF Even
<1>2. UserCount(s)' = UserCount(s) /\ UserCount(t)' = UserCount(t)
  BY DEF UserCount
<1>3. Incoming(s)' \in SUBSET Incoming(s)
  OBVIOUS
<1>4. IsFiniteSet(Incoming(s)')
  BY <1>3, CountTypes, FS_Subset
<1>5. Cardinality(Incoming(s)') <= Cardinality(Incoming(s)) /\ Cardinality(Incoming(s)') \in Nat
  BY <1>3, <1>4, CountTypes, FS_Subset, FS_CardinalityType
<1>6. /\ UserCount(s) \in Nat /\ UserCount(t) \in Nat
      /\ Cardinality(Incoming(s)) \in Nat /\ Cardinality(Calls) \in Nat
  BY CountTypes
<1>7. UserCount(s) + Cardinality(Incoming(s)') <= UserCount(t) + Cardinality(Calls)
  BY <1>1, <1>5, <1>6
<1>8. QED
  BY <1>2, <1>7

\* A call selects a shard with the fewest users: at most all other calls are
\* on their way to it too.
LEMMA EvenOfSelect ==
  ASSUME IndInv, Even, NEW c \in Calls, Select(c)
  PROVE  Even'
<1> SUFFICES ASSUME Operations = {"ensure"}, ~Breaks PROVE Even'
  BY DEF Even
<1> USE DEF At, Goto, tables
<1>1. CASE Fail(c)
  <2>1. UNCHANGED <<mapping, registered>>
    BY <1>1 DEF Fail
  <2>2. \A s : Incoming(s)' \subseteq Incoming(s)
    BY <1>1 DEF Fail, Incoming, IndInv, TypeOK
  <2>3. QED
    BY <2>1, <2>2, EvenStays
<1>2. CASE ~Fail(c)
  <2>1. PICK z \in FewestUsers(registered) :
          /\ picked' = [picked EXCEPT ![c] = z] /\ Goto(c, "insert")
          /\ UNCHANGED <<tables, cached, call, todo, unmapped>>
    BY <1>2 DEF Select
  <2>2. SUFFICES ASSUME NEW s \in registered, NEW t \in registered
                 PROVE  UserCount(s)' + Cardinality(Incoming(s)')
                          <= UserCount(t)' + Cardinality(Calls)
    BY <2>1 DEF Even
  <2>3. UserCount(s)' = UserCount(s) /\ UserCount(t)' = UserCount(t)
    BY <2>1 DEF UserCount
  <2>4. /\ UserCount(s) \in Nat /\ UserCount(t) \in Nat
        /\ Cardinality(Incoming(s)) \in Nat /\ Cardinality(Calls) \in Nat
    BY CountTypes
  <2>5. Incoming(s)' \in SUBSET Calls
    BY DEF Incoming
  <2>6. Cardinality(Incoming(s)') \in Nat /\ Cardinality(Incoming(s)') <= Cardinality(Calls)
    BY <2>5, FiniteAssumption, FS_Subset, FS_CardinalityType
  <2>7. CASE s = z
    <3>1. UserCount(s) <= UserCount(t)
      BY <2>1, <2>7 DEF FewestUsers
    <3>2. QED
      BY <2>3, <2>4, <2>6, <3>1, SumOfBounds
  <2>8. CASE s # z
    <3>1. Incoming(s)' \in SUBSET Incoming(s)
      BY <2>1, <2>8 DEF Incoming, IndInv, TypeOK
    <3>2. Cardinality(Incoming(s)') <= Cardinality(Incoming(s))
      BY <3>1, CountTypes, FS_Subset
    <3>3. UserCount(s) + Cardinality(Incoming(s)) <= UserCount(t) + Cardinality(Calls)
      BY DEF Even
    <3>4. UserCount(s) + Cardinality(Incoming(s)') <= UserCount(t) + Cardinality(Calls)
      BY <2>4, <2>6, <3>2, <3>3
    <3>5. QED
      BY <2>3, <3>4
  <2>9. QED
    BY <2>7, <2>8
<1>3. QED
  BY <1>1, <1>2

\* COMMIT: a user that was on his way has come.
LEMMA EvenOfCommit ==
  ASSUME IndInv, Even, NEW c \in Calls, Commit(c)
  PROVE  Even'
<1> SUFFICES ASSUME Operations = {"ensure"}, ~Breaks PROVE Even'
  BY DEF Even
<1> USE DEF At, Goto, Is, User
<1>1. /\ Is(c, "ensure") /\ Inserted(c) /\ ~Dropped(c)
      /\ User(c) \in Users /\ unmapped[c] = {}
  BY DEF Commit, Inserted, Dropped, IndInv, TypeOK, Call, CallsAreInPlace, RowsAreOwn
<1>2. mapping[User(c)] = None /\ picked[c] \in registered /\ picked[c] # None
  BY <1>1, NoShardAssumption DEF IndInv, TypeOK, InsertIsSafe, KeyExists
<1>3. /\ \A u \in Users : mapping'[u] = IF u = User(c) THEN picked[c] ELSE mapping[u]
      /\ registered' = registered
      /\ picked' = picked /\ pc'[c] \in {"ok", "error"}
      /\ \A d \in Calls \ {c} : pc'[d] = pc[d]
  BY <1>1 DEF Commit, MappingAfter, IndInv, TypeOK
<1>4. SUFFICES ASSUME NEW s \in registered, NEW t \in registered
               PROVE  UserCount(s)' + Cardinality(Incoming(s)')
                        <= UserCount(t)' + Cardinality(Calls)
  BY <1>3 DEF Even
<1>5. ASSUME NEW z \in registered
      PROVE  /\ UserCount(z)' = IF z = picked[c] THEN UserCount(z) + 1 ELSE UserCount(z)
             /\ Cardinality(Incoming(z)') =
                  IF z = picked[c] THEN Cardinality(Incoming(z)) - 1
                                   ELSE Cardinality(Incoming(z))
  <2> DEFINE U == {u \in Users : mapping[u] = z}
  <2>1. z # None
    BY <1>5, NoShardAssumption DEF IndInv, TypeOK
  <2>2. {u \in Users : mapping'[u] = z} = IF z = picked[c] THEN U \cup {User(c)} ELSE U
    BY <1>1, <1>2, <1>3, <2>1
  <2>3. User(c) \notin U
    BY <1>2, <2>1
  <2>4. IsFiniteSet(U) /\ IsFiniteSet(Incoming(z))
    BY CountTypes
  <2>5. Cardinality(U \cup {User(c)}) = Cardinality(U) + 1
    BY <2>3, <2>4, FS_AddElement
  <2>6. Incoming(z)' = IF z = picked[c] THEN Incoming(z) \ {c} ELSE Incoming(z)
    BY <1>1, <1>3 DEF Incoming, Inserted
  <2>7. z = picked[c] => c \in Incoming(z)
    BY <1>1 DEF Incoming, Inserted
  <2>8. z = picked[c] => Cardinality(Incoming(z) \ {c}) = Cardinality(Incoming(z)) - 1
    BY <2>4, <2>7, FS_RemoveElement
  <2>9. UserCount(z) = Cardinality(U)
    BY DEF UserCount
  <2>10. UserCount(z)' = Cardinality({u \in Users : mapping'[u] = z})
    BY DEF UserCount
  <2>11. QED
    BY <2>2, <2>5, <2>6, <2>8, <2>9, <2>10
<1>6. /\ UserCount(s) \in Nat /\ UserCount(t) \in Nat
      /\ Cardinality(Incoming(s)) \in Nat /\ Cardinality(Calls) \in Nat
  BY CountTypes
<1>7. UserCount(s) + Cardinality(Incoming(s)) <= UserCount(t) + Cardinality(Calls)
  BY DEF Even
<1>8. UserCount(s)' + Cardinality(Incoming(s)') = UserCount(s) + Cardinality(Incoming(s))
  BY <1>5, <1>6
<1>9. UserCount(t)' = UserCount(t) \/ UserCount(t)' = UserCount(t) + 1
  BY <1>5
<1>10. QED
  BY <1>6, <1>7, <1>8, <1>9

LEMMA EvenStep ==
  ASSUME IndInv, Even, [Next]_vars
  PROVE  Even'
<1> SUFFICES ASSUME Operations = {"ensure"} PROVE Even'
  BY DEF Even
<1> USE DEF At, Goto, tables
<1>1. pc \in [Calls -> Control] /\ picked \in [Calls -> Shards \cup {None}]
  BY DEF IndInv, TypeOK
<1>2. ASSUME NEW c \in Calls, UNCHANGED <<mapping, registered>>,
             \A d \in Calls \ {c} : pc'[d] = pc[d] /\ picked'[d] = picked[d],
             \/ pc'[c] \notin {"insert", "commit"}
             \/ pc[c] = "insert" /\ picked'[c] = picked[c]
      PROVE  Even'
  <2>1. \A s : Incoming(s)' \subseteq Incoming(s)
    BY <1>2 DEF Incoming
  <2>2. QED
    BY <1>2, <2>1, EvenStays
<1>3. ASSUME NEW c \in Calls, Start(c) PROVE Even'
  <2>1. PICK op \in Operations, u \in Users \cup {None}, s \in Shards \cup {None} :
          Arrive(c, op, u, s)
    BY <1>3, Arrivals DEF IndInv
  <2>2. QED
    BY <1>1, <1>2, <2>1 DEF Arrive
<1>4. ASSUME NEW c \in Calls,
             Return(c) \/ Fail(c) \/ LookIntoCache(c) \/ ReadMapping(c) \/ FillCache(c)
      PROVE  Even'
  BY <1>1, <1>2, <1>4 DEF Return, Fail, LookIntoCache, ReadMapping, FillCache
<1>5. ASSUME NEW c \in Calls, Insert(c) PROVE Even'
  BY <1>1, <1>2, <1>4, <1>5 DEF Insert
<1>6. ASSUME NEW c \in Calls, Begin(c) \/ Unmap(c) \/ EndOfUnmap(c) \/ Drop(c) PROVE FALSE
  BY <1>6 DEF Begin, Unmap, EndOfUnmap, Drop, Is, IndInv, TypeOK, Call, CallsAreInPlace
<1>7. ASSUME NEW s \in Shards, AddShard(s) PROVE FALSE
  BY <1>7 DEF AddShard
<1>8. ASSUME \/ \E u \in Users : Expire(u)
             \/ UNCHANGED vars
      PROVE  Even'
  <2>1. UNCHANGED <<mapping, registered, pc, picked>>
    BY <1>8 DEF Expire, vars
  <2>2. \A s : Incoming(s)' = Incoming(s)
    BY <2>1 DEF Incoming
  <2>3. QED
    BY <2>1, <2>2, EvenStays
<1>9. QED
  BY <1>3, <1>4, <1>5, <1>6, <1>7, <1>8, EvenOfSelect, EvenOfCommit DEF Next, Run, Timeout

\* The two invariants hold beside the one of the transactions.
THEOREM EnsureInvariance == Spec => []EnsureInv
<1>1. Init => EnsureInv
  <2> SUFFICES ASSUME Init PROVE Agreed /\ Even
    BY InvariantInit DEF EnsureInv
  <2>1. Agreed
    BY DEF Init, Agreed
  <2>2. ASSUME NEW s \in registered, NEW t \in registered
        PROVE  UserCount(s) + Cardinality(Incoming(s)) <= UserCount(t) + Cardinality(Calls)
    <3>1. registered \subseteq Shards /\ \A u \in Users : mapping[u] = None
      BY DEF Init
    <3>2. {u \in Users : mapping[u] = s} = {} /\ Incoming(s) = {}
      BY <3>1, NoShardAssumption DEF Init, Incoming
    <3>3. UserCount(s) = 0 /\ Cardinality(Incoming(s)) = 0
      BY <3>2, FS_EmptySet DEF UserCount
    <3>4. UserCount(t) \in Nat /\ Cardinality(Calls) \in Nat
      BY CountTypes
    <3>5. QED
      BY <3>3, <3>4
  <2>3. QED
    BY <2>1, <2>2 DEF Even
<1>2. EnsureInv /\ [Next]_vars => EnsureInv'
  BY InvariantStep, AgreedStep, EvenStep DEF EnsureInv
<1>3. QED
  BY <1>1, <1>2, PTL DEF Spec

\* While nobody is moved, all requests of a user go to the same shard, also
\* those that found him without one at the same time.
THEOREM RequestsAgree == Spec => []EnsuredIsMapped
<1>1. EnsureInv => EnsuredIsMapped
  BY DEF EnsureInv, Agreed, EnsuredIsMapped, At
<1>2. QED
  BY <1>1, EnsureInvariance, PTL

\* selectShard spreads new users evenly, although the counts it reads are
\* out of date when it inserts: it is off by the requests under way at most.
THEOREM ShardsAreBalanced == Spec => []Balanced
<1>1. EnsureInv => Balanced
  <2> SUFFICES ASSUME EnsureInv, Operations = {"ensure"}, ~Breaks,
                      NEW s \in registered, NEW t \in registered
               PROVE  UserCount(s) <= UserCount(t) + Cardinality(Calls)
    BY DEF Balanced
  <2>1. UserCount(s) + Cardinality(Incoming(s)) <= UserCount(t) + Cardinality(Calls)
    BY DEF EnsureInv, Even
  <2>2. /\ UserCount(s) \in Nat /\ UserCount(t) \in Nat
        /\ Cardinality(Incoming(s)) \in Nat /\ Cardinality(Calls) \in Nat
    BY CountTypes
  <2>3. QED
    BY <2>1, <2>2
<1>2. QED
  BY <1>1, EnsureInvariance, PTL
=============================================================================
