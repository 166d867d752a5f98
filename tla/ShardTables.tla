---------------------------- MODULE ShardTables ----------------------------
(***************************************************************************)
(* lib/shards: the tables Shard (key: Address) and ShardsMapping (key:     *)
(* UserId, with a foreign key to Shard), the transactions that change      *)
(* them, and the cache of the wrapper in front of them.                    *)
(*                                                                         *)
(* EnsureShardForUser runs in every request the wrapper handles;           *)
(* SetShardForUser, EnsureShard and RemoveShard are called by the          *)
(* migration tools.  Postgres runs the transactions at READ COMMITTED:     *)
(* a statement sees what is committed when it starts, waits for rows and   *)
(* keys another open transaction has changed, and fails on a duplicate     *)
(* key or a missing shard.                                                 *)
(***************************************************************************)
EXTENDS Naturals, FiniteSets

CONSTANTS
  Users,        \* tenants
  Shards,       \* addresses of Camunda engines
  Calls,        \* slots for calls of lib/shards running at the same time
  Operations,   \* the functions that are called
  Breaks,       \* TRUE if a result set may break off while it is read
  None          \* no user, no shard

ASSUME NoShardAssumption == None \notin Users \cup Shards
ASSUME OperationsAssumption == Operations \subseteq {"ensure", "set", "remove", "add"}
ASSUME BreaksAssumption == Breaks \in BOOLEAN
ASSUME FiniteAssumption == IsFiniteSet(Users) /\ IsFiniteSet(Calls)

VARIABLES
  registered,  \* committed rows of Shard
  mapping,     \* committed rows of ShardsMapping; None: no row
  cached,      \* what the wrapper's cache has for each user, or None
  call,        \* call[c]: function and arguments, fixed while it runs
  pc,          \* pc[c]: what the call does next
  picked,      \* picked[c]: the shard it has read, selected or deleted
  todo,        \* todo[c]: rows its DELETE statement must still reach
  unmapped     \* unmapped[c]: rows its open transaction has deleted

tables == <<registered, mapping>>
vars == <<registered, mapping, cached, call, pc, picked, todo, unmapped>>

(***************************************************************************)
(* Control points, named after what comes next:                            *)
(*   EnsureShardForUser  cache, read, fill, select, insert, commit         *)
(*   SetShardForUser     begin, unmap, insert, commit                      *)
(*   RemoveShard         begin, unmap, drop, commit                        *)
(*   all                 ok, error: about to return; idle: no call         *)
(***************************************************************************)
MayTimeOut == {"cache", "read", "select", "begin", "unmap", "insert", "drop", "commit"}
Control == {"idle", "fill", "ok", "error"} \cup MayTimeOut

Call ==
  [op : Operations \cup {"none"}, user : Users \cup {None}, shard : Shards \cup {None}]

NoCall == [op |-> "none", user |-> None, shard |-> None]

TypeOK ==
  /\ registered \in SUBSET Shards
  /\ mapping \in [Users -> Shards \cup {None}]
  /\ cached \in [Users -> Shards \cup {None}]
  /\ call \in [Calls -> Call]
  /\ pc \in [Calls -> Control]
  /\ picked \in [Calls -> Shards \cup {None}]
  /\ todo \in [Calls -> SUBSET Users]
  /\ unmapped \in [Calls -> SUBSET Users]

Init ==
  /\ registered \in SUBSET Shards
  /\ mapping = [u \in Users |-> None]
  /\ cached = [u \in Users |-> None]
  /\ call = [c \in Calls |-> NoCall]
  /\ pc = [c \in Calls |-> "idle"]
  /\ picked = [c \in Calls |-> None]
  /\ todo = [c \in Calls |-> {}]
  /\ unmapped = [c \in Calls |-> {}]

At(c, l) == pc[c] = l
Goto(c, l) == pc' = [pc EXCEPT ![c] = l]
Is(c, op) == call[c].op = op

Target(c) == call[c].shard
User(c) == call[c].user

----------------------------------------------------------------------------
\* Calls arrive and return.

Arrive(c, op, u, s) ==
  /\ At(c, "idle")
  /\ call' = [call EXCEPT ![c] = [op |-> op, user |-> u, shard |-> s]]
  /\ Goto(c, IF op = "ensure" THEN "cache" ELSE "begin")
  /\ UNCHANGED <<tables, cached, picked, todo, unmapped>>

StartEnsure(c, u) == "ensure" \in Operations /\ Arrive(c, "ensure", u, None)
StartSet(c, u, s) == "set" \in Operations /\ Arrive(c, "set", u, s)
StartRemove(c, s) == "remove" \in Operations /\ Arrive(c, "remove", None, s)

Return(c) ==
  /\ At(c, "ok") \/ At(c, "error")
  /\ call' = [call EXCEPT ![c] = NoCall]
  /\ picked' = [picked EXCEPT ![c] = None]
  /\ Goto(c, "idle")
  /\ UNCHANGED <<tables, cached, todo, unmapped>>

----------------------------------------------------------------------------
\* Rows and keys held by open transactions.

Inserted(c) == At(c, "commit") /\ ~Is(c, "remove")
Dropped(c) == At(c, "commit") /\ Is(c, "remove") /\ picked[c] # None

\* The transaction of c ends without effect.
Fail(c) ==
  /\ Goto(c, "error")
  /\ todo' = [todo EXCEPT ![c] = {}]
  /\ unmapped' = [unmapped EXCEPT ![c] = {}]
  /\ UNCHANGED <<tables, cached, call, picked>>

\* The context of the transaction is done (1 s or 2 s), or a statement of it
\* reports an error.
Timeout(c) == pc[c] \in MayTimeOut /\ Fail(c)

----------------------------------------------------------------------------
\* EnsureShardForUser: the cache, then getShardForUser.

LookIntoCache(c) ==
  /\ At(c, "cache")
  /\ picked' = [picked EXCEPT ![c] = cached[User(c)]]
  /\ Goto(c, IF cached[User(c)] = None THEN "read" ELSE "ok")
  /\ UNCHANGED <<tables, cached, call, todo, unmapped>>

ReadMapping(c) ==
  /\ At(c, "read")
  /\ picked' = [picked EXCEPT ![c] = mapping[User(c)]]
  /\ Goto(c, IF mapping[User(c)] = None THEN "select" ELSE "fill")
  /\ UNCHANGED <<tables, cached, call, todo, unmapped>>

FillCache(c) ==
  /\ At(c, "fill")
  /\ cached' = [cached EXCEPT ![User(c)] = picked[c]]
  /\ Goto(c, "ok")
  /\ UNCHANGED <<tables, call, picked, todo, unmapped>>

UserCount(s) == Cardinality({u \in Users : mapping[u] = s})

\* A faulty variant of FewestUsers: the count is ignored.
AnyShard(S) == S

\* selectShard: one of the shards with the fewest users, in the order a map
\* is iterated.
FewestUsers(S) == {s \in S : \A t \in S : UserCount(s) <= UserCount(t)}

Select(c) ==
  /\ At(c, "select")
  /\ \E S \in SUBSET registered :
       /\ S = registered \/ Breaks
       /\ IF S = {} THEN Fail(c)
          ELSE /\ \E s \in FewestUsers(S) : picked' = [picked EXCEPT ![c] = s]
               /\ Goto(c, "insert")
               /\ UNCHANGED <<tables, cached, call, todo, unmapped>>

----------------------------------------------------------------------------
\* SetShardForUser and RemoveShard: DELETE FROM ShardsMapping.

Begin(c) ==
  /\ At(c, "begin")
  /\ todo' = [todo EXCEPT ![c] =
                IF Is(c, "set") THEN {u \in {User(c)} : mapping[u] # None}
                                ELSE {u \in Users : mapping[u] = Target(c)}]
  /\ Goto(c, "unmap")
  /\ UNCHANGED <<tables, cached, call, picked, unmapped>>

\* A faulty variant of EndOfUnmap: each statement is a transaction of its own.
EndOfUnmapCommitted(c) ==
  /\ At(c, "unmap") /\ todo[c] = {}
  /\ mapping' = [u \in Users |-> IF u \in unmapped[c] THEN None ELSE mapping[u]]
  /\ unmapped' = [unmapped EXCEPT ![c] = {}]
  /\ Goto(c, IF Is(c, "set") THEN "insert" ELSE "drop")
  /\ picked' = [picked EXCEPT ![c] = Target(c)]
  /\ UNCHANGED <<registered, cached, call, todo>>

\* A row another open transaction has deleted has to be waited for.
Unmap(c) ==
  /\ At(c, "unmap")
  /\ \E u \in todo[c] :
       /\ \A d \in Calls \ {c} : u \notin unmapped[d]
       /\ todo' = [todo EXCEPT ![c] = @ \ {u}]
       /\ unmapped' = [unmapped EXCEPT ![c] = @ \cup {u}]
  /\ UNCHANGED <<tables, cached, call, pc, picked>>

EndOfUnmap(c) ==
  /\ At(c, "unmap") /\ todo[c] = {}
  /\ IF Is(c, "set") THEN Goto(c, "insert") /\ picked' = [picked EXCEPT ![c] = Target(c)]
                     ELSE Goto(c, "drop") /\ UNCHANGED picked
  /\ UNCHANGED <<tables, cached, call, todo, unmapped>>

----------------------------------------------------------------------------
\* addShardForUser: INSERT INTO ShardsMapping.

InsertWaits(c) ==
  \E d \in Calls \ {c} :
    \/ Inserted(d) /\ User(d) = User(c)
    \/ User(c) \in unmapped[d]
    \/ Dropped(d) /\ picked[d] = picked[c]

KeyExists(c) == mapping[User(c)] # None /\ User(c) \notin unmapped[c]

\* A faulty variant of Insert: the keys are not there.
InsertUnchecked(c) ==
  /\ At(c, "insert")
  /\ Goto(c, "commit")
  /\ UNCHANGED <<tables, cached, call, picked, todo, unmapped>>

Insert(c) ==
  /\ At(c, "insert")
  /\ ~InsertWaits(c)
  /\ IF KeyExists(c) \/ picked[c] \notin registered THEN Fail(c)
     ELSE /\ Goto(c, "commit")
          /\ UNCHANGED <<tables, cached, call, picked, todo, unmapped>>

----------------------------------------------------------------------------
\* RemoveShard: DELETE FROM Shard.

DropWaits(c) ==
  \E d \in Calls \ {c} :
    \/ (Inserted(d) \/ Dropped(d)) /\ picked[d] = Target(c)
    \/ \E u \in unmapped[d] : mapping[u] = Target(c)

\* A shard that is not there is no error, one with users is.  (The failing
\* RemoveShard does not roll back, but Postgres releases the locks of a
\* transaction with its error.)
Drop(c) ==
  /\ At(c, "drop")
  /\ ~DropWaits(c)
  /\ IF \E u \in Users \ unmapped[c] : mapping[u] = Target(c) THEN Fail(c)
     ELSE /\ picked' = [picked EXCEPT ![c] = IF Target(c) \in registered THEN Target(c) ELSE None]
          /\ Goto(c, "commit")
          /\ UNCHANGED <<tables, cached, call, todo, unmapped>>

----------------------------------------------------------------------------
\* The end of a transaction.

MappingAfter(c) ==
  [u \in Users |-> IF Inserted(c) /\ u = User(c) THEN picked[c]
                   ELSE IF u \in unmapped[c] THEN None ELSE mapping[u]]

\* An error of COMMIT does not tell whether it was executed.  A statement
\* that waits for a row skips it when it is deleted.  The tools that call
\* SetShardForUser have a cache of their own, which keeps nothing; the cache
\* of the wrapper is not invalidated.
Commit(c) ==
  /\ At(c, "commit")
  /\ mapping' = MappingAfter(c)
  /\ registered' = IF Dropped(c) THEN registered \ {picked[c]} ELSE registered
  /\ todo' = [d \in Calls |-> todo[d] \ unmapped[c]]
  /\ unmapped' = [unmapped EXCEPT ![c] = {}]
  /\ Goto(c, "ok") \/ Goto(c, "error")
  /\ UNCHANGED <<cached, call, picked>>

----------------------------------------------------------------------------
\* EnsureShard, a statement of its own.
AddShard(s) ==
  /\ "add" \in Operations
  /\ s \notin registered
  /\ registered' = registered \cup {s}
  /\ UNCHANGED <<mapping, cached, call, pc, picked, todo, unmapped>>

\* A faulty variant of Expire: entries have no expiration.
KeepForever(u) == FALSE /\ UNCHANGED vars

\* After 60 s, when the cache is full, or with the wrapper's death.
Expire(u) ==
  /\ cached[u] # None
  /\ cached' = [cached EXCEPT ![u] = None]
  /\ UNCHANGED <<tables, call, pc, picked, todo, unmapped>>

Start(c) ==
  \/ \E u \in Users : StartEnsure(c, u) \/ \E s \in Shards : StartSet(c, u, s)
  \/ \E s \in Shards : StartRemove(c, s)

Run(c) ==
  \/ LookIntoCache(c) \/ ReadMapping(c) \/ FillCache(c) \/ Select(c)
  \/ Begin(c) \/ Unmap(c) \/ EndOfUnmap(c) \/ Insert(c) \/ Drop(c)
  \/ Commit(c) \/ Return(c)

Next ==
  \/ \E c \in Calls : Start(c) \/ Run(c) \/ Timeout(c)
  \/ \E s \in Shards : AddShard(s)
  \/ \E u \in Users : Expire(u)

Spec == Init /\ [][Next]_vars

(***************************************************************************)
(* A call that waits is ended by its context at the latest, and an entry   *)
(* of the cache by its expiration.                                         *)
(***************************************************************************)
Fairness ==
  /\ \A c \in Calls : WF_vars(Run(c) \/ Timeout(c))
  /\ \A u \in Users : WF_vars(Expire(u))

FairSpec == Spec /\ Fairness

----------------------------------------------------------------------------
(***************************************************************************)
(* Properties.                                                             *)
(***************************************************************************)

\* A user is mapped to a registered shard, whatever tools and requests do at
\* the same time.
MappedToRegistered == \A u \in Users : mapping[u] \in registered \cup {None}

\* A user loses his shard only together with it: moving him to another one
\* never shows him without a shard, which would have the next request assign
\* one at random.
KeepsShard ==
  [][\A u \in Users : mapping[u] # None /\ mapping'[u] = None =>
       mapping[u] \in registered \ registered']_vars

\* While nobody is moved, all requests of a user are sent to the same shard,
\* though several of them may have found him without one.
EnsuredIsMapped ==
  Operations \cap {"set", "remove"} = {} =>
    \A c \in Calls : At(c, "ok") => picked[c] = mapping[User(c)]

\* Requests of new users spread them evenly over the shards: the counts of two
\* shards differ by no more users than requests are under way at a time.
\* (While users only come, and all counts are read.)
Balanced ==
  Operations = {"ensure"} /\ ~Breaks =>
    \A s, t \in registered : UserCount(s) <= UserCount(t) + Cardinality(Calls)

(***************************************************************************)
(* What holds in every state of the open transactions; MappedToRegistered  *)
(* rests on it.                                                            *)
(***************************************************************************)

\* Each call is where its function can be, with the arguments it has.
CallsAreInPlace ==
  \A c \in Calls :
    /\ pc[c] \in {"cache", "read", "fill", "select"} => Is(c, "ensure")
    /\ pc[c] \in {"begin", "unmap"} => call[c].op \in {"set", "remove"}
    /\ At(c, "insert") => call[c].op \in {"ensure", "set"}
    /\ At(c, "drop") => Is(c, "remove")
    /\ At(c, "commit") => call[c].op \in {"ensure", "set", "remove"}
    /\ call[c].op \in {"ensure", "set"} => User(c) \in Users
    /\ call[c].op \in {"set", "remove"} => Target(c) \in Shards

\* The rows a DELETE statement has to reach or has deleted exist, and are
\* those of its call.
RowsAreOwn ==
  \A c \in Calls :
    /\ todo[c] # {} => At(c, "unmap")
    /\ unmapped[c] # {} => pc[c] \in {"unmap", "insert", "drop", "commit"}
    /\ Is(c, "ensure") => unmapped[c] = {}
    /\ \A u \in todo[c] \cup unmapped[c] :
         /\ mapping[u] # None
         /\ Is(c, "set") => u = User(c)
         /\ Is(c, "remove") => mapping[u] = Target(c)
    /\ \A d \in Calls \ {c} : unmapped[c] \cap unmapped[d] = {}

\* The key and the reference of an inserted row are held.
InsertIsSafe ==
  \A c \in Calls : Inserted(c) =>
    /\ picked[c] \in registered
    /\ ~KeyExists(c)
    /\ \A d \in Calls \ {c} :
         /\ Inserted(d) => User(d) # User(c)
         /\ User(c) \notin unmapped[d]
         /\ Dropped(d) => picked[d] # picked[c]

\* Nobody keeps a row of a deleted shard.
DropIsSafe ==
  \A c \in Calls :
    /\ Dropped(c) =>
         /\ picked[c] = Target(c)
         /\ \A u \in Users : mapping[u] = picked[c] => u \in unmapped[c]
         /\ \A d \in Calls \ {c} : Dropped(d) => picked[d] # picked[c]
    /\ At(c, "commit") /\ ~Inserted(c) /\ ~Dropped(c) => unmapped[c] = {}

IndInv ==
  /\ TypeOK
  /\ MappedToRegistered
  /\ CallsAreInPlace
  /\ RowsAreOwn
  /\ InsertIsSafe
  /\ DropIsSafe

(***************************************************************************)
(* What holds in addition as long as nobody is moved, and as long as users *)
(* only come; EnsuredIsMapped and Balanced rest on it.                     *)
(***************************************************************************)

\* What a call has found for its user, and the cache keeps, is in the table.
Agreed ==
  Operations \cap {"set", "remove"} = {} =>
    /\ \A u \in Users : cached[u] \in {None, mapping[u]}
    /\ \A c \in Calls : pc[c] \in {"fill", "ok"} =>
         Is(c, "ensure") /\ picked[c] # None /\ picked[c] = mapping[User(c)]

\* The calls that are about to give a user to the shard.
Incoming(s) == {c \in Calls : pc[c] \in {"insert", "commit"} /\ picked[c] = s}

\* With the users that are on their way to it, no shard is further ahead of
\* another than there are calls: the last that selected it found it least used.
Even ==
  Operations = {"ensure"} /\ ~Breaks =>
    \A s, t \in registered :
      UserCount(s) + Cardinality(Incoming(s)) <= UserCount(t) + Cardinality(Calls)

EnsureInv == IndInv /\ Agreed /\ Even

Map == INSTANCE ShardMap

\* Each transaction takes effect at once, as one step of the map.
ImplementsShardMap == Map!Spec

\* When users are no longer moved, the cache comes to agree with the tables.
EventuallyFresh ==
  <>[][FALSE]_tables => <>[](\A u \in Users : cached[u] \in {None, mapping[u]})

=============================================================================
