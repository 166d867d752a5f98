# A specification of camunda-engine-wrapper

`camunda-engine-wrapper` stands between the services of a platform and several
Camunda engines ("shards"). It gives a deployment the id its caller chose (the
virtual id, *vid*) instead of the one the engine chose (*did*), sends every call
to the shard of its user, checks who may see what, and offers tools that repair
what failures left behind. This directory holds TLA+ modules of its core, the
TLC instances that check them, and proofs checked by TLAPS.

## 1. The system

| component | state | operations | talks to |
|---|---|---|---|
| `lib/vid` | table `VidRelation(DeploymentId, VirtualId)`, no uniqueness | insert, look up both ways, list, delete in an open transaction | Postgres |
| `lib/controller`, `lib/api/deploy.go` | none of its own, one goroutine per request | `Deploy` (PUT), `DeleteDeployment` (DELETE), history deletion | vid, camunda, incident API, process-io |
| `lib/camunda` | none; the engines hold deployments, definitions, instances, history | deploy, remove, start, access checks, lists, events | shards, vid, engines |
| `lib/shards`, `lib/shards/cache` | tables `Shard`, `ShardsMapping`; a cache of both, 60 s | find or assign the shard of a user, move a user, add or remove a shard | Postgres |
| `lib/shardmigration`, `cmd/addshard`, `cmd/removeshard` | none | reads the tenants of an engine page by page and maps them to it | shards, engines |
| `lib/cleanup`, `cmd/cleanup` | none; the operator keeps the lists | list and remove unlinked vids and processes | vid, shards, engines, the wrapper |
| `lib/auth`, `lib/client/auth.go` | the shared admin token | fetch, refresh | Keycloak |
| `lib/processio`, `lib/notification` | none | delete io variables; tell the user | other services |
| `lib/api/v1endpoints.go`, `v2endpoints.go`, `api.go` | none | decode, check access, call `lib/camunda`, answer | all of the above |
| `lib/controller/bpmn.go`, `etree` | an XML tree | prefix scripts, normalise ids; parse, search | - |
| `lib/client`, `lib/configuration`, `lib/metrics`, `lib/model`, `docs` | configuration, counters | - | - |

Where they interact: a request handler calls Postgres, an engine and two other
services one after the other, over connections that can time out (30 s for HTTP),
with no transaction around all of them. Handlers of the same vid are not ordered.
The handlers do not look at the context of their request: when the caller gives up
and repeats it, both run. The tools are processes of their own, working on the same
database and the same engines while the wrapper serves requests.

What makes each part correct, and what is hard about it:

* **Deployments.** Relation and process are created and removed together although
  they live in different systems; no handler may hurt the deployment of another vid,
  remove a process whose relation stays, or leave its transaction (and the row locks
  every later request waits for) open. Hard: overlapping requests, lost answers,
  DELETEs the engine executes after the wrapper gave up, crashes between two calls,
  a COMMIT that reports an error.
* **Cleanup.** What is removed as an orphan must be one. Hard: relations and shards
  are two snapshots taken at different moments, of a system that goes on working.
* **Shards.** A user has one shard, of those that are registered, also when several
  requests meet a new user at once; moving a user never leaves him without one. Hard:
  the transactions of two tools and many handlers, the cache beside them.
* **Instances.** All tenants share engines, and most of the engine's calls take any id:
  a check of the wrapper, made by another call before, is all that keeps tenants apart.
  Hard: everything that can happen between the check and the call; lists of calls that
  fail halfway, each with its own way to go on; answers that are lost.
* **Token.** One token for all calls to process-io (and one per provider of the client
  library), checked, refreshed and read by many goroutines, without a lock or with one
  that is released too early. Hard: a struct is not assigned at once; tokens expire
  while it happens.

`PROJECT.json` lists every hazard at its line, with the properties that cover it.

## 2. Modules

| module | models | extends |
|---|---|---|
| `Domain` | identifiers, kinds of failures | - |
| `VidRelation` | `lib/vid`: the table, its queries, the removing transaction with its row locks | `Domain` |
| `Engine` | the engines as the calls of `lib/camunda` use them, and the shard of a user | `Domain` |
| `Controller` | `Deploy` and `DeleteDeployment`, one action per call | `VidRelation`, `Engine` |
| `Cleanup` | `list-unlinked-pid` and `remove-pid` | `VidRelation`, `Engine` |
| `Deployments` | all of these together; ageing of deployments; properties, invariant, fairness | `Controller`, `Cleanup` |
| `DeploymentStore` | abstract: behind a vid is at most one running deployment | - |
| `UnlinkedVids` | `list-unlinked-vid` beside all of this | `Deployments` |
| `DeploymentsProofs` | theorems about `Deployments`, whatever overlaps and fails | `Deployments`, `TLAPS` |
| `SerialProofs` | theorems about `Deployments` for handlers of incidents, and for callers that keep to one request per vid | `DeploymentsProofs` |
| `StoreProofs` | `Deployments` implements `DeploymentStore` | `SerialProofs` |
| `UnlinkedVidsProofs` | theorems about `UnlinkedVids` | `UnlinkedVids`, `DeploymentsProofs` |
| `ShardTables` | `lib/shards`: both tables, the transactions of the wrapper and of the shard tools statement by statement, the cache | - |
| `ShardMap` | abstract: users keep a registered shard until they are moved or it is retired | - |
| `ShardTablesProofs` | theorems about `ShardTables`, its refinement of `ShardMap` among them | `ShardTables`, `TLAPS` |
| `InstanceEngine` | the engine as the endpoints for definitions and instances use it, process-io and incident service, the vids; what others do to them | - |
| `CamundaCalls` | `lib/camunda`: each function as the sequence of its remote calls, with what its caller does when one fails | `InstanceEngine` |
| `V2Endpoints`, `V1Endpoints` | every handler of both versions of the API (but for PUT and DELETE of deployments, see `Controller`) as such a sequence | `CamundaCalls` |
| `Instances` | a request that makes these calls one by one; properties, invariant | `V1Endpoints` |
| `HandlersProofs` | what the call sequences of all handlers have in common | `Instances`, `TLAPS` |
| `InstancesProofs` | theorems about `Instances` | `HandlersProofs` |
| `OpenidToken` | `lib/auth/access.go` and `lib/client/auth.go` | - |
| `OpenidTokenProofs` | theorems about `OpenidToken` | `OpenidToken`, `TLAPS` |
| `MCDeployments`, `MCUnlinkedVids`, `MCShardTables`, `MCInstances`, `MCOpenidToken` | symmetry, and the tenants of definitions, for TLC | - |

### State and code

* `rows` is the committed content of `VidRelation`, `locked[r]` the rows deleted by
  the open transaction of request `r`. `DeleteNextRow` is one row of a running DELETE
  statement, because a statement can wait for a row another transaction has deleted
  and so two transactions can wait for each other; `todo[r]` holds the rows the
  statement saw when it began.
* `engine[d]` is `"unborn"`, the shard deployment `d` runs on, or `"gone"`. Ids are
  given by the engine and never repeat. `lateDeletes` are DELETE calls the wrapper
  has given up and the engine has not executed yet.
* `shardOf[u]` is what the shard lookup of the wrapper yields for a user at the
  moment, its cache included. A move of the user can show late, and even twice,
  through the cache; `Remap` allows both.
* `req[r]`, `pc[r]`, `old[r]`, `defs[r]` are the arguments, position and local
  variables of the handler in slot `r`. The control points are named after the call
  that comes next (comment above `InTransaction` in `Controller`).
* A request's new deployment id is fixed when it arrives (`req[r].new`): any id
  nobody has. Nothing looks at it before the engine has created the deployment.
* `tool` is `list-unlinked-pid` and then the operator's list; `scan` the same for
  `list-unlinked-vid`. That tool reads the list of shards first, from the sharding database, and the relations
  after it (`ReadShards`, `ReadVidRelations`). `Shards` are all engines there are; the table of them is changed by
  `addshard` and `removeshard`, and the error of a result set that breaks off is not seen, so the list is any of
  `Shards` but none. For `list-unlinked-pid` a missing shard only makes the list shorter, so `ReadRelations` of
  `Cleanup` takes all of them.
* In `ShardTables`, `registered` and `mapping` are the committed rows of `Shard` and
  `ShardsMapping`; `unmapped[c]` are the rows the open transaction of call `c` has
  deleted, and a call at `"commit"` has executed its INSERT (`Inserted`) or its DELETE of
  a shard (`Dropped`). READ COMMITTED, the primary keys and the foreign key are in
  `Unmap` (a row deleted by another transaction is waited for, and skipped when that
  one commits), `InsertWaits`/`KeyExists` and `DropWaits`. `cached` is the cache of the
  wrapper; the tools run with `cache.None`, so they invalidate nothing.
  `Deployments` does not use this module: its `shardOf` is any value the cache
  and the tables can yield.
* `handlers` are the on-incident handlers set for definitions of deployments.
* In `Instances` a handler is data: `req.calls` is the list of the remote calls it makes,
  as `V2Endpoints` and `V1Endpoints` define it, `req.pos` the next one. A call names what
  it does (`do`), to what (`on`), and what the handler does with its error (`fail`): the
  answer it gives, or that it goes on. Each kind of call is one action. A handler that
  reads a list and then works through it (`ListByKey`, `ListTheDeployments`) adds the
  calls for the entries to its own. `req.found` is the `definitions[0]` of a handler.
* There is one request in `Instances`, and everybody else is `Others`: each call of another
  handler has one effect on the engine or a service (an instance started, stopped, erased;
  variables or incidents written or deleted; a deployment removed, its relation removed,
  a new one created, its relation saved, of any user), and `Others` has all of these effects at any
  time and in any order, except that a deployment is removed before its relation and created
  before it, as in `Controller` (`Undeploy`, `Unlink`, `Deploy`, `Link`). The two deployments
  behind one vid of the run `double`, those nobody links, and moved users are left to `Deployments`.
  So the observed request meets what any number of other requests can do between two of
  its calls, and a property of it is one of each of them.
* The users live on one engine; the shard lookup before each call can fail and is part
  of the call. `Instances` assumes that process-io is configured (without it the call
  to it is left out).
* In `OpenidToken` `kind` says whose token it is. `openid` has, of the Go struct, the time at which the
  access token really ends (the code cannot see it), the two `expires_in`, of
  which 0 is none, and the request time. `*this = openid` (or `openid = ...` outside the
  mutex) is a data race; every field is written by a step of its own (`WriteField`), in any
  order, and what another caller reads meanwhile is a mix. The test of the cached token and
  its use are reads of their own, too: request time, access token, `expires_in`, and then the access
  token again, which is what the caller returns (`ReadRequestTime`, `TestAccessToken`,
  `TestExpiresIn`, `UseCached`). A caller is `disturbed` if another one was writing when it began to
  read, or has written since.

### What can fail

The constant `Faults` names the kinds of failures of a run (`Domain`). A call that
reports an error may have had no effect or its full effect; a DELETE may also take
effect later. `CommitRemoval` and `Save` may commit and still report an error. With
`"read"` a result set breaks off in the middle: `rowsToStringList`, `GetRelations` and
`getShards` loop over `rows.Next()` and never ask `rows.Err()`, so the shortened result
counts as complete. With `"crash"` the wrapper dies between any two calls.

In `ShardTables`, the context of a transaction may end at any statement (`Timeout`, 1 s
or 2 s), a COMMIT may be executed and report an error, and with `Breaks` the result set
of the user counts breaks off. A death of the wrapper is a `Timeout` of each of its
calls and an `Expire` of each entry.

Two approximations: `StopByKey` goes on to delete an instance whose io variables could not be deleted, where the code
turns to the next one, so the model has more behaviours; and `RemoveOld` leaves out the branch for an empty user id
(`RemoveProcessFromAllShards`), which no request of the modelled callers has.

Abstracted: contents of diagrams (only "rejected by the engine" matters), names,
notifications, what the incident API and process-io keep (they succeed or fail),
HTTP codes other than success and failure, ids of processes.

## 3. Properties

| property | says | kind |
|---|---|---|
| `TypeOK` | types, and what a control point implies about the local variables | invariant |
| `OneVidPerDeployment` | a did has one vid, though the table does not enforce it | invariant |
| `CleanupSparesDeployments` | the list given to `remove-pid` has no linked deployment and none a request may still link | invariant |
| `NoLeakedTransaction` | no way out of a handler leaves its transaction open | invariant |
| `RemovedUnderLock` | the process of a relation is removed only while the relation is held by the removing transaction, by a late DELETE, or to undo a failed INSERT | action |
| `UnlinkedByOwnRequest` | a relation disappears only by the COMMIT of a request for its vid | action |
| `HandledBeforeLinked` | a relation is saved after all on-incident handlers are set (unless the user is moved in between) | action |
| `IndInv`, `SerialInv`, `CleanInv`, `ScanInv` | the inductive invariants of the proofs: whatever happens; for callers with one request per vid; without failing calls; with `list-unlinked-vid` | invariant |
| `NoOrphans`, `NoDanglingRelations` | without failing calls, relations and processes stay in step | invariant |
| `OkIsTrue` | an answer of 200 says what is the case; that the process of a DELETE is gone only if its user shares the shard with who deployed it and is not moved | invariant |
| `ImplementsStore` | to callers with one request per vid at a time the wrapper is a `DeploymentStore` | refinement |
| `EveryRequestEnds` | each request is answered | liveness |
| `MappedToRegistered` | a user is mapped to a registered shard | invariant |
| `KeepsShard` | a user loses his shard only together with it, never in the middle of a move | action |
| `EnsuredIsMapped` | while nobody is moved, all requests of a user go to one shard, also those that met him without one | invariant |
| `Balanced` | new users are spread evenly, up to one user per request under way | invariant |
| `ImplementsShardMap` | every transaction of `ShardTables` is one step of `ShardMap` | refinement |
| `EventuallyFresh` | when moves end, the cache comes to agree with the table | liveness |
| `IndInv`, `EnsureInv` (of `ShardTables`) | the inductive invariants of the proofs: for all operations; while users only come | invariant |
| `UnlinkedAreGone` | a relation printed by `list-unlinked-vid` has a removed deployment, or one on a shard that was not in its list | invariant |
| `OnlyOwn` | a request starts, changes or deletes only what belongs to its user, whatever happens between check and use; excepted are an admin's message and a definition another request has put behind the vid since (below) | action |
| `AnswersShowOwn` | everything in an answer belongs to who asked, with the same exception | action |
| `OkMeansStopped` | a removal of running instances answered with 200 leaves none of them running | invariant |
| `EarlierOnesAreGone` | when a bulk deletion comes to an id, all ids before it are stopped | invariant |
| `ErasedLeavesNothing` | an instance erased from the history leaves no io variables and incidents nobody can find | action |
| `StartsBehindVid` | starting a vid starts the definition that is behind it at that moment, also while it is redeployed | action |
| `IndInv` (of `Instances`) | the inductive invariant of the proofs: every call that is left has its check behind it or before it, or is about a vid with something new behind it | invariant |
| `OkMeansErased` | a removal from the history answered with 200 has happened | invariant |
| `IndInv` (of `OpenidToken`) | the inductive invariant of the proofs: types, the mutex, and how far the fields of a mix can be apart | invariant |
| `CachedTokenLasts` | a token taken from the cache is good for `Margin`, although it may be a mix, unless another caller wrote while it was tested; in the client it can only be empty then | action |
| `EmptyOnlyWhenDisturbed` | a call returns an empty token without error, a cached or a new one, only if another caller has taken it away | invariant |

The exception of `OnlyOwn` and `AnswersShowOwn`. Nothing ties a vid to a user: a PUT takes any `userId` for any
vid (`controller.go:50`), and removes what another user has behind it. `GetDeployment`, `GetDefinitionByDeploymentVid`
and the call behind both (`camunda.go:430-497`) name no tenant, so all that keeps a request from the deployment of
another user is `CheckDeploymentAccess` before them, a call of its own. If the vid is redeployed for another user
between the two, that user's deployment is shown, or his definition started. `req.linked` remembers what was behind
vids when the request began. Ids are never put behind a vid again, so what a request finds there and is not in
`linked` was put there since (`PutBehindVid`); the properties say that this is the only way to what belongs to others.

`OkIsTrue` also says of the 200 of a DELETE that the process is gone; in the run `store` that clause is vacuous,
because its users move and `Together` is false. It rests on `AnswersAreTrue`.

## 4. Runs

| run | instance | shows |
|---|---|---|
| `MCDeployments_vids` | 2 vids, 2 dids, 1 shard, 2 requests, `database`, `crash`, cleanup | requests for two vids, or both for one: locks, transactions, what the cleanup removes; `IndInv` |
| `MCUnlinkedVids_unlinked` | 2 vids, 2 dids, 2 shards, 2 requests, `read`, `remap`, `list-unlinked-vid` | what `list-unlinked-vid` prints; requests for different vids do not touch each other's relations; `ScanInv` |
| `MCDeployments_serial` | 2 vids, 3 dids, 2 definitions, callers serial, `incident`, cleanup | no orphans, no dangling relations, handlers before relations; `CleanInv` |
| `MCDeployments_store` | 2 vids, 2 dids, 2 shards, callers serial, `engine`, `database`, `crash`, `remap` | refinement of `DeploymentStore`; answers are true; `SerialInv` |
| `MCDeployments_live` | 2 requests for one vid, `engine`, fairness | every request ends, deadlocks of transactions included |
| `MCDeployments_double` | 2 requests for one vid, no failure | **violated**: two deployments behind one vid |
| `MCDeployments_partial` | callers serial, `read` | **violated**: the cleanup lists a linked deployment |
| `MCShardTables_tables` | 2 users, 2 shards, 2 calls of any function, `Breaks`, fairness | registered shards, moves without a gap, refinement of `ShardMap`, stale entries of the cache go away |
| `MCShardTables_agree` | 4 users, 2 shards, 3 requests | concurrent requests of a new user agree; even assignment |
| `MCInstances_instances` | 2 users, one of them admin, 1 vid, 2 definitions (one of each user), 2 instances, lists of up to 2 ids | every request of both versions of the API, all failures and lost answers |
| `MCInstances_dismissed` | 1 instance | **violated**: a refused removal from the history is answered with 200 |
| `MCOpenidToken_token` | 2 callers, both kinds of token, access tokens of 5 units, refresh tokens of 6, buffer 3, timeout 2, 5 units of time | what is taken from the cache lasts, unless another caller wrote meanwhile; no empty tokens out of nothing |

Bounds. Two requests are enough for every conflict the code has: it relates a
request only to one other (a row both delete, a deployment one looked up and the
other replaces), and the third party - cleanup, late DELETE, crash - is there in
addition. Two dids give each request its own deployment; a third one allows a
deployment, its successor and an orphan at a time. The number of dids also bounds the
behaviours (ids never repeat), so no counter needs a bound. Two shards matter only
where users move (`store`) and where shards are read one after the other (`unlinked`): one can be
missing from the list, or be asked before a deployment appears on it and after one on the other has
gone. `unlinked` leaves `remove-pid` out, for with both tools and two shards it is too large;
`UnlinkedVidsAreSafe` is proved with it running. In `ShardTables` a conflict is between two
transactions over one user or one shard; the third request of `agree` waits behind two
that compete, four users make an imbalance beyond the bound of `Balanced` possible, and
the proofs hold for any number. In `Instances` two tenants make one who owns and one who does not; a vid
with a definition of either can be redeployed once, for the other user, under a running request (a redeployment
for the same user differs only in what the access properties do not see, and `StartsBehindVid` does not look at users);
two instances make a list whose first entry succeeds and whose second fails, in
either order. Two ids in a list are enough because a handler keeps nothing from one id to the next but an
error. In `OpenidToken` a race is between the write of one caller and the reads of another;
the clock reaches the end of the first token (5) and the time at which it has to be renewed (2), the tokens' time of life
is longer than twice the timeout as in Keycloak's settings, and the refresh token lives longer than the access token.
Symmetry is used in the runs
without fairness and without `CHOOSE` (the refinement mapping has one).

## 5. Fairness

`FairSpec` assumes of each handler
* weak fairness of its next call: `http.DefaultClient.Timeout` (30 s,
  `lib/configuration/config.go:141`) ends every HTTP call, Postgres every statement;
* strong fairness of `DeleteNextRow`: a row may be locked again and again by other
  transactions, but Postgres queues the waiting ones and serves them in turn;
* weak fairness of `DeadlockVictim`: Postgres aborts one of the transactions that wait
  for each other after `deadlock_timeout`.

`ShardTables` assumes weak fairness of the next step of each call, its timeout included
(the context of a transaction ends it at the latest), and of `Expire` (entries live 60 s,
`lib/lib.go:29`).

`Instances` and `OpenidToken` state no fairness: their properties are safety properties. That the requests end
there needs no argument beyond the timeout of each call, for a handler is a finite list of calls.

Nobody is obliged to send requests, to run the tools, or to let anything fail.

## 6. Proofs

`DeploymentsProofs` proves, for any number of request slots, vids, dids, users, shards
and definitions, and any set of failures:

* `TypeCorrect`: `Spec => []TypeOK`. One lemma per group of steps (`TypeHandle`,
  `TypeArrive`, `TypeCrash`, `TypeTool`), with `HandlerTypes` for what a step of a
  handler does to its local variables.
* `Invariance`: `Spec => []IndInv`. None of the safety properties is inductive alone.
  That a deployment has one vid (`Relations`) needs that nobody else's relation has
  the id a request is about to save (`NewIds`). That a request deletes relations of its
  own vid only needs that the id it looked up long ago still belongs to that vid
  (`OldIds`), hence that no request that is still to save a relation has that id. That
  a process is removed under the lock of its relation needs what a transaction holds
  after its first statement (`Transactions`). And that the cleanup takes orphans only
  needs that a deployment old enough has no request any more that could link it
  (`Scan`). `Moves(r)` says what all steps of a handler have in common; the lemmas
  `Keeps...` prove each part of the invariant from it once, and `OwnTransactionOf...`
  is what is left to prove action by action.
* From it `DeploymentIdsAreUnambiguous`, `CleanupIsSafe`, `TransactionsEnd`, and the
  action properties `OnlyOwnRelationsAreRemoved` and `ProcessesAreRemovedUnderLock`.
  `CleanupIsSafe` and `ProcessesAreRemovedUnderLock` assume `~May("read")`: the run
  `partial` shows that they are false otherwise.

`ShardTablesProofs` proves, for any number of users, shards and calls:

* `Invariance`: `Spec => []IndInv`. That users have registered shards
  (`MappedToRegistered`) needs what a transaction still relies on when it commits: an
  inserted row has its key and its shard to itself (`InsertIsSafe`), nobody keeps a row
  of a shard about to be deleted (`DropIsSafe`), and a DELETE statement only has rows of
  its own call that nobody else has deleted (`RowsAreOwn`). The steps that change no row
  are one case (`QuietStep`), a transaction that ends without effect another
  (`FailStep`); the rest is one lemma per statement.
* `UsersHaveRegisteredShards`; `Refinement`: `Spec => ImplementsShardMap`, where only
  `Commit` and `AddShard` are not stutters; and `UsersKeepTheirShard`, which follows from
  the steps of `ShardMap`.
* For `MCShardTables_agree` the invariant is `EnsureInv`. While nobody is moved, what a
  call has picked or the cache keeps is in the table (`Agreed`), hence `RequestsAgree`. While
  users only come, no shard is further ahead than there are calls, *with the users on their
  way to it* (`Even`): the count a call has read may be old by then, but only by what
  `Incoming` accounts for. `ShardsAreBalanced` is a consequence. It is about cardinalities, so
  `Users` and `Calls` are finite (`FiniteAssumption`).

`SerialProofs` builds on `IndInv` of `Deployments` in three layers, each an invariant of its own:

* `WorkInv`, whatever overlaps or fails. From the engine's answer to the INSERT until
  the relation is saved a request can rely on its deployment: nothing that can still take a
  deployment away - a removing request, a compensation, a DELETE that was given up, the
  operator's list - is for it (`Hits`, `LateDeletes`, `NewDeployments`). `HandlersComeFirst` follows,
  if users are not moved: the loop over the definitions asks the shard the user has *then*,
  and on another shard it finds no definitions, sets no handler and reports no error.
* `SerialInv`, for `Serial` callers and complete result sets. What a request knows of its
  vid stays the case until it changes it itself (`Alone`): nobody else is on its way for the
  vid (`OneAtATime`), and requests for other vids do not touch it, which is what `WorkInv` shows
  of their ids. From it `AnswersAreTrue` and `VidsHaveOneDeployment` (which the run
  `double` violates when callers overlap).
* `CleanInv`, when nothing fails but the incident API. Each state between two calls of a
  handler accounts for what it leaves behind (`NothingLeft`). From it `NoOrphansAreLeft` and `NoRelationsDangle`.
  They assume `Together` (one user or one shard, nobody moved): `RemoveProcess` asks the shard
  of the caller and takes a deployment it does not find there for removed.

`StoreProofs` proves `WrapperIsAStore`: `Spec => ImplementsStore` for serial callers and complete
result sets, while engine and database fail, the wrapper crashes and users are moved. A step
falls in one of five classes by what the mapping sees of it (`Kind`: `Takes`, `Bears`,
unlinking, linking, nothing); each class maps to one step of `DeploymentStore` or a stutter.
Behind a vid is a `CHOOSE` among running deployments; `OneDeploymentPerVid` makes it unique.

`UnlinkedVidsProofs`: `ScanOnlyReads` (`ScanSpec => Spec`) carries everything above over; `ScanInvariance`
proves `ScanInv` - a deployment of a relation that was read and not found yet is on a shard still
to be asked, or gone, or on a shard that was not in the list - and `UnlinkedVidsAreSafe` follows, whatever fails and
with `remove-pid` beside. The invariant needs that deployments do not change their shard.

`HandlersProofs` and `InstancesProofs` are about any users, admins, instances, definitions, vids and keys:

* `HandlersAreProper`: each sequence of calls `V2Endpoints` and `V1Endpoints` define has, before every call
  that reads or changes something of a tenant, a call that checks it and whose failure ends the
  request (`Grants`), deletes io variables and incidents of an instance before its history, and passes over
  no error of a stop (`Proper`). Setting a variable is one of the changes. Nothing says that an instance is
  stopped before it is erased; the engine refuses to erase one that runs. The lists are concatenations over any number of ids; their lemmas
  index into them and need no induction.
* `IndInvHolds`: what is left of these sequences keeps those facts while the engine changes under
  the request. `AccessInv` says of each call that is left that it is granted *already* or that
  a check for it is left, too: between the check and the use instances end, are erased, vids are
  redeployed, also for another user, and what was granted stays so because ids are not reused and an instance keeps its
  definition; what is about a vid stays granted, or the vid has a definition that is not in `linked` (`OwnOrNew`,
  `StillBehind`). `StopInv`
  and `ErasureInv` do the same for removals, `FoundInv` for the definition `StartDeployment` has found.
* From it all properties the run `instances` checks: `OkMeansStoppedHolds`, `EarlierOnesAreGoneHolds`,
  `OnlyOwnHolds`, `AnswersShowOwnHolds`, `ErasedLeavesNothingHolds`, `StartsBehindVidHolds`, `TypesHold`.

`OpenidTokenProofs` is about any number of callers and any times with `TimesAssumption` (the timeout
of a request is shorter than the buffer and than the life of a token: 5 s, 10 s, and at least minutes):

* `TokenInvariance`: no time passes while somebody writes, so all tokens being written were issued
  within the last `Timeout` (`JustIssued`), and a mix of two of them is off by that much at most:
  `CacheInv`. With the mutex a mix can only be of one token and of resets, so its fields agree or it is
  empty. Steps that leave the shared token alone are reduced to what they do to
  their own caller (`QuietStep`); `FieldIsWritten` is the one that does not.
* `CacheReadInv` says what the fields a caller has read still tell of the token: everything, if nobody wrote
  since; and in the client, where only a reset can come between, that the token is what it was, or empty.
* `CachedTokensLast` and `EmptyTokensAreTakenAway` follow from them.

Assumptions besides those named: constants that stand for "none" are no members of the sets they
are used with (`NoneAssumption`, `StatesAreNotShards`, `NoShardAssumption`, and part of `InstanceAssumption`,
which also has the finite sets of vids and instances, the tenant of each definition, and that admins are
users), and `OperationsAssumption`. The typing of `Serial`, `Faults` and `Cleaning` is stated but not needed.

Only model-checked: `EveryRequestEnds` and `EventuallyFresh`, for liveness under fairness is out of the prover's
reach. The runs that expect a violation are counterexamples, which are TLC's as well. Every safety
property a passing run checks is proved, and so are both refinements.

## 7. Findings

* **`double`** - `controller.go:71` looks for an existing deployment of the vid,
  `controller.go:111` saves the new one, and nothing connects the two. Two overlapping
  PUTs leave two relations and two running processes; a later DELETE removes both
  relations and one process.
* **`partial`** - `vid.go:155`: a result set that breaks off is taken for all
  relations, and the cleanup lists running, linked deployments.
* **`dismissed`** - `controller.go:170`: when the engine refuses to erase a historic instance, or
  process-io to delete its variables, the error is returned with the code of the deletion of
  the incidents before it, 200, and `http.Error` answers with that. `v2endpoints.go:636`
  documents 500.

Met while modelling, but contradicting nothing the repository says: `CheckProcessInstanceAccess`
returns the code 0 when the engine cannot be reached, at which `http.Error` panics
(`"no answer"` in `CamundaCalls`); `DeploymentExists` answers with an error for a
deployment the engine has lost; diagrams are passed on with status 200 whatever the engine
answers; the two writes without a lock in `EnsureAccess` may combine the access token of one
answer with the request time of another (`Margin` is shorter by the timeout there); a reset of the
client's token, after `Unlock`, can come between the test and the use of the cached one, and that call returns an
empty token without an error (`client/auth.go:40`, `UseCached`); a vid that is redeployed for another user
between `CheckDeploymentAccess` and the next call lets the request start or see his deployment (section 3); a
shard that is added to the list, or taken from it with deployments on it, has `list-unlinked-vid` print vids of running
deployments (`ReadShards`); the
timeout of a notification has no effect (`notification.go:47`).

## 8. Not modelled, and the plan

Not modelled:

* `lib/controller/bpmn.go` and `etree`: text in, text out, without state. `etree` is a copy of a
  third-party library. What the deployment needs of them - that they may fail - is in `Controller`.
* `api.go`, `lib.go`, `cors.go`, `swagger.go`, `main.go`: start-up and middleware. `remove-vid` belongs
  here: it sends an empty user id, and what becomes of the path is decided by `http.ServeMux`.
* `lib/shardmigration`: how the tenants of an engine are read, page by page. Its effects on the
  tables are in `ShardTables`.
* `lib/notification`: fire and forget. `lib/client/client.go`: an HTTP client without state.
* models, configuration, metrics, generated API documentation, the mock servers of the tests.

Planned, in this order:

1. Composition of `ShardTables` with `Deployments` in place of `Remap`, from which `~May("remap")` in
   `HandlersComeFirst` and `Together` could be stated as what the tools do.
2. What a failure leaves behind when `Faults` has more than the incident API, as a property: every orphan
   ages, and `remove-pid` ends it.
3. `remove-vid` with the path handling of the router; reading of tenants page by page.
