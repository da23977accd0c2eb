# Verification of the multi-file collaboration server

This directory holds TLA+ models of the server, configurations that TLC checks
on small instances, and proofs that TLAPS checks for all values of the
constants. Paths below are relative to the repository root.

## 1. The system

The server is one Node process. Handlers are interleaved at every `await`;
between two awaits a handler runs alone. It keeps state in its own memory,
in Redis and in Postgres, and calls Clerk for user records and OpenAI for
the assistant's replies.

| component | code | state | operations |
|---|---|---|---|
| presence | `src/services/socket.ts`, `src/controllers/ws/room.ts`, `src/middleware/ws/room.ts`, `src/services/redis/kvStore.ts` | socket.io rooms, `socket:user:<u>`, `socket:room:<r>:users` | connect, `event:join-room`, disconnect |
| editing in a room | the same handlers, `src/controllers/http/room.ts` | what is on its way to each client; the rows of the file | `event:message`, `event:visible-files`, `event:chat-message`, `event:propagate-room-state`, fetchLatestRoomFilesState, saveShard on a room |
| cache service | `src/services/redis/cache/cache.ts`, `circuitBreaker.ts` | Redis keys; breaker state, failure count, time of the last failure | get, set, del, keys, each through the breaker |
| dead letter queue | `src/repositories/cache/index.ts` | `events`, in memory | addToDeadLetterQueue, processDLQ |
| comments | `src/controllers/http/shard.ts`, `comment.ts`, `src/repositories/*/usecases` | rows in Postgres, pages in Redis | getComments, addComment, editComment, deleteComment |
| assistant, room list | `src/controllers/http/shard.ts`, `room.ts` | replies and room lists in Redis | handleAssistantLogic, fetchAllRooms |
| files of a shard | `src/controllers/http/shard.ts` (saveShard), `src/services/socket.ts` (`event:propagate-room-state`), `src/repositories/db/usecases/shard.ts` | table `files` | save, propagate, delete, create from template |
| room members | `src/controllers/http/room.ts`, `src/repositories/db/usecases/shard.ts` | table `room_members` | invite, fetch, delete |
| Clerk user cache | `src/services/clerk.ts` | a map that is never invalidated | getClerkUser, getClerkUserByPrimaryEmail |
| accounts | `src/controllers/http/user.ts`, `src/repositories/db/usecases/user.ts` | tables `users`, `followers` | onboard, follow, unfollow |
| assignments | `src/routes/v1/assignments.ts`, `src/repositories/db/usecases/assignment.ts` | tables `assignments`, `submissions` | create, submit, delete |
| shards | `src/controllers/http/shard.ts`, `room.ts`, `src/repositories/db/usecases/shard.ts` | tables `shards`, `likes` | create, patch, delete, like, dislike |
| editor state and flush queue | `src/services/redis/editorStateManager.ts`, `queue.ts` | Redis hash and sorted set, BullMQ queue | none in this commit: nothing creates either class |
| the rest | routes, HTTP middleware, templates, configuration, logging, metrics, deployment | none that matters | |

What makes it hard: every handler of a socket or request waits for Redis,
Postgres or Clerk several times and acts on what it read before; two stores
are written without a transaction between them; checks and inserts are separate
commands and few tables have a constraint; errors of Redis are turned into
`null`, `0` or `[]`, which callers take for data; the process may exit between
two commands; and the breaker counts failures of unrelated requests.

What makes each part correct:

- presence: whoever receives the messages of a room is listed in it, and the
  key of a user names a room that lists the user;
- editing: concurrent edits end the same on every screen, and the rows are what
  the members see once the latest code has been saved by itself, until the next
  save;
- breaker: closed while fewer failures than the threshold are counted, and
  closed again after the cache has recovered;
- queue: one run at a time, and emptied only when all listed keys were deleted;
- comments: a stale page is temporary, and some mechanism is responsible for it;
- assistant: a reply is about the files the request has read; every request is
  answered, with or without a cache;
- files: one row per name that a body names once, and a save that is answered OK
  is stored;
- members: capacity, one row per user, one owner; nobody is invited by, or shown
  with, an address that was never theirs;
- accounts, assignments, shards: what racing requests add does not pile up, only
  requests under way at the deadline submit late, and titles come from the owner.

## 2. Modules

| module | models | composed of |
|---|---|---|
| `RoomPresence` | the three presence handlers, their Redis commands, faults, restart | |
| `RoomPresenceProps` | properties of the above and the refinement mapping | `RoomPresence`, `PresenceDirectory` |
| `PresenceDirectory` | abstract specification: subscribed users and listed users | |
| `RoomEditing` | relayed events, connections, screens, the saved rows and who writes them | |
| `CircuitBreaker` | `execute()` of concurrent operations; abstract with respect to its clients | |
| `Assistant` | questions to the assistant and room lists, as clients of the breaker | `CircuitBreaker` |
| `DeadLetterQueue` | `addToDeadLetterQueue`, `processDLQ` | |
| `CommentCache` | comment requests with cache, breaker and queue; deletion of a shard, exit of the process | `CircuitBreaker`, `DeadLetterQueue` |
| `RoomMembers` | `inviteToRoom` of the repository, deletion of the room | |
| `MemberDirectory` | the room requests of the controller with the Clerk user cache | `RoomMembers` |
| `ShardFiles` | `saveShard`, propagation, deletion, with transactions and row locks | |
| `Database` | tables, foreign keys, requests between two commands | |
| `Accounts`, `Assignments`, `ShardTable` | the requests on those tables | `Database` |
| `Records` | all of them on one database | the three above |
| `MC*` | instances for TLC | |
| `*Proofs` | theorems and proofs | |

Correspondence with the code:

- `RoomPresence`. `sioRooms` is socket.io's table, `userRoom` and `roomUsers`
  the two kinds of Redis keys. A slot of `Tasks` is a handler that awaits
  something; `pc` names the place. `JoinRead`, `JoinSkip`, `JoinAdmit` and
  `JoinAdd` are joinRoom cut at its awaits (GET; early return; `socket.join`
  and SET; SADD); `DropListed`, `LeaveRemove` and `LeaveForget` are the
  disconnect listener (GET; getClerkUser and SREM; DEL). `Get`, `Set`, `Del`,
  `SAdd` and `SRem` are the commands of KVService; their parameter `ok` tells
  whether Redis answers. `Restart` is gracefulShutdown or a crash. Two history
  variables exist for the properties: `torn` has the users whose second paired
  command was lost, `crowded` those who have had two sessions at a time.
- `RoomEditing`. A connection is two queues. `Relay` is the three relaying
  handlers (`io.to(roomId).emit`, `Deliver`). Two handlers write the rows of the
  file: propagateRoomStateHandler (`BeginWrite`) and saveShard, which
  `PUT /shards/:id` runs for rooms as for other shards, with any code (`SaveOver`
  where it found another code, `SaveAgain` where it inserts since getFiles failed).
  `CommitWrite`, `CommitInsert` and `FailWrite` are the ends of updateFiles and
  insertFiles; saveShard at the level of its commands is `ShardFiles`. `Load` is
  fetchLatestRoomFilesState, `AnnounceLeft` the notice of the disconnect
  listener. The editor in the browser is not in this repository: `Send`, `Save`
  and `Receive` are marked external.
- `CircuitBreaker`. `lastFailureTime` is abstracted to `quiet`: whether the
  timeout has passed since. Operations in flight settle in any order.
- `Assistant`. `Ask` is getFiles, `Get`, `Fetch` and `Answer` are
  getResponseFromOpenAI cut at its awaits; a key of the cache is the pair that
  the hash stands for. `ListRooms` is fetchAllRooms: it uses the breaker, and
  what it stores is read by no handler.
- `DeadLetterQueue`. Each append and each awaited command of a run is a step.
  No caller appends an item of type `key`, so only patterns are modelled.
- `CommentCache`. Rows are a version number; a page in the cache is the version
  it was read at. Every Redis command goes through the breaker of
  `CircuitBreaker`, and a failed invalidation appends to the queue of
  `DeadLetterQueue`. `cache.ts` issues the command *before* it asks the
  breaker, so a refused command still takes effect. `Edit` is editComment and
  deleteComment: the pages to remove are those of a shard number in the body,
  which need not be the shard of the comment (`Elsewhere`). `Delete` is
  deleteShardById as far as comments go: the database drops them, and nobody drops
  the pages. `Restart` is the exit of the process and its next start: the requests
  in progress, the queue and the state of the breaker are gone, Redis and Postgres
  are as they were.
- `RoomMembers`. `Invite`, `CheckMember`, `CheckRoom` and `Insert` are the four
  commands of inviteToRoom. The table has no constraint on room and user; the
  foreign keys are why `Insert` needs the room and the account.
- `MemberDirectory`. `byEmail` and `byId` are the one map of clerk.ts under its
  two kinds of keys. `Ask` and `Found` put the lookup in front of `RoomMembers`;
  `FetchMembers`, `Answer` and `Respond` are fetchRoomMembers, whose lookups run
  at the same time. `Depart` is the lookup of the disconnect listener, which fills
  the same map; the rest of that listener is in `RoomPresence`.
- `ShardFiles`. `files[n]` has the rows of name `n`: nothing makes a name
  unique, in the table or in a body, for validateSaveShardRequestBody looks at each
  file by itself. A body is a list of contents for each name: the files of one name
  are written in the order of the body, files of different names in any order.
  `Save` is getFiles and the comparison of each entry with the first row of its
  name, `UpdateRows`, `Commit` and `Rollback` the transaction of updateFiles,
  `Insert` the one INSERT. Row locks and the abort of deadlocked transactions are
  Postgres and marked external.
- `Database` has a point in `pc` for every command that a request has still to
  issue. `Accounts` and `Assignments` look first and write in a second command
  (`Follow` and `InsertFollower`; `Submit`, `FindExisting` and
  `InsertSubmission`). The requests of `ShardTable` are one command each; `Patch`
  writes every shard of the sender, as `ShardRepository.patch` does.

History variables (`stale`, `crossed`, `doubled`, `leaked`, `latest`, `trusted`,
`settled`, `had`, `sent`) record for the properties what happened; no action
reads one except to update history.

## 3. Runs

| run | instance | checks | shows |
|---|---|---|---|
| `presence` | 1 user with 2 sockets, 3 handlers, 2 rooms, all faults and restarts | `TypeOK`, `IndexBacked`, `SubscribedIsListed` | the index and the subscriptions agree, except for the named users |
| `presence_directory` | 2 users, 3 sockets, patient clients | `DirectoryImplemented`, `DirectoryFollows` | the handlers implement the abstract directory: its steps, and that the index follows |
| `presence_join` | 1 user | `JoinMeansSubscribed` | violated: a join can return without subscribing |
| `editing` | 2 clients, 2 writers, 2 codes, 1 line, 3 events, saves or deletions | `TypeOK`, `Agreement`, `RowAgrees`, `Settles` | screens agree in the end; when the rows are what they show |
| `assistant` | 2 requests, 2 contents, 1 question, threshold 5 | `AssistantTypeOK`, `TripConsistent`, `AnswerFits`, `Answered`, `RecoversInUse` | replies fit, requests end, the breaker is consistent and closes again |
| `dlq` | 2 handlers, 2 shards, 2 pages, limit 2, 3 attempts, 3 events | `TypeOK`, `OneRun`, `ClearExact`, `RunEnds` | one run at a time; emptied only for a full deletion; runs end |
| `cache` | 2 handlers, 1 shard and a wrong number, 1 page, threshold 2, limit 2, 2 attempts, 3 events, 3 versions, deletion and restart | `TypeOK`, `StaleExplained`, `EventuallyFresh` | who is responsible for a stale page; expiry clears the rest |
| `cache_race` | healthy Redis, threshold 5, limit 3 | `InvalidateAll` | violated: a reader stores old rows after the invalidation |
| `cache_trip` | healthy Redis, one request at a time | `StableStaysClosed` | violated: DEL without keys opens the circuit |
| `room_members` | 2 people, 2 addresses, 2 invitations, 1 reader, capacity 2 | `TypeOK`, `DirectoryTypeOK`, `RoomLimits`, `OverfullBound`, `OnceTrue` | the limits hold unless a stale request inserted; remembered addresses were once true |
| `shard_files` | 2 files, 2 contents, 2 requests, one of the bodies with a repeated name, at most 2 rows per name | `TypeOK`, `UniqueNames`, `SavedIsStored`, `NobodyStuck`, `RequestsEnd` | duplicates come only from stale requests and repeated names, lost saves only from stale requests; nobody waits for an answered request; requests end |
| `records` | 2 people, 2 shards, 1 assignment, 2 requests, 3 rows | `TypeOK`, `PairBound`, `SubmissionBound`, `LateBound`, `TitleFromOwner` | rows of a pair or a submission do not pile up, late submissions are few, titles are the owner's |

Bounds.

- `presence`: two sockets of one user are two tabs, or the sockets before and
  after a reconnection; three handlers let a join and a leave of one tab meet a
  handler of the other. Handlers of different users touch only a shared set,
  with commutative commands, so one user is enough under faults.
- `editing`: `MaxSends` bounds the events of clients, their saves and deletions of
  the shard, and the notices. Three are two concurrent edits and a save, an edit
  and two saves that overtake each other, or an edit, its save and a saveShard of
  other code after it; two writers let transactions overtake.
- `assistant`: the threshold is that of the code. Two requests have a late
  settlement of one while the other finds the circuit open or half open.
- `dlq`: the limit of 2 is reached by two appends, and a third makes an append
  during a run.
- `cache`: `MaxVersion` bounds the writes, and `MaxEvents` bounds the removals
  that may end in the queue. Three versions (0 to 2) are what it takes for a page
  to be stale twice; deletion comes on top. Three events for an append beyond
  the limit. One page per shard is enough for staleness; several are in `dlq`.
  `MaxEvents` is at least the limit in every run (`ServiceAssumption`), so that
  the queue can be processed.
- `room_members`: capacity 2 instead of 5, with two requests that can both pass
  the check at 1. Two people and two addresses exchange addresses;
  `MaxAddresses` bounds how often. With as many people as places the capacity
  follows from one row per person while nobody is stale, so in this run
  `OverfullBound` exercises it, and `RoomLimitsHold` proves it for any number of
  people. That requests for people without an account fail is in the guard of
  `Insert` and the proofs.
- `shard_files`: two files of each save are the least for two transactions to
  wait for each other; `MaxRows` stops further duplicates of one name.
- `records`: `Ids` bounds the rows of all tables together; three allow two rows
  by racing requests and one more. Permutations of people, shards, numbers and
  requests are symmetries: no property of that run is temporal.

None of the proofs uses these bounds, except `MaxRows`, `MaxSends`,
`MaxAddresses` and `Ids`, which are constants of the models with no upper limit.

Deadlock is checked in every run. The largest are `room_members` (5.8 million
states), `editing` (1.5 million), `records` (1.2 million) and `cache` (0.7
million); each takes two to three minutes.

Fairness. Node runs every ready continuation, and an awaited command is
answered or fails: weak fairness of a handler's next step.

- `editing` (`Delivery`): connections deliver and the database answers; nobody
  has to send, stay or reconnect.
- `assistant` (`AssistantUsage`): the clock runs, a request goes on, and people
  ask again and again while there are files. The last is needed because a
  half-open circuit closes only when somebody uses it; strong fairness, because
  files may come and go. `Answered` does not depend on it.
- `cache` (`Service`): keys expire. `EventuallyFresh` has the premise that
  writes and query failures stop.
- `shard_files`: strong fairness of `UpdateRows` is the queue of Postgres row
  locks, which are granted in turn; weak fairness of `AbortDeadlocked` is its
  deadlock detection.

`maxRetriesPerRequest: null` (`src/services/redis/redisManager.ts:20`) lets a
command wait as long as Redis is unreachable: while that lasts the assumption
that it is answered or fails is not met, and requests that await the cache do
not end.

## 4. Disagreements between code and documentation

Three runs expect a violation; each quotes its line in `PROJECT.json`.

- `presence_join`: joinRoom returns early when the key already names the room
  (`src/controllers/ws/room.ts:17`), though the key may stem from another
  socket, and the socket is then not in the room.
- `cache_race`: getComments stores what it read before a concurrent write.
- `cache_trip`: an invalidation that finds no page sends DEL without keys,
  which counts as a failure; five open the circuit of a healthy cache.

Observed while modelling, and not stated as runs:

- A disconnect during a join, or a switch of rooms (`src/controllers/ws/room.ts:24`),
  leaves the user in the set of a room that nobody is subscribed to.
- The disconnect listener deletes the key whatever room it names by then
  (`src/services/socket.ts:174`): after a switch in another tab the second room
  lists a user without a key. So does a join whose SET failed, since `set()` turns
  the error into `null` (`src/services/redis/kvStore.ts:33`), and no disconnect
  finds the room. No line promises a key for everybody listed, and no property
  claims it.
- deleteShardById leaves the cached comment pages: the calls that would remove
  them are commented out. The exit of the process forgets the removals that wait.
- Two queued events of one shard list its keys twice; DEL counts them once, so
  the run fails although everything was deleted.
- When KEYS fails the listing is empty, `0 = 0` counts as success, and both
  removeCommentPages and processDLQ report that nothing is left.
- A failed query for comments returns `[]` and is cached as an empty page.
- The pages that editComment and deleteComment remove are those of a shard
  number that the client sends.
- The key of a comment page lacks the limit: clients that use different limits
  read each other's pages.
- `src/repositories/cache/usecases/shard.ts:16` gives a time to live of 60000
  with the comment "1min"; EX counts seconds.
- saveShard with an empty list for an empty shard fails: an INSERT needs a row.
- A failed getFiles returns `[]`, and saveShard inserts every file again.
- A body of saveShard may name a file twice. A new file then gets two rows; of an
  old one each entry is compared with the row as it was read, so of two contents
  the first is stored if the second is the old one.
- saveShard on a room changes the rows and tells nobody in the room: screens and
  rows differ until the next save.
- `UserRepository.follow` looks for any row of the follower, not of the pair
  (`src/repositories/db/usecases/user.ts:71`): who follows somebody is told to
  follow everybody, without a row, unless requests race. `PairBound` speaks of the
  pair, and a check of the pair would satisfy it as well.
- `ShardRepository.patch` updates all shards of the user.
- `DELETE /assignments/:id` reads `req.user`, which no middleware of the route
  sets: it always answers 500.
- The README says that edits are flushed from Redis by a BullMQ job
  (`README.md:15`); nothing in this commit creates the queue, and edits reach the
  database only through `event:propagate-room-state` and saveShard.

## 5. Proofs

TLAPS proves, for all values of the constants that meet the named assumptions:

| module | theorems |
|---|---|
| `RoomPresenceProofs` | `TypeCorrect`, `IndexBackedHolds`, `SubscribedIsListedHolds`, `DirectoryImplementedHolds` |
| `RoomEditingProofs` | `TypeCorrect`, `AgreementHolds`, `RowAgreesHolds` |
| `CircuitBreakerProofs` | `TypeCorrect`, `TripConsistentHolds`, `AssistantTypeCorrect`, `AnswerFitsHolds`, `AssistantUsesBreaker`, `AnswersAreBounded` |
| `DeadLetterQueueProofs` | `TypeCorrect`, `OneRunHolds`, `ClearExactHolds`, `RunsAreBounded` |
| `CommentCacheProofs` | `TypeCorrect`, `StaleExplainedHolds`, `CacheUsesBreaker`, `CacheTripConsistent`, `CacheUsesQueue`, `OneRequestProcesses`, `CacheClearsExactly` |
| `RoomMembersProofs` | `TypeCorrect`, `RoomLimitsHold`, `OverfullBoundHolds`, `DirectoryTypeCorrect`, `DirectoryUsesMembers`, `OnceTrueHolds` |
| `ShardFilesProofs` | `TypeCorrect`, `UniqueNamesHold`, `SavedIsStoredHolds`, `NobodyStuckHolds`, `RequestsAreBounded` |
| `RecordsProofs` | `TypeCorrect`, `PairBoundHolds`, `SubmissionBoundHolds`, `LateBoundHolds`, `TitleFromOwnerHolds` |

The arguments:

- `IndexBacked` is inductive with the type invariant: SET precedes SADD and
  SREM precedes DEL, so a key without its member always has a handler between
  the two commands, or a user in `torn`.
- `SubscribedIsListed` needs more: for a user never in `crowded` at most one
  socket is open, and a handler that leaves works for a closed socket while no
  other socket of the user is open. Without it, a late SREM could remove a user
  whom a new session has added.
- `DirectoryImplemented` is proved of the specification the run checks: clients
  that have one session and wait for an answer before they act again, and no
  faults. Two facts beyond the types are inductive with it (`PatientInv`): one
  handler of a user waits at a time, and a subscribed socket is in the one room
  that the key of its user names, which is absent while a join waits for it.
  With these every `sioRooms` change is a `Subscribe` or `Unsubscribe`, SADD a
  `Publish` and SREM a `Retract`, and every other command a stutter.
- `Agreement`: the last event of a kind in the inbox of a member is the last
  that was relayed of that kind; when none is left, a screen that has heard one
  shows it, unless its own edit is on the way to the server. `RowAgrees` follows
  with an invariant on the lone writer (`trusted`): it updates and does not insert,
  it carries what was relayed last, and nobody else writes. Whoever begins to write
  after it, saveShard included, ends `settled`, so nothing is claimed until the
  next lone update.
- `TripConsistent` is inductive with types. `AssistantUsesBreaker` says that the
  assistant and the room lists are clients of the breaker's specification, so it
  holds of them too. `AnswerFits` needs that every entry fits its key and that no
  request keeps a reply beyond its answer. `AnswersAreBounded` counts the steps
  that a request has left, at most five; an open circuit refuses and does not
  make anybody wait, so what `Answered` needs besides is weak fairness.
- `OneRun` needs that a run begins only at an append that makes the length
  exactly the limit, that the length does not shrink during a run, and where in
  its loop a run is.
- `ClearExact` compares the number of keys that Redis reports deleted with the
  length of the list that was sent; the library's theorems on surjections and
  cardinalities turn equality of the counts into "every key, and none twice".
- `RunsAreBounded` counts the steps a run has left: three for each attempt and
  one for each pattern it has not looked up (localCache never forgets, so a
  pattern costs one step in the whole run). Each step takes exactly one away,
  no other request gives one back, and in each state of a run the next command
  is there to be issued. What `RunEnds` needs besides is weak fairness.
- `StaleExplained` is proved with types that are inductive only together with
  `Reading`: a request that reads names a shard of the database, and what it is
  about to store is not the `null` of a miss. The argument goes by what a step
  may do to the explanation of a page: a write makes pages stale and is at
  `committed` for them; the request's own steps turn that into a listing, a
  removal or an event of the queue. A step of another request takes an
  explanation away only when it clears the queue or gives it up, and leaves an old
  page only when it stores rows read earlier. These, and the other places that the
  comment of `StaleExplained` lists, eight in all, record the page as leaked: a
  listing that is not answered, a wrong shard number, an event past the limit, the
  deletion of the shard, and the exit of the process.
- `CacheUsesBreaker` and `CacheUsesQueue` map each step of the comment requests
  to a step of `CircuitBreaker` and of `DeadLetterQueue`, or a stutter. The
  theorems on the queue are then used by instantiation: at most one request
  processes it, and it is emptied only for a full deletion, in the composition
  as well. For one DEL of all pages of a shard to be a step of the queue's
  surroundings, `Vanish` takes a set of keys; a restart is a step of both.
- `RoomLimits` needs what a request that nobody overtook knows: after
  `CheckMember` its user is not a member, after `CheckRoom` the room is not
  full and has no second owner.
- `OverfullBound` counts: rows beyond the capacity, plus requests past the
  check, are bounded by the number of requests.
- `DirectoryUsesMembers` maps each step of the controller to a step of
  `RoomMembers` or a stutter, so the limits hold of the composed requests.
  `OnceTrue` follows from the same statement about the map.
- `UniqueNames` and `SavedIsStored` share an invariant (`Informed`): for a
  request that nobody overtook, a file to insert is absent, and any other file
  of the body has one row which the request has still to update, has written in
  its open transaction, or which holds one of the contents already. Whoever changes
  rows makes all others stale, so only its own knowledge has to be shown anew. A
  request that inserts a name twice is recorded as stale ones are (`doubled`).
- `NobodyStuck`: rows are locked by open transactions only (`Orderly`), so among
  those whom a transaction waits for, directly or not, either one does not wait or
  each waits for another of them, which the database breaks.
  `RequestsAreBounded` counts the commands a request has left: the files still to
  be updated, and COMMIT, INSERT and the answer. Together they are what
  `RequestsEnd` needs besides fairness.
- `PairBound`, `SubmissionBound` and `LateBound` count the rows in question and
  the requests that have passed the check and not yet inserted: a request passes
  only when there are no rows, so the sum never exceeds the number of requests.

Only model-checked: liveness (`Settles`, `Answered`, `RecoversInUse`, `RunEnds`,
`EventuallyFresh`, `RequestsEnd`, `DirectoryFollows`), for which ENABLED and
fairness would have to be reasoned about, beyond this prover. For `RunEnds`,
`RequestsEnd` and `Answered` the parts without fairness are proved, as said above. Every
invariant, the action property `ClearExact` and the refinement that a passing
run checks is a theorem. The assumptions are the named ones of the modules:
that constants which stand for "nothing" are none of the values, that bounds are
natural numbers and the limits positive, and that shards, pages and the bodies
of requests are finite.

## 6. Not modelled

- The editor state manager and its flush queue. Nothing in this commit creates
  either (`src/controllers/ws/room.ts:48` and `:59` are commented out, and so is
  `startPeriodicFlush` in `editorStateManager.ts:27`): a model would have no
  behaviour of the program to be faithful to. Redis pub/sub likewise.
- Reads whose result nobody keeps: lists and details of shards, profiles,
  assignments, submissions, active members. Reads that a handler acts on, or
  that fill a cache, are modelled.
- Replies to comments: no handler calls the repository.
- The list that fetchAllRooms stores: no handler reads it.
- Validators, ids and pagination, which look at the request only; templates,
  configuration, logging, metrics, deployment.
- The failure of authMiddleware's own query: the rejection is not caught and the
  request is never answered; no state changes.
- What an assignment's creator may see, and what is submitted: unchecked text.

## 7. Plan

Done, in this order: presence (the program's purpose), breaker, queue, comments
as their composition; the database components whose requests race; editing;
accounts, assignments and shards on one database; the assistant and the room
lists as clients of the breaker; the controller of the members with the Clerk
user cache; then the proofs of all their invariants, of the comment pages as
clients of breaker and queue, of the abstract directory, and of the bounds
behind three of the liveness properties. What is left:

1. `RoomEditing`: that what a row holds was relayed or saved by somebody, which
   needs a history of the sent events.
2. The steps that a comment request has left, the part of `EventuallyFresh` that
   needs no fairness.
