# TLA+ models of VideoLibrary

VideoLibrary is a Go backend that serves a list of videos from PostgreSQL, with
the list cached in Redis. A view of a video is counted in a transaction that also
inserts an outbox event. After the commit the request invalidates the cached list
itself, and a background worker repeats the invalidation from the outbox in case
the request could not. What is hard in this program is the
agreement between these three places, so most of the models here are about that; the
rest are about what surrounds it: the transaction itself, the rate limiter before it, and how a
process is configured, started and stopped.

Paths below are relative to `src/backend/` unless they start with `src/`.

## Inventory

| Component | State | Operations | Interacts with |
|---|---|---|---|
| Redis list cache `internal/repo/redis/cache.go` | keys `videos:list` and `videos:list:version`; a singleflight group per process | `GetOrLoadVideos`, `Del` | called by the use cases and the worker; calls the loader it is given |
| Video use cases `internal/usecase/video.go` | a second singleflight group, `listGroup` | `ListVideos`, `GetVideo`, `IncrementViews` | cache, repository |
| Video repository `internal/repo/persistent/video.go`, `query/video.sql` | table `videos` | list, get, increment (a transaction with an outbox insert) | PostgreSQL |
| Outbox table `query/outbox.sql`, `internal/repo/persistent/outbox.go` | rows with `processed_at`, `failed_at`, `locked_until`, `attempts` | insert, claim, mark processed, mark failed, release | filled by the increment, drained by workers |
| Outbox worker `internal/app/outbox.go` | the batch it has claimed | `Run`, `ProcessBatch`, `processEvent`, `releaseOrFail` | outbox table, cache `Del` |
| Rate limiter `internal/controller/restapi/middleware/rate_limit.go` | a table of windows | `allow`, `cleanupExpired` | in front of the view handler |
| Lifecycle `internal/app/app.go`, `http.go`, `cmd/app/main.go` | errgroup, contexts | `New`, `Run`, `Close`, graceful shutdown | everything |
| Requests about one video `internal/controller/restapi/v1/video.go`, `internal/openapi/server.gen.go`, `pgxpool` | the pool's connections, PostgreSQL's row locks, open transactions | `GET /api/videos/{id}`, `POST /api/videos/{id}/view` | rate limiter, repository |
| Configuration `config/config.go`, `internal/app/logger.go` | the environment of a process | `Load`, `NewLogger`, `NewVideoService` | decides whether a process starts |
| Other middlewares, health handlers, connectors, migrations, the generated client, deployment | none of their own at run time | | |

What makes each one correct:

* **Cache.** A list that predates an invalidation does not come back into the key
  after it, whichever process loaded it and however late its commands run. A call
  made after `Del` returned does not get a list older than that `Del`. Every
  call returns, also those that wait for another caller's load.
* **Use cases.** An answered view is not hidden by the cache, and a process has one
  load of the list under way at a time. Every request is answered.
* **Outbox.** An event is marked processed only if its invalidation ran. A
  known event is given up on only after the promised number of attempts, and not
  tried many times more. Every event is settled in the end, and a worker stops
  when told to.
* **The two together.** A committed view that the cache hides is still somebody's to make up for,
  whoever died or was late, and so it is shown in the end.
* **Requests about one video.** Each committed view is counted once, with one event; answers come in the
  order of the requests; a refused request has no effect; connections and row locks come free on every path.
* **Lifecycle.** Nothing is used after it is closed, a signal or a failed server ends the whole process, and
  exit code 0 means an orderly end.
* **Configuration.** What the load accepts can be used, and no constructor behind it disagrees; the errors of the
  load lead to an environment it accepts.
* **Rate limiter.** A client is admitted its 60 requests a minute and not more on average, although
  requests reach the table in another order than they read the clock; it is refused only for a reason
  that ends, and a full table is cleared of what has ended and of nothing else.

`PROJECT.json` lists the hazards behind these properties at their lines.

## Modules

| Module | Models | Extends |
|---|---|---|
| `CachePromise` | abstract specification: what the users of `repo.Cache` (`internal/repo/contract.go`) may rely on | |
| `ListCache` | `redis/cache.go`, one step per Redis command | |
| `VideoService` | `usecase/video.go` and the increment's commit | `ListCache` |
| `EventDelivery` | abstract specification: what whoever writes an outbox event may rely on | |
| `Outbox` | `app/outbox.go`, the statements of `query/outbox.sql` | |
| `VideoLibrary` | the use cases and the attempts of the outbox workers over one cache, as `App.New` wires them | `VideoService` |
| `ViewCounter` | abstract specification: what the API promises of the views of a video | |
| `VideoTx` | the two routes of one video, `persistent/video.go`, its statements, the pool and the row lock | |
| `RateLimiter` | `controller/restapi/middleware/rate_limit.go` | |
| `AppLifecycle` | `app/app.go`, `app/http.go`, `cmd/app/main.go` | |
| `Settings` | `config/config.go`, the checks of `NewLogger` and `NewVideoService` | |
| `ListCacheProofs`, `VideoServiceProofs`, `OutboxProofs`, `VideoLibraryProofs`, `VideoTxProofs`, `RateLimiterProofs`, `AppLifecycleProofs`, `SettingsProofs` | theorems and proofs | the module they are about |
| `MCListCache`, `MCVideoService`, `MCOutbox`, `MCVideoLibrary`, `MCVideoTx`, `MCRateLimiter`, `MCAppLifecycle`, `MCSettings` | small instances for TLC | the module they instantiate |

`ListCache`, `Outbox` and `VideoTx` are each shown to implement their abstract specification. `VideoLibrary` builds on
that: it takes the cache in full, since what matters there is how the attempts and the requests meet in it, and of the
outbox no more than `EventDelivery` says.

In each module the definitions named like `Forget_Skipped` and commented as
mutants are not part of the model. Each is a variant of the definition before the
underscore with a plausible bug; putting it in that definition's place makes a run
report the property that bug breaks.

### ListCache

`cached` and `version` are the two Redis keys, `group` is the registration in
`Cache.group` of every process, `pc` says where each call of `GetOrLoadVideos`
(`Loads`) or `Del` (`Dels`) is. A list is represented by the number of committed
increments it shows. `ListVideos` is one SELECT and so shows a prefix of the
commits, and nothing in the properties distinguishes more.

The actions of a load follow `GetOrLoadVideos` and `loadAndCacheVideos` from one
Redis command or group operation to the next: `Hit`, `HitCorrupt`/`Repair`/`Repaired`
(lines 56-62), `Miss`, `Join`/`Lead` (line 71), `ReadVersion`, `LoadVideos`, `Loaded`,
and `LoadFails` for every error return. `Del` and its return or failure are separate
actions because the pipeline in between is not instantaneous.

A command is *on the wire* from the moment it is sent until the server runs it, and
what the client learns or does meanwhile is independent of that: `wire[c][k]` is
transmission `k` of call `c`. `RunIncr` and `RunDel` are two steps, since the pipeline is
no transaction; `RunScript` is one, since a Lua script is atomic. A call that has
failed may have its commands run later, and `Resend` covers the retries of the Redis
client library with the earlier transmissions still pending. `Expire` (the TTL) and
`WriteGarbage` (another writer of the key) can happen at any time.

A call that never takes another step stands for a caller that crashed, so the safety
properties include crashes between any two steps.

### CachePromise

Reads and invalidations overlap; reads that are answered together are answered with
one list, which shows no uncommitted increment and shows every increment
that was committed when a `Del` was called which had returned, in the same process,
before any of those reads started. There is no Redis, no version and no flight in it.
`ListCache!KeepsPromise` is this specification under the mapping `status` and `answer`.

### VideoService

A request bears the name of the cache call it may make. `listGroup` is
`VideoService.listGroup`; `ListDone` ends a flight for its leader and its followers.
A view request goes through `TxCommit` or `TxFails`, `InvalidateList` (which is
`ListCache!Del`) and `IncrementDone`. The outcome of a COMMIT can be unknown:
`TxFails` is possible after the commit took effect, and `LateCommit` lets it take effect
after the request has failed. Every commit in this module is some view request's, and `view`
numbers them.

### Outbox

`inserted`, `processed`, `failed` and `locked` are sets of rows and `attempts` the
column of that name. `claim[w][e]` is the `Attempts` value that worker `w` was handed with event `e`. A
statement is run by `Run(kind, e)`, either when it is answered or, after its client
timed out, by `RunLate`. With a cancelled context nothing is sent. Statements given up on form a set, so of two that are
alike one runs late. The other would find a row already settled or, for a fetch, count one more attempt, which is what `RetriesBounded` allows each fault.

Time is not modelled. A lease lasts 30 seconds; a batch may take 16 times up to ten
seconds; so `Unlock` may end any lock at any moment, which also covers
retry delays of any length and clocks that disagree. `failure_error`,
`processing_at` and the payload are never read and are left out.

A batch shares one time limit between `Del` and `MarkProcessed` (`operationCtx`), so `MarkFails` also covers a mark that is
never sent. `SKIP LOCKED` needs no action of its own: any statement that holds a row makes that row ineligible.

### EventDelivery

An event that is settled is not attempted again; one is marked processed only when its invalidation has run since it was
written, and given up on only when its attempts are used up or its type is unknown. Attempts may overlap, so one that was
given up on may still be marked processed (`query/outbox.sql:54` does not except it). `Outbox!DeliversEvents` is
this specification with nothing renamed: the variables of the table are its variables, leases, claims and statements are hidden.

### VideoLibrary

`VideoService` with the outbox added. `CommitView` commits a view and its event together. An attempt (`Attempts`, with the event it
is at in `target`) claims an event, calls `ListCache!Del` (`Invalidate`) and then marks the event, gives up on it or does neither, which leaves
the event to another attempt. The guards of these actions are those of `EventDelivery`, taken over and not shown: which worker makes an attempt, under which
lease, is in `Outbox`, and that the workers keep to these guards is `Outbox!DeliversEvents`. What is checked here is what comes of it in the cache:
`HiddenViewsArePending`, that somebody still has a hidden view to make up for, and `InvalidatedViewsShown`, that whoever's `Del` has run for a view,
its request's or any attempt's, answered or not, no cached list lacks the view from then on.
A request or an attempt that takes no further step is one whose process died; so the death of a process between the commit and
`Del` is among the behaviours. `ViewsAppear` is about the requests that die so; the attempts are carried on there, as one of them is
in the end (`Outbox!EveryEventSettles` is about workers that die).

### VideoTx

The requests about one video from the router to the answer. What a request asks for is fixed at the start: a video, an id without a row
(`Absent`) or a parameter that is no UUID (`Malformed`). `at` is where the handler is (the client side of a transaction), `tx` where the transaction
is in PostgreSQL: a client whose time limit runs out closes its connection (`TimesOut`), and the statement it had sent may
still run or be dropped (`Commit`, `Abort`). So a COMMIT has an unknown outcome, and a 500 says nothing about the view.
`held` are the pool's connections in use, `lockedBy` the row locks: `Update` waits until the row is free, and holds a
connection while it waits. A transaction whose increment found no row goes on to the rollback and a 404.

### ViewCounter

A view request counts one view at some moment between its arrival and its answer, and is answered with the number it counted; a GET is
answered with the number of some moment between its own. A refused request never counts; a failed one may, even
after its answer. `VideoTx!CountsViews` is this specification with the transaction, the pool and the locks hidden: a view counts when its
transaction commits.

### AppLifecycle

One process: `main`, the goroutines of `App.Run` (`http`, `worker`) and of `HTTPServer.serve` (`accept`, `shutdown`) and the
requests being handled, which may also begin during the shutdown, on connections accepted earlier, and go on beginning when the
shutdown has given up. `causes` holds what cancels the two errgroup contexts: the signal and the goroutines that
returned an error. `ExitFailed` is `os.Exit(1)`, which skips the deferred `Close`. A worker that is told to
stop returns (`Outbox!WorkersStop`), so here it is one step.

### Settings

`env` is the environment of the next process: every variable has a value from `Inputs`, which are numbers, `Garbage`
for what does not parse, or the kinds of text that the checks tell apart; unset and blank are both `None`. `Config` is
what `LoadFromLookup` makes of it, defaults included, and `LoadFromLookup` here is what the first check that fails names, with
the checks in the order of the code: the Redis port, then what is missing, then the parsers, then `Validate`. `NewLogger` and
`NewVideoService` check again what they are given, and the log file may not open.
Most errors name variables. Those about the PostgreSQL URL (`config.go:505-515`), the public URL of SeaweedFS (`config.go:331`, `521-533`) and the
log file (`internal/app/logger.go:34`) name none, but a thing that the code puts together from some: `MadeOf` says from which (`config.go:151-163`,
`logger.go:21-30`). `Repair` is the operator, who knows as much and sets the variables that the error leads to (`Traced`) as `src/.env.example` does.
So `RepairsHelp` does not say that every error names the variable at fault, which would be false; it says that the variable at fault is among those the error leads to.
`UnsettingIsSafe` is about `LoadFromLookup` only: `src/deployment/docker/docker-compose.yml:25-40` itself insists on some of the optional variables.

### RateLimiter

`entries` is the map of that name; a key without an entry is what the code sees as a zero `resetAt`. A request reads the
clock (`ReadClock`) and later, under the mutex and so in one step, goes through the rest of `allow`: `Count` (lines 73-76), `Reopen`
(its entry's window has ended), `Open` (no entry; a full table is cleaned first) or `TableFull`. The clock ticks in between.
The key stands for what `requestClientIP` and the path give. `admitted` and `inWindow` count admissions; they start
again when an entry is made, so `AdmissionRate` is about the time a key keeps its entry. It cannot say more: once a
cleanup has dropped an ended window, a request with an older time begins a window in the past, and the average starts again.

## Runs

| Run | Instance | Shows |
|---|---|---|
| `list_cache_processes` | 2 loads, 2 `Del`s, two processes | the version guard works across processes that do not share a group; no stale list is served; `ListCache` implements `CachePromise` |
| `list_cache_resends` | 1 load, 1 `Del`, up to 3 transmissions each, 2 commits | late and repeated commands do not make the key stale |
| `video_service_one_process` | 3 list requests, 1 view request | one load at a time; answered views are in the cache and in the flights of requests made later |
| `video_service_read_own_view` | 2 list requests, 1 view request | **violated**, see below |
| `video_service_returns` | the same, fair | every request and every call of the cache beneath it returns |
| `outbox_two_workers` | 2 events (one of an unknown type), 2 workers, limit 3, 2 faults | no event is settled without what settles it; no claim is held twice; how far the retry limit can be overrun; `Outbox` implements `EventDelivery` |
| `outbox_settles` | 2 events, batches of 1, 1 worker, 2 faults, fair | every event settles; a cancelled worker stops |
| `video_library` | 1 list request, 1 view request, 2 attempts, two processes, fair outbox | a hidden view is pending; it appears in the end, whoever died; a `Del` that has run for a view, whoever's, shows it for good |
| `video_tx` | 2 view requests, 1 GET, 1 video, 2 connections, fair | views are counted once and in order; refusals have no effect; every request is answered; no row stays locked; `VideoTx` implements `ViewCounter` |
| `rate_limiter` | 5 requests, 3 keys, table of 2, limit 2, window of 2 ticks | average rate, reasons for refusals, windows left alone until they end |
| `lifecycle` | 3 requests, fair | nothing is used after `Close`; exit code 0 means an orderly end; a signal or a failed server ends the process |
| `settings` | environments up to 2 variables away from the example or from an empty one | what is accepted can be used and is accepted by the constructors; errors lead to a working environment |

### Bounds

* `Loads`, `Dels`, `Events`, `Workers`: every call is made at most once. Three list requests (`video_service_one_process`) are the fewest with a
  flight, a follower and a newcomer that replaces a forgotten flight; two `Del`s are the fewest that order two
  invalidations; two processes are the fewest whose groups differ; two workers are the
  fewest that hold claims of one event. The safety properties are also proved for any number.
* `MaxSends`: transmissions of one call. One already includes commands that run after
  their call has failed; three (`list_cache_resends`) let one stay pending, one run and one be
  answered. With one, the invalidation of a repair (`Repair`) uses up the transmission of its call, whose load then cannot store a list; with
  three it can, and the theorems have no such bound.
* `MaxCommits`: one commit makes "stale" and "fresh" differ; with two a list can be
  stale for one reader and not for another.
* `MaxAttempts` (5 in the code) is 2 or 3, `BatchSize` (16) is 1 or 2: enough for a first, a last and a
  middle attempt and for a batch with a rest left behind.
* `Requests` of a process: two are enough for one that ends before and one that outlives a step of the shutdown; three add one that is never sent.
* `MaxEntries`, `Keys`: three keys for a table of two are the fewest that fill it and need a cleanup. With a limit of two, a third request of a
  key is the first to be refused; two more fill the table. `MaxClock` (4) is two windows.
* `Views`, `Attempts`: one view with its own `Del` and two attempts at its event are three `Del`s of one list, two of which may
  overlap while the third is late. `MaxAttempts` is 2, so that the event can be given up on.
* `PoolSize` is 2 for three requests: one waits for a connection, and the two that have one can be two views of which one waits for
  the other's row. A second video would add only requests that do not meet.
* `MaxDepartures` (2): pairs of variables are what the rules of `Validate` are about at most (minimum and maximum of a pool, output and
  path of the log). The proofs have no such bound.
* `MaxFaults`: crashes, signals and unanswered statements of the outbox. It is a bound for TLC in the safety
  runs; in `outbox_settles` it is also an assumption, that faults come to an end.

Symmetry is used in safety runs only, over sets whose members the instance treats alike.
Deadlock is checked in all runs but three. The process of `lifecycle` ends: nothing happens after it has exited, and
that it gets there is what `SignalEnds` and `ServerEndsProcess` say. In `rate_limiter` each request is made once and the clock
is bounded, and in `video_tx` each request is made once as well, so these runs end when all are answered.

### Fairness

* `VideoService!SvcFairSpec`: weak fairness of each call's and each request's own
  steps. Every wait of theirs has a deadline: 5 seconds for the load (`cache.go:22`, `usecase/video.go:25`),
  for the invalidation (`usecase/video.go:26`) and for the transaction. A deadline that
  passes is the failing step, so a step of one kind or another always comes. Waiting followers
  are not assumed to be served: that is what the runs show. The
  Redis server, retransmissions, expiry and other requests get no fairness.
* `Outbox!FairSpec`: weak fairness of each worker's steps (every operation has a timeout,
  `app/outbox.go:18-19`), of `Unlock` (time passes) and of `Start`
  (`restart: unless-stopped`, `src/deployment/docker/docker-compose.yml:44`). Late
  statements need never run, and `Del` may fail every time. An operator who stops the service for good ends the assumption about `Start`, and with
  it only the promise that events settle.
* `VideoLibrary!LibFairSpec`: an unsettled event is claimed and a claimed one is settled in the end, which is what
  `Outbox!EveryEventSettles` shows of the workers, and an attempt goes through its `Del`, which has a deadline; attempts whose worker dies are left out of the two there are. Requests may
  die anywhere, Redis need not run late commands, and that the list expires (the TTL) is not counted on.
* `VideoTx!FairSpec`: weak fairness of a view request, which has time limits (`persistent/video.go:80`, `:89`). A GET has none of
  its own; that it is answered rests on the pool serving waiters in turn (strong fairness of getting a connection) and on a SELECT
  waiting for no lock. PostgreSQL is only assumed to end a transaction whose connection is closed.
* `AppLifecycle!FairSpec`: weak fairness of every goroutine. Starting has connect and retry limits, and shutting down has
  `shutdownTimeout`. Requests may never end, and signals and failures need not come.

### What the violated run shows

`ListsShowAnsweredViews` says that a list request made after a view was answered shows
that view, as the end-to-end test asks (`e2e-test/video_api_test.go:113`, "listed views immediately
after increment"). The run finds:

1. a list request leads a flight in `VideoService.listGroup` and its load reads the database;
2. a view request commits, `Del` forgets the flight in `Cache.group` and invalidates the key, the request is answered;
3. another list request joins the flight still registered in `listGroup`, and is given the list without the view.

`Cache.Del` cannot forget `listGroup`, which belongs to the use case. The version guard still
keeps the old list out of Redis (`AnsweredViewsNotHidden`), and the answer is bounded by the request
that leads the flight (`FlightsShowAnsweredViews`), so the window closes when that load ends.

## Proofs

All are checked by TLAPS, for any values of the constants that satisfy the assumptions
of the modules (`ListCacheAssumption`: calls are loads or invalidations and each is
made in some process; `None` and `Corrupt` are no lists. `OutboxAssumption`: events are
numbered in the order they are fetched, workers are finitely many, the limits are positive. `LibraryAssumption`: the calls of `Del` are
those of view requests and of attempts. `VideoTxAssumption`: views and reads are distinct requests, the pool has a connection.
`RateLimiterAssumption`: the limit, the window and the table's size are positive, and the size at which a
cleanup starts is not above that of the table. `SettingsAssumption`: numeric variables get numbers, `Garbage` or `None`).

**ListCacheProofs.** `TypeCorrect`, `CacheFresh` (`CachedShowsInvalidations`), `ReadsFresh`
(`ReadsShowInvalidations`) and `CacheKeepsPromise` (`KeepsPromise`). `CachedShowsInvalidations` is not
inductive: what keeps a stale list out is a relation of versions, not of lists. The
strengthening `Inv` says, beside the types,

* `ScriptsFresh`, `VersionsPast`: the version a load has read is at most the current one, and a list still to be stored whose
  version *is* the current one shows every invalidation whose INCR has run;
* `FlightsFresh`: the list of a flight that is still registered in a process shows every `Del` called in that process,
  because `Del` forgets the flight; `JoinedFresh`: hence the list a joined call waits for shows every `Del` that call started after;
* `Quiet`, `BasesPast`, `ReturnedRan`, `BeforeReturned`: nothing is on the wire before it is sent, a `Del` that returned has run, and the
  histories agree with the calls they are about.

The refinement proof maps each action to a step of `CachePromise` or a stutter under `status` and `answer`; the
interesting case is `Deliver`, where a leader and all its followers are answered at once.

`NobodyWaitsInVain` and `FlightsServeWaiters` (proved and not run) say that a joined call waits for a load of its process that is under way, also after `Del` has forgotten
the flight, and is answered with it. `CallsComeToAnEnd` orders the states of a call (`CallLeft`): a step of a call brings it, and whom it
answers, nearer to its end, and nothing takes any call further from it. In particular a payload that does not decode is repaired at most once a call.

**VideoServiceProofs.** `ServiceUsesCache` shows that a behaviour of the service is, for the variables of the cache, a behaviour
of `ListCache`, so that the cache's invariant holds in it and need not be proved again. On top of it `SvcTypeCorrect`,
`AnsweredViewsInCache`, `FlightsFreshEnough` and `OneLoadAtATime` need only that a load is under way only for the registered leader of its
process (`Leading`), that who joined a flight waits for that leader (`Waiting`), that a view request calls `Del` after its commit and is answered "ok"
after that `Del` returned (`Viewing`), and that what was answered before a flight's leader made its request had returned from `Del` before its load began (`ViewedAnswered`).
The part about list requests (`Lists`) is kept by whatever view requests do as long as an answered one has returned from a `Del` it called after its commit
(`Answering`); that is what lets it be used again in VideoLibraryProofs, where others call `Del` too.
`ServiceKeepsPromise` is the refinement of `CachePromise`, seen through the use cases. `NoListWaitsInVain`, `ListFlightsServeWaiters` and `RequestsComeToAnEnd`
(proved and not run) are for list requests and their flights what the three theorems above are for calls of the cache.

**OutboxProofs.** `TypeCorrect`, `ProcessedSound`, `GivenUpSound`, `NoSharedClaim`, `OutboxDelivers` (`DeliversEvents`) and `RetriesHold`
(`RetriesBounded`). The invariant is in two parts, one about the table and one about the
workers: statements that may still run late carry the same guarantees as
statements that have run (a pending "processed" has had its invalidation, a pending "failed" has had its attempts), and
a worker holds no claim newer than the row (`claim[w][e] <= attempts[e]`), and distinct workers hold
distinct claims, because a claim is made by incrementing the counter. From it each step is a step of `EventDelivery` or a stutter.

`RetriesBounded` needs to know where the attempts beyond the limit went. `RetryCount` counts them for an event that is not settled:
at most `MaxAttempts - 1`, one for each worker that holds a used-up claim and is going to give up on the event (`Retrying`), and one for
each fault not spent on a fetch that may still run (`Slack`). A claim adds 1 to both sides, since the claimer becomes such a worker
when the limit is reached; such a worker drops out only by settling the event or by a fault.

Proved and not run: `SettledStaysSettled` (what is processed or failed stays so and is never claimed again), read off the refinement;
`BatchesAreBounded` (a worker holds at most `BatchSize` events, and none between batches), which rests on `FirstFits`: of the rows that have fewer than `n`
before them there are at most `n`; and `BatchesComeToAnEnd`: every step of a worker in a batch, and every step of a cancelled one, decreases `StepsLeft`, whatever fails or is lost.

**VideoLibraryProofs.** `LibTypeCorrect`, `HiddenViewsPending` (`HiddenViewsArePending`) and `InvalidatedShown` (`InvalidatedViewsShown`).
`LibraryUsesCache` gives the cache's invariant as above: a cached list shows what was committed when a `Del` that has run was called. So it
remains that whoever calls `Del` for a view, its request (`Requesting`) or an attempt at its event (`Attempting`), does so after the
commit, and that an event is processed only because of such a `Del` (`ProcessedByDel`).

What was proved of the parts carries over to the whole, where attempts call `Del` at any time: `LibraryKeepsPromise` (`KeepsPromise`), `LibFlightsFreshEnough`
(`FlightsShowAnsweredViews`), `LibOneLoadAtATime` (`LoadsOneAtATime`), `LibAnsweredViewsInCache` (`AnsweredViewsNotHidden`) and, proved and not run,
`LibNoListWaitsInVain`. `ShownForGood` (proved and not run) says of any view that once its event is processed or its request answered, no list without it is ever
in the shared cache again: what `HiddenViewsArePending` says of one state holds from then on, because neither reason is taken back.

**VideoTxProofs.** `TypeCorrect`, `NoViewLost` (`NoLostViews`), `RefusalsSound`, `AnswersOrdered`, `ConnectionsSound` and `ViewsCounted`
(`CountsViews`). `Stage` ties the client's place to the transaction's; its core is that a transaction that
has run its increment holds the row lock and has counted one more than is committed, and that nobody else can commit meanwhile. `Ordered` adds, for
`AnswersInOrder`, that what a request was answered with is not above what is committed, and that a request counts or reads no less than was
answered before it arrived. `ConnectionsReturned` (no answered request holds a connection) is proved and not run.

So are the next three. `PoolNeverOverdrawn`: the pool gives out at most `PoolSize` connections, to exactly the requests that have one in hand.
`NoDeadlock`: a request that waits for a connection waits for those that hold one, and a transaction whose increment waits for the row waits for the one that
has it locked (`WaitsFor`); whoever is waited for wants less (`Wants`: a connection and then a row, a row, nothing), so requests never wait in a circle, not even with one connection
and with transactions whose client has left. `RequestsComeToAnEnd`: every step is one of a request, decreases what that request has left (`Left`, at most 8) and
leaves the others as they were, so no behaviour goes on for ever.

**RateLimiterProofs.** `TypeCorrect` and `TableHolds` (`TableBounded`), which are proved and not run, `RateHolds` (`AdmissionRate`), `RefusalsHaveCause`
(`RefusedForCause`) and `WindowsKept`
(`WindowsRunTheirCourse`). The rate is not inductive: the invariant adds, per entry, what the current window counts
(`WindowCounts`) and that what was admitted before it fits into the time before it began (`EarlierWindows`). `NextWindow` is the
arithmetic of one window following another.

**AppLifecycleProofs.** `TypeCorrect`, `ConnectionsOpen` (`UsersHaveConnections`) and `SuccessSound` (`SuccessMeansDrained`). The
invariant says what it means for the server to return without an error: the shutdown was begun by a
signal and ran to its end, so that no request is left (`ServerFollows`), and `main` closes the connections only after that (`MainFollows`).

Proved and not run: `EndIsReachable` (once a signal or a failure ends the process and until it has exited, `main` or one of the goroutines can take a step: nobody waits for somebody
who is not told to end), `EndIsNotCalledOff` (who can go on still can until it does) and `LifeIsBounded` (each such step decreases `StepsLeft`).
The guards `MainCan` to `ShutdownCan` are written out, since the prover has no ENABLED.

**SettingsProofs.** `TypeCorrect`, `ConstructorsAgree` (`OnlyLoadRefuses`), `MissingTogether`, `UnsettingSafe` and `RepairsConverge` (`RepairsHelp`), for
every environment. The load is a list of checks of which the first failing one is reported; the lemma the theorems
rest on is that it accepts exactly the environments that are `Acceptable`, which is said without any order. `RepairsTerminate` and `LoadDecidesRightly` (proved and not run) add
that each repair, with errors that name no variable traced as above, leaves fewer variables that depart from the example, of which there are at most 32, and that a process is started exactly in acceptable
environments while a refusal leaves something to repair: so whoever repairs what is reported gets through.

Only model-checked: the liveness properties `RequestsReturn`, `EveryEventSettles`, `WorkersStop`, `ViewsAppear`, `RequestsAnswered`, `LocksEnd`,
`SignalEnds` and `ServerEndsProcess`, since the prover has neither rules of fairness nor ENABLED. Of what they say, this is proved for all values of the constants:

| checked by TLC | proved part |
| --- | --- |
| `RequestsReturn` | nobody waits for a flight that is over and a flight answers all it serves (`NoListWaitsInVain`, `ListFlightsServeWaiters`); no request or call goes back (`RequestsComeToAnEnd`) |
| `EveryEventSettles`, `WorkersStop` | no worker is caught in a batch (`BatchesComeToAnEnd`), beyond the limit an event is claimed at most once for each worker and fault (`RetriesHold`), what is settled stays so (`SettledStaysSettled`) |
| `ViewsAppear` | a view that was made up for stays shown (`ShownForGood`) |
| `RequestsAnswered`, `LocksEnd` | requests do not wait in a circle (`NoDeadlock`) and have a bounded number of steps (`RequestsComeToAnEnd`) |
| `SignalEnds`, `ServerEndsProcess` | `EndIsReachable`, `EndIsNotCalledOff`, `LifeIsBounded` |

What remains to TLC is that the fairness of the specification makes the steps happen. Every other property that a passing run checks is
also a theorem. Two run as parts of others: the type invariants of `ListCache` and `VideoService` are conjuncts of `VideoLibrary!LibTypeOK`. The theorems "proved and not run" state
properties of the proof modules, so that no run names them.

## Not modelled

* `outboxRetryBackoff`: a pure function, of which the values 1 to 4 occur; retries may come at any time in the models, so no
  property depends on it. The same covers skew between the worker's clock, with which a retry time is computed, and the database's.
* A Redis server that loses its data: its append-only file is synced once a second, so after a crash the version may go back and meet one that
  a slow load has read. `CachedShowsInvalidations` does not hold then. The TTL of the list limits the consequence, and the models of the cache leave time to the
  environment, so there is nothing to state that is true of the code.
* `requestClientIP`, `mapVideo` and the other mappings of records: pure functions of one request or row.
* Health handlers, CORS and header middlewares, what is logged: they change no state of the models.
* Connectors, migrations, the generated client, deployment and asset seeding: calls of libraries, static schema and configuration. The SQL of
  `internal/repo/persistent/sqlc` is modelled statement by statement where the program runs it; `InsertOutboxEvent` there is never called.
* A whole backend with limiter, pool, cache and outbox in one module: the parts meet only at the interfaces described above (the
  key of the limiter, the outcome of the transaction, the promise of the outbox), so each is modelled against the interface of its neighbour.
