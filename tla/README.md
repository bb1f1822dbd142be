# TLA+ models of fuju-sns-backend

A Go backend of a small social network: posts with replies and likes, a follow
graph, timelines, images, badges, link previews, and a feed of events to an
external "emotion model".  Identity belongs to AuthCore, an external service.
State lives in PostgreSQL; the process keeps a cache of introspected tokens, one
OGP worker and one dispatcher goroutine.

What makes it hard is that **no use case runs in a transaction of its own**.  A use
case is a list of single SQL statements on pooled connections, so concurrent
requests interleave statement by statement, a request can stop between two of them,
and the denormalised counters, job states and cache rows must survive that.
The modules here model exactly those steps.

## 1. Inventory

| Component | State | Operations | Hard behaviour | What makes it correct |
|---|---|---|---|---|
| Posts, replies, likes (`internal/usecase/post`, `repository/postgres/post.go`, `like.go`) | `posts` with `likes_count`, `replies_count`, `parent_post_id`, `root_post_id`, `deleted_at`; `likes` | create, delete, like, unlike | row and counter in separate statements; parent read before the insert; `Delete` does not report whether it matched | counters cover the rows; a like counts once; roots inherited; deletion final and by the author |
| Link previews (`internal/usecase/ogp`, `ogp_cache`, `ogp_jobs`, `post_ogp`) | cache rows with expiry, a job queue, links post-page-position | `EnqueueForPost`; claim, fetch, upsert, attach, mark | several workers, retries at the head of the queue, expiry between read and use, closing statements by id alone | one worker per job; finished is final; a preview at its URL's position; every job ends |
| Fuju dispatcher (`internal/usecase/fuju`) | two bounded channels, two batches | `EnqueueContent`, `EnqueueEvent`, `loop`, `flushFinal` | drop-oldest between selects of several producers; shutdown while producers run | at most once, in order; nothing left behind; shutdown ends |
| Commit hooks (`cmd/server/fuju_hooks.go`) | none | fan-out of a committed post or like to the two above | run after the commit, may never run | best effort |
| Follow graph (`internal/usecase/follow`) | `follows`, `followers_count`, `following_count` | follow, unfollow | one edge, two counters, three statements | as for likes |
| User mirror (`internal/usecase/user`) | `users` with `profile_refreshed_at` | lazy create, TTL refresh, profile update | a row is read, AuthCore is asked, the row is written back; two first requests both find none | the mirror is as new as its date; counters and bio survive a refresh |
| AuthCore client (`pkg/authcore`) | introspection cache, calls in flight, service token | `Introspect`, `SweepExpired`, `GetServiceToken` (`Invalidate` has no caller) | clock read outside the lock or before a slow call; followers of another request's call; the leader's client may go away | a revoked or expired token is not accepted beyond its bound; an outage is never a 401; nobody waits for ever; a cached service token has its lead left |
| Images (`internal/usecase/image`, `pkg/storage`) | `images`, `post_images`, bucket objects | upload, delete, attach | bucket and table are two systems; attachment is checked before it is written | no live row without object, no orphan without a trace, own images only |
| Badges, admin (`internal/usecase/badge`, `admin`) | `badges`, `user_badges`, `is_admin` | list, create, update, grant, revoke | the flag is read by the middleware and again by the use case; the key is looked up before the insert | a withdrawn admin is stopped; one badge per key |
| Timelines, replies, follower lists (`internal/usecase/timeline`, `postgres/post.go`, `follow.go`, `sharedcursor`) | none | keyset pages | inserts, deletes, follows and changed limits between pages; ids made before the commit | no post twice, in order, none skipped that was there throughout |
| Middleware, session cookie (`internal/middleware`, `handler/session.go`, `pkg/cookie`) | the browser's cookie | authentication, hydration, admin check, deadline, issue and removal of the cookie | deadline cuts a use case anywhere; lifetimes cut to whole seconds | the cookie ends with its token, or by the fallback age |
| In-memory repositories (`repository/inmemory`) | Go maps behind one mutex per repository, secondary maps, a shared `LinkStore` | every repository method | two methods take several locks | the effects and answers of the PostgreSQL ones |
| Process start and shutdown (`cmd/server`, `config`, `pkg/db`) | configuration, pool, two background goroutines | `Load`, `Validate`, `newRepositorySet`, serve, `Shutdown`, cancel, `Wait`, close | requests that outlive the shutdown timeout; `os.Exit` without deferred calls | the pool outlives the worker; the wait ends |
| Tag extraction, URL normalisation, HTML parsing, SSRF guard, JSON views, logging, errors | none | | string and HTTP detail | tested in Go |

Interaction: a handler calls a use case; a use case calls repositories and, after
the commit, a hook; the post hook calls `Enqueuer.EnqueueForPost` (rows in
`ogp_jobs`, read later by the worker) and the dispatcher (a Go channel, read by
`loop`); the like and follow hooks call the dispatcher.  Before its handler every
authenticated request passes `AuthMiddleware` (introspection cache) and
`HydrateUserMiddleware` (user mirror).  Everything else is shared tables.

`PROJECT.json` lists the hazards line by line, with the properties aimed at each.

## 2. Plan

1. `PostEngagement`, `OgpPipeline`, `FujuDispatcher` with its abstract
   specification `LossyOutbox`; proofs of the first two.  **Done.**
2. `IntrospectCache` and `SocialGraph` (user mirror and follow graph, which share the
   `users` row), with proofs.  **Done.**
3. `PgTables`, what the SQL statements do, as operators; on them `Feed` (images, posts,
   follows, timelines) and `Gate` (cookie, admin routes, badges); `ServiceToken` and
   `Lifecycle`.  **Done.**
4. `StoreContract` and `MemStore`: the in-memory repositories implement the contract of
   the PostgreSQL ones.  **Done.**
5. Proofs: the dispatcher's order and its refinement of `LossyOutbox`, the service token,
   the pool at shutdown.  **Done.**
6. Proofs of the ledgers of likes, replies and follows, of the OGP worker's budget, of
   the badges and cookies, and of listings and images.  **Done.**
7. Proof that the in-memory repositories implement `StoreContract`.  **Done.**
8. Proof that their listings and lookups answer what the SQL does (`ReadsAgree`).  **Done.**
9. Left: one post followed through hook, enqueuer and dispatcher in a single composition.

## 3. Modules

**`PostEngagement`** - `status`, `row`, `likesCount`, `repliesCount`, `likes` are the
tables; `pc` and `arg` are the requests in flight.  An action is one statement with
the Go code up to the next: `BeginCreate` (validation, parent lookup),
`InsertPost`, `IncrementRepliesCount`, `CreateHook`; `BeginDelete`, `SoftDeletePost`,
`DecrementRepliesCount`; `BeginLike`, `InsertLike`, `IncrementLikesCount`,
`LikeHook`; `DeleteLike`, `DecrementLikesCount`.  `Abort` stops a request anywhere in
between and leaves its `pc` where it was, so that what it still owed a counter can
be named in the invariants.  `Increment` and `Decrement` are the `UPDATE`s with
their `deleted_at IS NULL` and `GREATEST(n - 1, 0)`.

**`OgpPipeline`** - `cache`, `jobs`, `links` are the three tables, `hook` the
enqueuers, `wk` the workers.  The hook and the worker take one statement, or one
fetch, per action.  A fetch succeeds, may be retried or fails for good.  Statements
may fail and processes may stop, at most `MaxFaults` times.  A URL is its hash;
`Content` says which hash each post has at which position, so two spellings of one
page are one hash twice, and `Bad` does not normalise.  The worker normalises the URL of its
job once more and caches and links under the hash of the outcome (`PreviewHash`).
`Normalize` is not idempotent (it drops one full stop after the host at a time), so
`Renormalized` is any function from hashes to hashes; the error row goes under the job's
own hash, as in the code.  `Oversized` pages have a title or description longer than its
column.  URLs in `LongErrors` may fail with a text longer than `last_error`, which the
worker stores uncut: `RecordError`, the statement of `Requeue` and `MarkFailed`, then changes
nothing, and the job stays `running`.  The `url` columns themselves always fit, as a post has
at most 120 characters.

**`FujuDispatcher`** - `ch` the channels, `batch` the loop's slices, `handed` what was
passed to the sender.  `Enqueue`, `DropOldest`, `Resend` are the three selects of an
enqueue call; `Receive`, `FlushFull`, `TimerFires`, `FlushTick`, `ObserveCancel`,
`Drain`, `Drained`, `FlushFinal` are `loop` and `flushFinal`.

**`LossyOutbox`** - what the dispatcher promises: items are accepted or refused, may be
lost while they wait, and are otherwise handed over once, in order.

**`IntrospectCache`** - `items` and `inFlight` are the maps of `pkg/authcore/cache.go`
(an entry is its `fetchedAt`, a call is named by its leader), `call` the calls, `req` the
requests in `AuthMiddleware`.  Each critical section is one action (`Hit`, `Join`, `Lead`;
`Store`), and so are the reading of the clock before it (`Begin`), the end of the upstream
call (`AuthCoreAnswers`, `CallFails`), the closing of the channel (`Close`), the two cases of
a follower's `select` (`Wake`, `WaitCancelled`) and a sweep.  `Active` and `Revoke` are AuthCore.
`CallTimeout < TTL` is assumed (500 ms against 30 s by default).  A rejection of the
backend's own credentials (401 or 403 from AuthCore) is a `CallFails`, as in the code; the
comment at `pkg/authcore/client.go:119` counts it as an invalid session.

**`SocialGraph`** - `users` (with `known`, the rows that exist) and `follows` are the tables,
`profile` is AuthCore's side, a version number per user, and `profileAt` its history, used
by properties only.  A request is hydrated (`GetBySub`, `Decide`, `FetchOk` or `FetchFails`,
`Upsert`) and then updates its bio (`UpdateProfile`), follows (`FollowTarget`, `InsertFollow`,
`IncrementFollowingCount`, `IncrementFollowersCount`) or unfollows (`DeleteFollow` and the two
decrements).  A request that fails or is refused takes no further step.  `Merged` is the
`ON CONFLICT` clause, column by column.

**`PgTables`** - no state: each SQL statement of `internal/repository/postgres` as an
operator from tables to table or to rows, with its `ON CONFLICT`, its `deleted_at IS NULL`, its
ordering and its limit.  Ids and instants are numbers, so that order and cursors are real;
0 is `NULL` and the empty string.
`Feed`, `Gate` and `StoreContract` are written with it.

**`Feed`** - the tables `posts`, `post_images`, `images` and `follows`, and the bucket.  A
request uploads or deletes an image, creates or deletes a post, follows or unfollows, or
scrolls: `ReadFollowees` (home only), `ReadPage`, `Deliver`, and `Retry` when hydration fails
or the answer is lost, page after page with any limit until `next_cursor` is null.  `must`
is history: what matched a scroll from its beginning on.  Bucket calls may fail with or
without effect.  A request that is refused, fails or loses its deadline takes no further step.

**`Gate`** - the browser's cookie (`jar`), the middleware chain of the admin routes
(`Arrive`, `Introspect`, `Hydrate`), the two session handlers and the five badge routes with
their statements.  `SetAdmin` is the operator who writes `is_admin`; `leftover` is history, the requests that
had passed `ensureAdmin` when the flag was withdrawn.  The list route asks for nothing
beyond the middleware, as in the code.  `FallbackMaxAge` is any positive time, which is all that
`Validate` asks for; `CookieEnd` cuts it to whole seconds as `Build` does.

**`ServiceToken`** - `CachedServiceTokenSource`: mutex, cached token, and the issuing call, in
which AuthCore mints at some moment between request and answer.  Where AuthCore names no
`expires_in` the client takes an hour; how long such a token really lives is not known,
and nothing is claimed of it.

**`Lifecycle`** - `main`: `Config` is the environment as `Load` leaves it, `Validate` its rules;
then the repositories, the clients, serving, and the shutdown in the order of the code.

**`StoreContract`** - the repository interfaces as the PostgreSQL driver meets them: each
method one atomic step on the tables.  A behaviour stays in one *suite*, the methods that
share tables, as the contract tests in `testsupport` do.  Two idealisations: the driver commits
`UpsertByNames` name by name, and a failure leaves the tags before it, where the contract has
the whole batch (tags are never changed or removed, and are read only through links made
later); and a preview always comes with the time of its fetch, as fetcher and worker give
it (for a zero time PostgreSQL takes `NOW()` and the map keeps the zero).

**`MemStore`** - `inmemory.go` with its maps.  A method that holds one mutex throughout is
one action; `PostRepository.Create` is up to four (`CallCreate`, `AttachImages`,
`AttachTags`, `Publish`) and `ListByPostID` two (`ReadLinks`, `ReadImages`).  `Tables` is the
refinement mapping to `StoreContract`: links count once their post is published.  A cursor
is a pointer, as in the code: `{}` is nil, `{Null}` points to the empty string, and
`CursorQuery` is what `parseCursorQuery` makes of a request.

The `MC...` modules give the constants of the runs; the `...Proofs` modules hold the proofs.

## 4. Runs

| Run | Checks | Result |
|---|---|---|
| `service` | three requests of any kind by two users on a thread of up to three posts, with aborts (`LikesNeverUndercounted`, `LikesCountedOnce`, `LikeTransitionsAlternate`, `RepliesNeverUndercounted`, `ThreadRooted`, `DeletedRowFrozen`); two requests on the session and admin routes with `is_admin` changing (`WithdrawalStops`, `KeyHasOneBadge`, `CookieBounded`); two callers of the service token (`HitHasLead`); every configuration through start and shutdown (`PoolOutlivesWorker`) | holds |
| `like_drift` | `LikesCountConsistent` | **violated**: like inserts its row; unlike removes it and decrements a counter that is still 0; like increments |
| `ogp_safety` | two workers, two faults, one page under two spellings, an oversized page, a page with long error texts: `ClaimExclusive`, `LinksAtOwnSlot`, `AttemptBudget`, `FinishedJobFinal` | holds |
| `ogp_live` | fairness, no faults, two posts sharing a page, a URL that normalises to another and has long error texts: `DoneMeansLinked`, `JobsFinish`, `UrlsSettle` | holds |
| `ogp_poison` | as `ogp_live` with an oversized page in front: `JobsFinish` | **violated**: the oversized job is requeued for ever ahead of the other |
| `dispatcher` | two producers, two calls each, capacity and batch size two, cancellation at any time: `InOrderOnce`, `OutboxSpec` (refinement of `LossyOutbox`), `AcceptedLeaves`, `ShutdownCompletes` | holds |
| `introspect` | two requests, two tokens, one of them expiring, slow and failing calls: `RevocationWithinTTL`, `ExpiryRespected`, `SingleFlight`, `UnauthorizedMeansEnded`, `EveryoneAnswered`, `ExpiredSwept` | holds |
| `social` | three requests of two users, one of them new: `FollowCountsCover`, `MirrorDated`, `FreshMeansRecent`, `BioNotErased` | holds |
| `bio_clobber` | `BioOnlyByUpdate` | **violated**: a refresh reads the row, the user changes the bio, the refresh writes the old one back |
| `store` | nine suites over every in-memory repository method, listings for every cursor a handler passes: `ReadsAgree`, `IndexesConsistent`, `ContractSpec` (refinement of `StoreContract`) | holds |
| `feed` | requests of two users on three posts and two images, with bucket failures: `ShownOnceInOrder`, `ScrollComplete`, `LiveImageBacked`, `OrphanTraced`, `AttachedOwn` | holds |
| `session_cookie` | `Gate` with a fallback age below one second: `CookieEnds` | **violated**: a token without `exp` gets a cookie without `Max-Age` |

The violated properties state what a comment or design note of the repository says;
`findings` in `PROJECT.json` quotes each.  What the code does keep is stated beside
them: `LikesNeverUndercounted` says drift is only ever upwards,
`RepliesNeverUndercounted` that a double delete of a reply is the only way to a low count,
and `CookieBounded` that a fallback below a second is the only way to a cookie without end.
`JobsFinish` and `UrlsSettle` likewise except the jobs that a refused error text leaves
`running` (`Stranded`), and say that nothing else is left behind, that a stranded job holds up
no other, and that an oversized page is the only cause of endless retries.

`MCService` puts four specifications that share no state side by side: a behaviour follows one
of them while the others rest, so their state spaces add up and do not multiply.

**Differences between code and comments** met while modelling, without a run of their own:

- Two concurrent deletes of one reply both decrement the parent's `replies_count`
  (`DeletePostUseCase`), which `RepliesNeverUndercounted` therefore excepts.
- `worker.go:118` and `:138` hand the whole error text to `last_error VARCHAR(512)`; only the
  copy for the cache row is cut.  A `*url.Error` that quotes a long redirect target makes
  `MarkFailed` fail, which is logged, and the job stays `running`.  `worker.go:142` says it
  "ages in the queue until a future sweep": it has left the queue, and there is no sweep.
- The OGP worker never looks at the cache before it fetches, although `enqueue.go:67`
  counts on it.
- `repos.go:16` calls the backends interchangeable.  Two things differ.  In memory,
  `UserRepository.List` and `ImageRepository.GetByUserID` follow the order of a Go map, where
  PostgreSQL orders by creation: `ReadsAgree` asks for the same rows there, not the same order.
  And for a cursor that points to the empty string PostgreSQL lists from the top, while in memory
  no post is listed.  No handler makes such a cursor (`parseCursorQuery` returns nil);
  `ReadsAgree` compares the cursors a handler passes, and states this one apart.
- An upload whose row insert fails leaves an object that no log line names;
  `OrphanTraced` excepts exactly this.
- With less than a second of the token left, the cookie gets the whole fallback lifetime;
  `CookieBounded` states this bound.
- `main.go:186` says no other deferred cleanup is live when R2 fails to initialise;
  `cleanupRepos` is, and `os.Exit` skips it.
- When `ListenAndServe` fails, the process logs it and waits for a signal (`ListenFails`).
- "A burst of callers shares one upstream call" (`service_token.go:86`) does not hold
  when issuing fails or the lifetime is not above the lead: each caller then issues in turn.
- The public timelines are mounted without the authentication middleware, so the viewer
  fields that `main.go:270` mentions are never filled there.

**Bounds.**  Three requests are enough for every pair of conflicting use cases plus a
witness, and three posts for a root, a reply and a reply to it.  In the previews
`MaxTime` lets a row expire between a read and its use, the long error texts belong to one
URL so that others are retried and closed around it, `MaxAttempts = 2` gives a first
attempt, a retry and an exhausted budget, and `attempts` saturates at `AttemptCap`,
where no comparison can tell values apart any more.  Two faults allow an abandoned
job and a failed write in one behaviour.  Four items on capacity two fill a queue,
overflow it from two sides at once and fill a batch.  For the cache, time 3 with TTL 2 and a call timeout of 1 leaves
room for a revocation inside and outside the TTL and for a slow call across an expiry; two
requests give a leader with a follower, a hit after a store, and a second leader.  In
`social` the clock passes the TTL of 1 twice, and three requests allow a hydration to span
a follow or update made by another hydrated request.  In
`store` two or three rows of each kind give every conflict, `MaxNames = 2` lets one call repeat a
name, and pages are compared for limits and offsets 0 to 2 (`Limits`) with every cursor.  In `feed` a scroll over three posts
with pages of one and of the default size crosses at least two page boundaries while the
other requests change the tables; `MaxId` leaves room for new posts and images, and
one bucket failure is enough for the one call whose failure is tolerated; the two images belong to
one user, who can attach both, and not the other.  In the gate part of `service` a second
is two ticks, so that a token can end in the middle of one; the root's token expires and the
user's has no `exp`; lifetimes below, at and above the lead, and 0 for the default,
are issued; each group of settings that `Validate` reads together is
varied in full.  Finite requests, posts and calls
run out, so the configurations do not check deadlock; that nothing is stuck before is
what the liveness properties say.

**Fairness.**  `OgpPipeline!FairSpec`: weak fairness for the statements of a started hook
and for each worker; every statement and fetch has a timeout, and the goroutines are
not stopped.  A post need not be created (`HookBegin` is not fair), and no outcome of a
fetch is favoured.  `FujuDispatcher!FairSpec`: weak fairness for the loop's own
steps, since a send ends by its timeout; strong fairness for the cases of the
`select`, because Go picks among ready cases at random.  Producers and cancellation are
not fair.  `IntrospectCache!FairSpec`: weak fairness for each request that can run, a call
included, which ends by its timeout, and for the janitor's sweep, whose ticker keeps firing
while the process lives; no client is assumed to go away.

## 5. Proofs

For all users, posts, requests, workers, contents and bounds, from
the `ASSUME` of each module only.

`PostEngagementProofs`
- `TypeCorrect`, and with it that every request past its first statement names an
  existing post and a user (its `Foundation`): later statements index the tables by it.
- `LikesCovered` (`LikesNeverUndercounted`).  The property speaks of settled posts and
  is not inductive.  The invariant is a ledger: for a live post the counter plus the
  increments still owed is at least the like rows plus the decrements still owed.
  The floor at zero can only lose a decrement, which moves the ledger the safe way.
- `ThreadsStayRooted` (`ThreadRooted`).  Strengthened by what a reply in flight carries:
  the root read with the parent is still the one the parent's row gives, because a
  row never changes once inserted.
- `OnlyTheAuthorDeletes`, `DeletedRowsFrozen`: action properties, from the same invariant.
- `LikesCountOnce` (`LikesCountedOnce`).  An equation, so no floor may come in between: it is
  inductive while nobody unlikes, given that a post not yet inserted has no rows and zero
  counters (`AbsentEmpty`).
- `LikesTakeTurns` (`LikeTransitionsAlternate`), inductive as it stands: `Cardinality` lemmas
  move one request at a time from one side to the other.
- `RepliesAreCovered` (`RepliesNeverUndercounted`), from the ledger `ReplyLedger` of increments
  and decrements owed, strengthened by what a delete request knows of its post
  (`DeleteKnows`) and by each deleted post having a request that deleted it
  (`DeletedByRequest`): it is that request which a second deletion would be counted against.

`OgpPipelineProofs`
- `TypeCorrect`, `ClaimsAreExclusive` from `Foundation`: types, the hook's loop index in range,
  and the claims.
- `PreviewsAtTheirSlot` (`LinksAtOwnSlot`), strengthened by `JobsAtSlot`: each job's
  position holds its hash in the post, which the worker relies on minutes later.
- `FinishedJobsAreFinal`: since a held job is `running`, no closing statement meets a
  finished one.
- `AttemptsStayInBudget` (`AttemptBudget`), from `BudgetInv`: a job queued, or about to be,
  has an attempt left, for every fault one more.
- `DoneJobsAreLinked` (`DoneMeansLinked`), from `LinkedInv`: without faults the cache row
  comes before the link and the link before `done`; cache rows and links are never removed.

`IntrospectCacheProofs` - one invariant, `CacheInv`: entries are dated no later than the
revocation of their token (`EntriesDated`), `inFlight` and the leaders agree
(`LeadersAgree`), a call's answer was true when given and the call is younger than its
timeout (`CallsTrue`), and what a follower will be told is still true enough of its own
clock reading (`WaitsTrue`).  From it: `TypeCorrect`, `RevocationBounded`, `ExpiryBounded`,
`NoFalseLogout`, `OneCallPerToken`.  `CallTimeout < TTL` is needed for a joined call: its
follower may have read the clock up to a timeout after the revocation.

`SocialGraphProofs` - `MirrorInv`: every row, in the table or in the hands of a request, is
no older than its date and no newer than AuthCore (`RowsDated`, `ReqSound`), versions only
grow (`HistoryGrows`), users without a row have the empty one and no edges.  The copies held by
requests are what makes it inductive, since they are written back.  From it: `TypeCorrect`,
`MirrorIsDated`, `FreshIsRecent`, `BioKept`.  `CountsCoverFollows` (`FollowCountsCover`) is a
ledger again, of both counters at once; it rests on `Upsert` keeping the counters of the row in
the table and not those of the copy that is written back.

`FujuDispatcherProofs` - `Typed` adds to the types the bound on the channels and that a call in progress is counted;
`OrderInv` is about the log of a stream, what it has handed over followed by batch
and channel: one caller's items are in the order of its calls (`Ordered`), and none is of a call
still undecided (`Counted`), without which a resend could repeat one.
From it: `TypeCorrect` (the capacity
bound under concurrent drop and resend), `HandedInOrderOnce` (`InOrderOnce`), and
`ImplementsOutbox` (`OutboxSpec`), which maps `pending` to batch followed by channel:
taking from the channel is a stutter, dropping the oldest is a `Lose` in the middle,
and a flush hands over the front.

`FeedProofs` - `FeedInv`, in three parts.
- `Types`: the shape of rows and requests, which `pc` belongs to which use case, and that every
  id in the tables was made before.
- `ScrollInv`: what a scroll has still to show is older than its cursor, on the page in flight,
  or older than the cursor that comes with it; all that is shown is newer.  For the home
  timeline the authors read before the page must still cover what is wanted (`By`): an author
  unfollowed in between is no longer wanted, one followed in between was not wanted all along.
- `ImageInv`: a ULID in flight is fresh, a deletion past the ownership check is the owner's and
  its object gone or traced, a post in flight owns the images it need not check any more.

It rests on lemmas about the operators: `Descending` lists every id once, the greatest first
(`DescendingSorts`, by the number of ids above each), and a page is falling and its next cursor
separates what it shows from what is left (`PostPageSound`).  From it: `ScrollsFall`
(`ShownOnceInOrder`), `ScrollsShowAll` (`ScrollComplete`), `LiveImagesAreBacked`,
`OrphansAreTraced`, `AttachedAreOwn`.

`GateProofs`, on the three small modules around the process.
- `Gate`: `GateInv` says which checks a request at each stage is behind; past `ensureAdmin`
  the caller is an admin, or the request is one of those that had passed when the flag was
  withdrawn.  From it: `OneBadgePerKey` (`KeyHasOneBadge`), `CookiesEnd` (`CookieBounded`, for
  every positive fallback age; cutting an age to whole seconds never lengthens it, and makes
  it 0 exactly below a second) and `WithdrawnAdminsStop`
  (`WithdrawalStops`).
- `ServiceToken`: `TokenInv`, a cached expiry is never later than the real end of the token,
  where AuthCore names one, because it is counted from a clock reading no later than the minting.  From it: `HitsHaveLead`
  (`HitHasLead`).
- `Lifecycle`: `PoolOutlives` (`PoolOutlivesWorker`) and `ClosedUnderNobody`: the phases of
  `main` order the pool, the worker and the dispatcher, and the cleanup; neither goroutine
  runs when the pool is closed or the process ends.

`MemStoreProofs` - each action of `MemStore` is *sound*: it keeps `StoreInv`, and under the
mapping `Tables` it is one step of the contract with its answer, or invisible.  `StoreInv`
has four parts.
- `RowsInv`: each map holds rows of its kind.
- `OgpInv`: the preview links of a post are stored at rising positions, so the list is determined
  by the rows of `post_ogp` alone and needs no sorting when it is read.
- `LinksInv`: links without a post are those that a call of `Create` in flight has written, and
  exactly what it has written so far.  So the two critical sections before `Publish` are
  invisible and `Publish` makes post and links visible at once.  The links that a reader took in
  `ReadLinks` are still those of their post in `ReadImages`, which therefore answers what the
  join answers at that moment.
- `IndexesConsistent`: rows and index entries belong to each other, in both directions.

The sorting that both sides do rests on `RankedSorts` and `RankedOnly`: an `ORDER BY` that puts
finitely many rows in a strict total order (`Line`) lists every row once, in order, and is the only
such list; `SortedSorts` and `SortedOnly` say it for one numeric column.  The loop of
`UpsertByNames` handles one name at a time where the contract has one step for all; `TurnsInv`
says what the first `k` turns have done, and `UpTo`, from the well-foundedness of the numbers,
takes it to the end of the list.  From `StoreInv`: `IndexesStayConsistent` (`IndexesConsistent`)
and `StoreImplementsContract` (`ContractSpec`).

`ReadsAlwaysAgree` (`ReadsAgree`) needs one more invariant, `KeysInv`: users, follows, images and
grants are stored only under subs and ids that a call was given.  It is shown on the steps
of the contract, which are fewer and simpler than the critical sections, and holds of the maps by the
refinement.  Then, suite by suite:
- the page that `paginate` and `listSide` cut out of the whole listing is the one that `LIMIT n + 1`
  finds, with the same cursor and a cursor exactly when rows are left (`ProbedPage`), for every
  pointer that `CursorQuery` makes; one to the empty string lists nothing (`EmptyCursorReads`);
- the comparisons written in Go (`if a != b { return a > b }`) and the row comparisons of the SQL are
  the same relation, and the filters select the same rows, so the listings are equal;
- a list of links at rising positions, filtered, is the join by position (`JoinInOrder`), for images
  and previews alike;
- for `User.List` and `Image.GetByUserID` the SQL order is one of the orders the map may give, with
  the same total, offsets beyond the last row included (`NewestFirst`: no two rows tie).

As in the run, a behaviour stays in one suite, and the proof is for any contents of it.
`StoreAssumption` says only that image lists are lists of images and that the names of one call are
bounded; `OrderAssumption` that subs and ids are finitely many numbers, as everywhere in `PgTables`,
and that priorities, limits and offsets are numbers.

Only model-checked: liveness, which is out of this prover's reach (`JobsFinish`, `UrlsSettle`,
`AcceptedLeaves`, `ShutdownCompletes`, `EveryoneAnswered`, `ExpiredSwept`).
`OnlyAuthorDeletes` is proved and not run: the proof covers every instance.

## 6. Not modelled

- Regular expressions, URL normalisation, HTML parsing and address checks: string and HTTP
  detail, present as outcomes (which URLs share a hash, whether a fetch succeeds).
- JSON views, response wording, logging, error values, CORS and panic recovery: no state.
  `toPostDetailView` renumbers image positions without gaps; positions are compared before it.
- Hydration of a page (authors, images, tags, previews, viewer flags): reads by id, in several
  statements.  A page is what the listing statement returned; that hydration may fail is
  modelled.  In memory these batch reads are not one snapshot either.
- The payloads that the commit hooks build and the emotion model's side of a batch.
- `updated_at`, `deleted_at` as an instant, and the wording of rows.
- `IntrospectCache.Invalidate`, `UserRepository.Delete` in the use cases: no callers
  (`Delete` is in the repository modules).

## 7. Running

    tlc -config MCService.cfg MCService
    tlc -config MCOgpPipeline.cfg MCOgpPipeline
    tlc -config MCFujuDispatcher.cfg MCFujuDispatcher
    tlc -config MCIntrospectCache.cfg MCIntrospectCache
    tlc -config MCSocialGraph.cfg MCSocialGraph
    tlc -config MCMemStore.cfg MCMemStore
    tlc -config MCFeed.cfg MCFeed
    tlc -config MCSessionCookie.cfg MCGate
    tlapm PostEngagementProofs.tla    (and the other ...Proofs modules)
