---------------------------- MODULE OgpPipeline ----------------------------
(***************************************************************************)
(* Link previews: the post-commit enqueuer and the background workers of   *)
(* internal/usecase/ogp, over the tables ogp_cache, ogp_jobs and post_ogp. *)
(*                                                                         *)
(* A new post's hook walks the URLs of its content; a worker claims a job, *)
(* fetches the page, writes the cache row, links it to the post and closes *)
(* the job.  Every statement is its own transaction, so one action is one  *)
(* statement (or one HTTP fetch) and everything else interleaves.          *)
(*                                                                         *)
(* A URL is represented by the hash of its normalised form: two URLs of a  *)
(* post may share one, and Bad stands for a URL that Normalize rejects.    *)
(* The fetcher normalises the job's URL once more, and what it finds goes  *)
(* by the hash of the result.  That may be another hash: the ideographic   *)
(* full stop after a host becomes a dot, and the second pass drops it.     *)
(*                                                                         *)
(* Faults (a statement that fails, a request or process that stops) take   *)
(* from a budget of MaxFaults.                                             *)
(***************************************************************************)
EXTENDS Integers, Sequences, FiniteSets

CONSTANTS
    Posts, Workers,
    Hashes,       \* url_hash values
    Bad,          \* a URL that does not normalise
    Content,      \* ExtractURLs of each post, as hashes
    Renormalized, \* the hash of each URL after the fetcher's Normalize
    Oversized,    \* pages whose metadata does not fit the ogp_cache columns
    LongErrors,   \* URLs with fetch errors that do not fit last_error: the
                  \* text quotes the URL, or that of a redirect
    SuccessTTL, ErrorTTL, MaxAttempts,
    MaxTime,      \* bound: the clock stops there
    MaxFaults     \* bound: faults in one behaviour

ASSUME OgpAssumption ==
    /\ Bad \notin Hashes
    /\ Content \in [Posts -> Seq(Hashes \cup {Bad})]
    /\ Renormalized \in [Hashes -> Hashes]
    /\ Oversized \subseteq Hashes /\ LongErrors \subseteq Hashes
    /\ SuccessTTL \in Nat \ {0} /\ ErrorTTL \in Nat \ {0}
    /\ MaxAttempts \in Nat \ {0}
    /\ MaxTime \in Nat /\ MaxFaults \in Nat

VARIABLES
    clock,   \* wall clock, shared by database and processes
    cache,   \* ogp_cache: status and expires_at of each row
    jobs,    \* ogp_jobs in enqueued_at order
    links,   \* post_ogp: the <<url_hash, position>> rows of each post
    hook,    \* EnqueueForPost of each post: pc, loop index, captured `now'
    wk,      \* each worker: pc, index of its job, time its fetch ended, and
             \* whether the text of its error fits last_error
    faults

vars == <<clock, cache, jobs, links, hook, wk, faults>>

JobStatus == {"queued", "running", "done", "failed"}
HookPC == {"idle", "lookup", "attach", "enqueue", "done"}
WorkerPC == {"idle", "fetch", "upsertOk", "attach", "markDone",
             "requeue", "upsertErr", "markFailed"}

\* Bound: only `attempts < MaxAttempts' is ever asked, so attempts may
\* saturate at any value that is not below MaxAttempts.
AttemptCap == MaxAttempts + MaxFaults

Job == [hash : Hashes, post : Posts, pos : Nat \ {0},
        status : JobStatus, attempts : 0..AttemptCap]

TypeOK ==
    /\ clock \in Nat
    /\ cache \in [Hashes -> [status : {"none", "ok", "error"}, expires : Nat]]
    /\ jobs \in Seq(Job)
    /\ links \in [Posts -> SUBSET (Hashes \X (Nat \ {0}))]
    /\ hook \in [Posts -> [pc : HookPC, pos : Nat \ {0}, now : Nat]]
    /\ wk \in [Workers -> [pc : WorkerPC, job : Nat, at : Nat, fits : BOOLEAN]]
    /\ faults \in Nat

Idle == [pc |-> "idle", job |-> 0, at |-> 0, fits |-> TRUE]

Init ==
    /\ clock = 0
    /\ cache = [h \in Hashes |-> [status |-> "none", expires |-> 0]]
    /\ jobs = << >>
    /\ links = [p \in Posts |-> {}]
    /\ hook = [p \in Posts |-> [pc |-> "idle", pos |-> 1, now |-> 0]]
    /\ wk = [w \in Workers |-> Idle]
    /\ faults = 0

-----------------------------------------------------------------------------
(* Repository statements. *)

\* Get, then IsExpired against a `now' the caller read earlier.
Fresh(h, now) == cache[h].status # "none" /\ now < cache[h].expires

\* Mutant: jobs that do not carry the slot, every link made at the first.
LinkFirstSlot(p, h, i) ==
    IF \E l \in links[p] : l[1] = h \/ l[2] = 1
    THEN links ELSE [links EXCEPT ![p] = @ \cup {<<h, 1>>}]

\* AttachOGP: ON CONFLICT DO NOTHING on (post, hash) and on (post, position);
\* a hash without a cache row is refused by the foreign key, an error that
\* both callers log and drop.
LinkSlot(p, h, i) ==
    IF cache[h].status = "none" \/ \E l \in links[p] : l[1] = h \/ l[2] = i
    THEN links ELSE [links EXCEPT ![p] = @ \cup {<<h, i>>}]

SetStatus(j, s) == jobs' = [jobs EXCEPT ![j].status = s]

\* MarkFailed of a worker's job.  An error text that last_error has no room
\* for makes the UPDATE fail, which is logged: the job stays `running'.
RecordError(w, s) ==
    IF wk[w].fits THEN SetStatus(wk[w].job, s) ELSE UNCHANGED jobs

-----------------------------------------------------------------------------
(* Enqueuer.EnqueueForPost *)

Url(p) == Content[p][hook[p].pos]

HookAt(p, at) == hook[p].pc = at

HookTo(p, at) == hook' = [hook EXCEPT ![p].pc = at]

\* Values that are not read again are reset, here and in Release and WorkerTo.
HookDone == [pc |-> "done", pos |-> 1, now |-> 0]

\* The loop goes on with the next URL or ends.
NextUrl(p) ==
    hook' = [hook EXCEPT ![p] =
               IF @.pos < Len(Content[p])
               THEN [pc |-> "lookup", pos |-> @.pos + 1, now |-> @.now]
               ELSE HookDone]

\* The post is committed; `now' is read once for all its URLs.
HookBegin(p) ==
    /\ HookAt(p, "idle")
    /\ hook' = [hook EXCEPT ![p] =
                  IF Content[p] = << >> THEN HookDone
                  ELSE [pc |-> "lookup", pos |-> 1, now |-> clock]]
    /\ UNCHANGED <<clock, cache, jobs, links, wk, faults>>

\* Normalize and cache.Get.  A fresh error row means: neither card nor job.
HookLookup(p) ==
    /\ HookAt(p, "lookup")
    /\ \/ Url(p) = Bad /\ NextUrl(p)
       \/ /\ Url(p) # Bad
          /\ \/ ~Fresh(Url(p), hook[p].now) /\ HookTo(p, "enqueue")
             \/ /\ Fresh(Url(p), hook[p].now)
                /\ IF cache[Url(p)].status = "ok" THEN HookTo(p, "attach")
                                                  ELSE NextUrl(p)
    /\ UNCHANGED <<clock, cache, jobs, links, wk, faults>>

HookAttach(p) ==
    /\ HookAt(p, "attach")
    /\ links' = LinkSlot(p, Url(p), hook[p].pos)
    /\ NextUrl(p)
    /\ UNCHANGED <<clock, cache, jobs, wk, faults>>

\* queue.Enqueue under a new ULID.
HookEnqueue(p) ==
    /\ HookAt(p, "enqueue")
    /\ jobs' = Append(jobs, [hash |-> Url(p), post |-> p, pos |-> hook[p].pos,
                             status |-> "queued", attempts |-> 0])
    /\ NextUrl(p)
    /\ UNCHANGED <<clock, cache, links, wk, faults>>

HookStep(p) == HookLookup(p) \/ HookAttach(p) \/ HookEnqueue(p)

-----------------------------------------------------------------------------
(* Worker.Run *)

WorkerAt(w, at) == wk[w].pc = at

WorkerTo(w, at) ==
    wk' = [wk EXCEPT ![w] = [pc |-> at, job |-> @.job, at |-> 0, fits |-> @.fits]]

Release(w) == wk' = [wk EXCEPT ![w] = Idle]

Hash(w) == jobs[wk[w].job].hash

\* preview.URLHash, the hash of what the fetcher asked for.
PreviewHash(w) == Renormalized[Hash(w)]

Take(w, j) ==
    /\ jobs' = [jobs EXCEPT ![j].status = "running",
                            ![j].attempts = IF @ < AttemptCap THEN @ + 1 ELSE @]
    /\ wk' = [wk EXCEPT ![w] = [pc |-> "fetch", job |-> j, at |-> 0, fits |-> TRUE]]
    /\ UNCHANGED <<clock, cache, links, hook, faults>>

\* Mutant: the oldest job that is not finished, locked or not.
ClaimUnlocked(w) ==
    /\ WorkerAt(w, "idle")
    /\ \E j \in 1..Len(jobs) :
         /\ jobs[j].status \in {"queued", "running"}
         /\ \A k \in 1..(j - 1) : jobs[k].status \notin {"queued", "running"}
         /\ Take(w, j)

\* Mutant: the attempt is not counted.
ClaimUncounted(w) ==
    /\ WorkerAt(w, "idle")
    /\ \E j \in 1..Len(jobs) :
         /\ jobs[j].status = "queued"
         /\ \A k \in 1..(j - 1) : jobs[k].status # "queued"
         /\ SetStatus(j, "running")
         /\ wk' = [wk EXCEPT ![w] = [pc |-> "fetch", job |-> j, at |-> 0, fits |-> TRUE]]
         /\ UNCHANGED <<clock, cache, links, hook, faults>>

\* The oldest queued job, FOR UPDATE SKIP LOCKED.
Claim(w) ==
    /\ WorkerAt(w, "idle")
    /\ \E j \in 1..Len(jobs) :
         /\ jobs[j].status = "queued"
         /\ \A k \in 1..(j - 1) : jobs[k].status # "queued"
         /\ Take(w, j)

\* fetcher.Fetch ends; the TTL is counted from this moment.
FetchEnds(w, to, now, fits) ==
    /\ WorkerAt(w, "fetch")
    /\ wk' = [wk EXCEPT ![w] = [pc |-> to, job |-> @.job, at |-> now, fits |-> fits]]
    /\ UNCHANGED <<clock, cache, jobs, links, hook, faults>>

FetchOk(w) == FetchEnds(w, "upsertOk", clock, TRUE)

\* err.Error() is stored as it is; some errors quote a URL and some do not.
ErrorFits(w) == IF Hash(w) \in LongErrors THEN BOOLEAN ELSE {TRUE}

\* Mutant: one attempt too many.
FetchRetryOnceMore(w) ==
    /\ WorkerAt(w, "fetch")
    /\ jobs[wk[w].job].attempts <= MaxAttempts
    /\ \E fits \in ErrorFits(w) : FetchEnds(w, "requeue", 0, fits)

\* A retriable error with attempts left.
FetchRetry(w) ==
    /\ WorkerAt(w, "fetch")
    /\ jobs[wk[w].job].attempts < MaxAttempts
    /\ \E fits \in ErrorFits(w) : FetchEnds(w, "requeue", 0, fits)

\* A terminal error, or a retriable one on the last attempt.
FetchGiveUp(w) ==
    /\ WorkerAt(w, "fetch")
    /\ \E fits \in ErrorFits(w) : FetchEnds(w, "upsertErr", clock, fits)

Upsert(w, h, s, ttl) ==
    cache' = [cache EXCEPT ![h] = [status |-> s, expires |-> wk[w].at + ttl]]

\* Mutant: the link is tried before its cache row is written.
AttachFirst(w) ==
    /\ WorkerAt(w, "upsertOk")
    /\ WorkerTo(w, "attach")
    /\ UNCHANGED <<clock, cache, jobs, links, hook, faults>>

UpsertOk(w) ==
    /\ WorkerAt(w, "upsertOk")
    /\ PreviewHash(w) \notin Oversized
    /\ Upsert(w, PreviewHash(w), "ok", SuccessTTL)
    /\ WorkerTo(w, "attach")
    /\ UNCHANGED <<clock, jobs, links, hook, faults>>

\* A title or description longer than its column: the job is requeued with
\* no look at its attempts.
UpsertRejected(w) ==
    /\ WorkerAt(w, "upsertOk")
    /\ PreviewHash(w) \in Oversized
    /\ WorkerTo(w, "requeue")
    /\ UNCHANGED <<clock, cache, jobs, links, hook, faults>>

WorkerAttach(w) ==
    LET job == jobs[wk[w].job] IN
    /\ WorkerAt(w, "attach")
    /\ links' = LinkSlot(job.post, PreviewHash(w), job.pos)
    /\ WorkerTo(w, "markDone")
    /\ UNCHANGED <<clock, cache, jobs, hook, faults>>

MarkDone(w) ==
    /\ WorkerAt(w, "markDone")
    /\ SetStatus(wk[w].job, "done")
    /\ Release(w)
    /\ UNCHANGED <<clock, cache, links, hook, faults>>

\* MarkFailed(retriable): queued again, keeping its place in the order.
Requeue(w) ==
    /\ WorkerAt(w, "requeue")
    /\ RecordError(w, "queued")
    /\ Release(w)
    /\ UNCHANGED <<clock, cache, links, hook, faults>>

\* Mutant: the terminal path falls through to MarkDone.
UpsertErrThenDone(w) ==
    /\ WorkerAt(w, "upsertErr")
    /\ Upsert(w, Hash(w), "error", ErrorTTL)
    /\ WorkerTo(w, "markDone")
    /\ UNCHANGED <<clock, jobs, links, hook, faults>>

UpsertErr(w) ==
    /\ WorkerAt(w, "upsertErr")
    /\ Upsert(w, Hash(w), "error", ErrorTTL)
    /\ WorkerTo(w, "markFailed")
    /\ UNCHANGED <<clock, jobs, links, hook, faults>>

MarkFailed(w) ==
    /\ WorkerAt(w, "markFailed")
    /\ RecordError(w, "failed")
    /\ Release(w)
    /\ UNCHANGED <<clock, cache, links, hook, faults>>

WorkerStep(w) ==
    \/ Claim(w) \/ FetchOk(w) \/ FetchRetry(w) \/ FetchGiveUp(w)
    \/ UpsertOk(w) \/ UpsertRejected(w) \/ WorkerAttach(w) \/ MarkDone(w)
    \/ Requeue(w) \/ UpsertErr(w) \/ MarkFailed(w)

-----------------------------------------------------------------------------
(* Time and faults. *)

Tick ==
    /\ clock < MaxTime
    /\ clock' = clock + 1
    /\ UNCHANGED <<cache, jobs, links, hook, wk, faults>>

Fault == faults < MaxFaults /\ faults' = faults + 1

\* cache.Get fails: the URL is treated as a miss.
LookupFails(p) ==
    /\ Fault
    /\ HookAt(p, "lookup") /\ Url(p) # Bad
    /\ HookTo(p, "enqueue")
    /\ UNCHANGED <<clock, cache, jobs, links, wk>>

\* AttachOGP or Enqueue fails: logged, and the loop goes on.
HookWriteFails(p) ==
    /\ Fault
    /\ hook[p].pc \in {"attach", "enqueue"}
    /\ NextUrl(p)
    /\ UNCHANGED <<clock, cache, jobs, links, wk>>

\* The request's deadline or the end of the process: the rest is not done.
HookStops(p) ==
    /\ Fault
    /\ hook[p].pc \notin {"idle", "done"}
    /\ hook' = [hook EXCEPT ![p] = HookDone]
    /\ UNCHANGED <<clock, cache, jobs, links, wk>>

\* cache.Upsert of a preview fails, having taken effect or not.
UpsertOkFails(w) ==
    /\ Fault
    /\ WorkerAt(w, "upsertOk") /\ PreviewHash(w) \notin Oversized
    /\ Upsert(w, PreviewHash(w), "ok", SuccessTTL) \/ UNCHANGED cache
    /\ WorkerTo(w, "requeue")
    /\ UNCHANGED <<clock, jobs, links, hook>>

\* These two failures are logged and passed over.
AttachFails(w) == WorkerAt(w, "attach") /\ WorkerTo(w, "markDone")

UpsertErrFails(w) == WorkerAt(w, "upsertErr") /\ WorkerTo(w, "markFailed")

WorkerWriteFails(w) ==
    /\ Fault
    /\ AttachFails(w) \/ UpsertErrFails(w)
    /\ UNCHANGED <<clock, cache, jobs, links, hook>>

\* The worker forgets its job, which stays `running': the answer of Claim is
\* lost, MarkDone or MarkFailed fails, or the process stops (a cancelled
\* context makes every later statement of the job fail).
Abandon(w) ==
    /\ Fault
    /\ wk[w].pc # "idle"
    /\ Release(w)
    /\ UNCHANGED <<clock, cache, jobs, links, hook>>

Next ==
    \/ \E p \in Posts : HookBegin(p) \/ HookStep(p) \/ LookupFails(p)
                        \/ HookWriteFails(p) \/ HookStops(p)
    \/ \E w \in Workers : WorkerStep(w) \/ UpsertOkFails(w)
                          \/ WorkerWriteFails(w) \/ Abandon(w)
    \/ Tick

Spec == Init /\ [][Next]_vars

\* The goroutines of a request and of a worker keep running; every statement
\* and every fetch has a timeout, so each of their steps ends.
FairSpec == /\ Spec
            /\ \A p \in Posts : WF_vars(HookStep(p))
            /\ \A w \in Workers : WF_vars(WorkerStep(w))

-----------------------------------------------------------------------------
Busy(w) == wk[w].pc # "idle"

\* The hashes under which a URL's preview may be linked: by the hook, that of
\* the URL, by a worker, that of the URL it fetched.
PreviewHashes(h) == {h, Renormalized[h]}

\* The job of a worker is `running' and no other worker has it: Claim hands
\* out distinct jobs, and none is handed out again before it is given back,
\* whatever is abandoned, requeued or finished in between.
ClaimExclusive ==
    \A w \in Workers : Busy(w) =>
      /\ wk[w].job \in 1..Len(jobs)
      /\ jobs[wk[w].job].status = "running"
      /\ \A v \in Workers \ {w} : Busy(v) => wk[v].job # wk[w].job

\* A preview sits at the position its URL has in the post, one at a position,
\* and under one hash a post has one, whether the hook or a worker links it,
\* in whatever order the jobs finish (the reason for ogp_jobs.position).
LinksAtOwnSlot ==
    \A p \in Posts : \A l \in links[p] :
      /\ l[2] \in 1..Len(Content[p])
      /\ Content[p][l[2]] \in Hashes /\ l[1] \in PreviewHashes(Content[p][l[2]])
      /\ \A m \in links[p] : m[1] = l[1] \/ m[2] = l[2] => m = l

\* Attempts at a page that fits the columns stay within MaxAttempts: only a
\* cache write that failed after a successful fetch can add one.
AttemptBudget ==
    \A j \in 1..Len(jobs) : Renormalized[jobs[j].hash] \notin Oversized
                               => jobs[j].attempts <= MaxAttempts + faults

\* done and failed are final: MarkDone and MarkFailed match on the id alone,
\* so this rests on nobody else working on the job.
FinishedJobFinal ==
    [][\A j \in 1..Len(jobs) : jobs[j].status \in {"done", "failed"}
                                => jobs'[j] = jobs[j]]_vars

\* With no fault, a job is done only when its page is linked to its post.
DoneMeansLinked ==
    faults = 0 =>
      \A j \in 1..Len(jobs) : jobs[j].status = "done" =>
        \E l \in links[jobs[j].post] : l[1] \in PreviewHashes(jobs[j].hash)

\* A job that a refused MarkFailed has left behind: `running', and nobody's.
\* No sweep ever takes it up again.
Stranded(j) ==
    /\ jobs[j].hash \in LongErrors /\ jobs[j].status = "running"
    /\ \A w \in Workers : Busy(w) => wk[w].job # j

Closed(j) == jobs[j].status \in {"done", "failed"} \/ Stranded(j)

\* Every job of a page that fits the columns is finished, unless an error text
\* that does not fit strands it: retries at the head of the queue neither run
\* for ever nor keep the jobs behind them waiting.
JobsFinish ==
    \A p \in Posts : \A i \in 1..Len(Content[p]) :
      LET open(j) == /\ jobs[j].post = p /\ jobs[j].pos = i
                     /\ Renormalized[jobs[j].hash] \notin Oversized
                     /\ ~Closed(j) IN
      (\E j \in 1..Len(jobs) : open(j)) ~> (\A j \in 1..Len(jobs) : ~open(j))

\* Every URL of a committed post ends linked to it, unless a fetch of it has
\* failed for good or stranded its job: no order of hook, workers and expiry
\* loses one.
UrlsSettle ==
    \A p \in Posts : \A i \in 1..Len(Content[p]) :
      LET h == Content[p][i] IN
      hook[p].pc # "idle" ~>
        \/ h = Bad
        \/ \E l \in links[p] : l[1] \in PreviewHashes(h)
        \/ \E j \in 1..Len(jobs) :
             jobs[j].hash = h /\ (jobs[j].status = "failed" \/ Stranded(j))
=============================================================================
