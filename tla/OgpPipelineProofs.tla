------------------------- MODULE OgpPipelineProofs -------------------------
(***************************************************************************)
(* Link previews for every set of posts, pages and workers, every content  *)
(* and every number of faults.                                             *)
(***************************************************************************)
EXTENDS OgpPipeline, SequenceTheorems, TLAPS

\* Inside its loop the hook stands at a URL of the post, and it only attaches
\* or enqueues one that normalises.
HookInRange ==
    \A p \in Posts :
      /\ hook[p].pc \in {"lookup", "attach", "enqueue"}
           => hook[p].pos \in 1..Len(Content[p])
      /\ hook[p].pc \in {"attach", "enqueue"} => Url(p) \in Hashes

Foundation == TypeOK /\ HookInRange /\ ClaimExclusive

\* A job carries the page that its post has at the job's position.
JobsAtSlot ==
    \A j \in 1..Len(jobs) :
      /\ jobs[j].pos \in 1..Len(Content[jobs[j].post])
      /\ Content[jobs[j].post][jobs[j].pos] = jobs[j].hash

SlotInv == Foundation /\ JobsAtSlot /\ LinksAtOwnSlot

-----------------------------------------------------------------------------
(* Updates of the job table. *)

\* Setting the status of a job changes that job only, and only its status.
LEMMA SetStatusEffect ==
    ASSUME jobs \in Seq(Job), NEW j \in 1..Len(jobs), NEW s \in JobStatus,
           SetStatus(j, s)
    PROVE  /\ jobs' \in Seq(Job) /\ Len(jobs') = Len(jobs)
           /\ \A k \in 1..Len(jobs) :
                jobs'[k] = IF k = j THEN [jobs[j] EXCEPT !.status = s] ELSE jobs[k]
  <1> DEFINE x == [jobs[j] EXCEPT !.status = s]
  <1>1. jobs[j] \in Job
    BY ElementOfSeq
  <1>2. x \in Job
    BY <1>1 DEF Job
  <1>3. jobs' = [jobs EXCEPT ![j] = x]
    BY DEF SetStatus
  <1> QED
    BY <1>2, <1>3, ExceptSeq

\* Claiming a job marks it running and leaves its slot alone.
LEMMA TakeEffect ==
    ASSUME jobs \in Seq(Job), NEW w, NEW j \in 1..Len(jobs), Take(w, j)
    PROVE  /\ jobs' \in Seq(Job) /\ Len(jobs') = Len(jobs)
           /\ \A k \in 1..Len(jobs) : k # j => jobs'[k] = jobs[k]
           /\ jobs'[j].status = "running"
           /\ jobs'[j].hash = jobs[j].hash /\ jobs'[j].post = jobs[j].post
           /\ jobs'[j].pos = jobs[j].pos
  <1> DEFINE n == IF jobs[j].attempts < AttemptCap THEN jobs[j].attempts + 1
                                                   ELSE jobs[j].attempts
             x == [jobs[j] EXCEPT !.status = "running", !.attempts = n]
  <1>1. jobs[j] \in Job
    BY ElementOfSeq
  <1>2. AttemptCap \in Nat /\ n \in 0..AttemptCap
    BY <1>1, OgpAssumption DEF Job, AttemptCap
  <1>3. x \in Job
    BY <1>1, <1>2 DEF Job, JobStatus
  <1>4. jobs' = [jobs EXCEPT ![j] = x]
    BY <1>1, LenProperties DEF Take, Job
  <1>5. /\ x.status = "running" /\ x.hash = jobs[j].hash
        /\ x.post = jobs[j].post /\ x.pos = jobs[j].pos
    BY <1>1 DEF Job
  <1> HIDE DEF x
  <1>6. jobs' \in Seq(Job) /\ Len(jobs') = Len(jobs)
    BY <1>3, <1>4, ExceptSeq
  <1>7. \A k \in 1..Len(jobs) : jobs'[k] = IF k = j THEN x ELSE jobs[k]
    BY <1>3, <1>4, ExceptSeq
  <1> QED
    BY <1>5, <1>6, <1>7

\* A new job goes to the end.
LEMMA AppendEffect ==
    ASSUME jobs \in Seq(Job), NEW x \in Job, jobs' = Append(jobs, x)
    PROVE  /\ jobs' \in Seq(Job) /\ Len(jobs') = Len(jobs) + 1
           /\ \A k \in 1..Len(jobs) : jobs'[k] = jobs[k]
           /\ jobs'[Len(jobs) + 1] = x
  BY AppendProperties

-----------------------------------------------------------------------------
(* The foundation: types, the hook's loop and exclusive claims. *)

HookType == [pc : HookPC, pos : Nat \ {0}, now : Nat]

\* Moving to the next URL keeps the hook inside the content.
LEMMA NextUrlEffect ==
    ASSUME TypeOK, HookInRange, NEW p \in Posts, NextUrl(p),
           hook[p].pc \in {"lookup", "attach", "enqueue"}
    PROVE  hook' \in [Posts -> HookType] /\ HookInRange'
  <1> DEFINE x == IF hook[p].pos < Len(Content[p])
                  THEN [pc |-> "lookup", pos |-> hook[p].pos + 1,
                        now |-> hook[p].now]
                  ELSE HookDone
  <1>1. hook \in [Posts -> HookType] /\ Len(Content[p]) \in Nat
    BY OgpAssumption DEF TypeOK, HookType
  <1>2. hook' = [hook EXCEPT ![p] = x]
    BY DEF NextUrl
  <1>3. hook[p].pos \in 1..Len(Content[p])
    BY DEF HookInRange
  <1>4. /\ x \in HookType /\ x.pc \in {"lookup", "done"}
        /\ x.pc = "lookup" => x.pos \in 1..Len(Content[p])
    BY <1>1, <1>3 DEF HookType, HookPC, HookDone
  <1> HIDE DEF x
  <1>5. hook' \in [Posts -> HookType]
    BY <1>1, <1>2, <1>4
  <1>6. HookInRange'
    BY <1>1, <1>2, <1>4 DEF HookInRange, Url
  <1> QED
    BY <1>5, <1>6

\* A change of the hook's pc inside the loop.
LEMMA HookToEffect ==
    ASSUME TypeOK, HookInRange, NEW p \in Posts, NEW at \in {"attach", "enqueue"},
           HookTo(p, at), hook[p].pc = "lookup", Url(p) \in Hashes
    PROVE  hook' \in [Posts -> HookType] /\ HookInRange'
  <1>1. hook \in [Posts -> HookType]
    BY DEF TypeOK, HookType
  <1>2. hook' = [hook EXCEPT ![p] = [hook[p] EXCEPT !.pc = at]]
    BY DEF HookTo
  <1>3. hook' \in [Posts -> HookType]
    BY <1>1, <1>2 DEF HookType, HookPC
  <1>4. HookInRange'
    BY <1>1, <1>2 DEF HookInRange, Url, HookType
  <1> QED
    BY <1>3, <1>4

\* The current URL of a hook in its loop is a page or Bad.
LEMMA UrlType ==
    ASSUME HookInRange, NEW p \in Posts,
           hook[p].pc \in {"lookup", "attach", "enqueue"}
    PROVE  Url(p) \in Hashes \cup {Bad}
  BY OgpAssumption, ElementOfSeq DEF HookInRange, Url

\* Linking keeps post_ogp well typed.
LEMMA LinkType ==
    ASSUME TypeOK, NEW p \in Posts, NEW h \in Hashes, NEW i \in Nat \ {0}
    PROVE  LinkSlot(p, h, i) \in [Posts -> SUBSET (Hashes \X (Nat \ {0}))]
  BY DEF TypeOK, LinkSlot

\* A step of the hook that leaves the other variables alone.
LEMMA HookFrame ==
    ASSUME Foundation, hook' \in [Posts -> HookType], HookInRange',
           UNCHANGED <<clock, cache, jobs, links, wk>>, faults' \in Nat
    PROVE  Foundation'
  BY DEF Foundation, TypeOK, HookType, ClaimExclusive, Busy

WorkerType == [pc : WorkerPC, job : Nat, at : Nat, fits : BOOLEAN]
CacheType == [Hashes -> [status : {"none", "ok", "error"}, expires : Nat]]
LinksType == [Posts -> SUBSET (Hashes \X (Nat \ {0}))]

\* A worker goes on with the job it has.
LEMMA MoveFrame ==
    ASSUME Foundation, NEW w \in Workers, Busy(w), NEW x \in WorkerType,
           x.pc # "idle", x.job = wk[w].job, wk' = [wk EXCEPT ![w] = x],
           UNCHANGED <<clock, jobs, hook>>,
           cache' \in CacheType, links' \in LinksType, faults' \in Nat
    PROVE  Foundation'
  <1>1. TypeOK'
    BY DEF Foundation, TypeOK, WorkerType, CacheType, LinksType
  <1>2. HookInRange'
    BY DEF Foundation, HookInRange, Url
  <1>3. ClaimExclusive'
    BY DEF Foundation, TypeOK, ClaimExclusive, Busy
  <1> QED
    BY <1>1, <1>2, <1>3 DEF Foundation

\* A worker lets its job go, whatever it wrote to that job.
LEMMA ReleaseFrame ==
    ASSUME Foundation, NEW w \in Workers, Busy(w), Release(w),
           jobs' \in Seq(Job), Len(jobs') = Len(jobs),
           \A k \in 1..Len(jobs) : k # wk[w].job => jobs'[k] = jobs[k],
           UNCHANGED <<clock, cache, links, hook>>, faults' \in Nat
    PROVE  Foundation'
  <1>1. TypeOK'
    BY DEF Foundation, TypeOK, Release, Idle, WorkerPC
  <1>2. HookInRange'
    BY DEF Foundation, HookInRange, Url
  <1>3. ClaimExclusive'
    BY DEF Foundation, TypeOK, ClaimExclusive, Busy, Release, Idle
  <1> QED
    BY <1>1, <1>2, <1>3 DEF Foundation

\* A claim: the job was queued, so no worker had it.
LEMMA TakeFrame ==
    ASSUME Foundation, NEW w \in Workers, ~Busy(w), NEW j \in 1..Len(jobs),
           jobs[j].status = "queued", Take(w, j)
    PROVE  Foundation'
  <1>1. /\ jobs' \in Seq(Job) /\ Len(jobs') = Len(jobs)
        /\ \A k \in 1..Len(jobs) : k # j => jobs'[k] = jobs[k]
        /\ jobs'[j].status = "running"
    BY TakeEffect DEF Foundation, TypeOK
  <1>2. wk' = [wk EXCEPT ![w] = [pc |-> "fetch", job |-> j, at |-> 0, fits |-> TRUE]]
    BY DEF Take
  <1>3. TypeOK'
    BY <1>1, <1>2 DEF Foundation, TypeOK, Take, WorkerPC
  <1>4. HookInRange'
    BY DEF Foundation, HookInRange, Url, Take
  <1>5. \A v \in Workers \ {w} : Busy(v) => wk[v].job # j
    BY DEF Foundation, ClaimExclusive
  <1>6. ClaimExclusive'
    BY <1>1, <1>2, <1>5 DEF Foundation, TypeOK, ClaimExclusive, Busy
  <1> QED
    BY <1>3, <1>4, <1>6 DEF Foundation

\* The row a worker writes has the type of the cache.
LEMMA UpsertType ==
    ASSUME Foundation, NEW w \in Workers, Busy(w), NEW h \in Hashes,
           NEW s \in {"ok", "error"}, NEW ttl \in Nat, Upsert(w, h, s, ttl)
    PROVE  cache' \in CacheType
  <1>1. wk[w].at + ttl \in Nat
    BY DEF Foundation, TypeOK
  <1> QED
    BY <1>1 DEF Upsert, Foundation, TypeOK, CacheType

\* The URL of a worker's job and the one it fetches have a hash.
LEMMA WorkerHashes ==
    ASSUME Foundation, NEW w \in Workers, Busy(w)
    PROVE  Hash(w) \in Hashes /\ PreviewHash(w) \in Hashes
  <1>1. jobs[wk[w].job] \in Job
    BY ElementOfSeq DEF Foundation, TypeOK, ClaimExclusive
  <1>2. Hash(w) \in Hashes
    BY <1>1 DEF Job, Hash
  <1> QED
    BY <1>2, OgpAssumption DEF PreviewHash

\* MarkFailed writes the status of the worker's job or nothing.
LEMMA RecordErrorEffect ==
    ASSUME Foundation, NEW w \in Workers, Busy(w), NEW s \in JobStatus,
           RecordError(w, s)
    PROVE  /\ jobs' \in Seq(Job) /\ Len(jobs') = Len(jobs)
           /\ \A k \in 1..Len(jobs) : k # wk[w].job => jobs'[k] = jobs[k]
  <1>1. wk[w].job \in 1..Len(jobs) /\ jobs \in Seq(Job)
    BY DEF Foundation, ClaimExclusive, TypeOK
  <1>2. CASE SetStatus(wk[w].job, s)
    BY <1>1, <1>2, SetStatusEffect
  <1>3. CASE UNCHANGED jobs
    BY <1>1, <1>3
  <1> QED
    BY <1>2, <1>3 DEF RecordError

\* A worker's step with an error path: it keeps its job.
LEMMA WorkerToFrame ==
    ASSUME Foundation, NEW w \in Workers, Busy(w),
           NEW at \in WorkerPC \ {"idle"}, WorkerTo(w, at),
           UNCHANGED <<clock, jobs, hook>>,
           cache' \in CacheType, links' \in LinksType, faults' \in Nat
    PROVE  Foundation'
  <1> DEFINE x == [pc |-> at, job |-> wk[w].job, at |-> 0, fits |-> wk[w].fits]
  <1>1. wk \in [Workers -> WorkerType]
    BY DEF Foundation, TypeOK, WorkerType
  <1>2. wk' = [wk EXCEPT ![w] = x]
    BY DEF WorkerTo
  <1>3. x \in WorkerType /\ x.pc # "idle" /\ x.job = wk[w].job
    BY <1>1 DEF WorkerType
  <1> HIDE DEF x
  <1> QED
    BY <1>2, <1>3, MoveFrame

\* The end of a fetch keeps the job.
LEMMA FetchFrame ==
    ASSUME Foundation, NEW w \in Workers, NEW to \in WorkerPC \ {"idle"},
           NEW now \in Nat, NEW fits \in BOOLEAN, FetchEnds(w, to, now, fits)
    PROVE  Foundation'
  <1> DEFINE x == [pc |-> to, job |-> wk[w].job, at |-> now, fits |-> fits]
  <1>1. wk \in [Workers -> WorkerType]
    BY DEF Foundation, TypeOK, WorkerType
  <1>2. wk' = [wk EXCEPT ![w] = x]
    BY DEF FetchEnds
  <1>3. x \in WorkerType /\ x.pc # "idle" /\ x.job = wk[w].job
    BY <1>1 DEF WorkerType
  <1>4. /\ Busy(w) /\ UNCHANGED <<clock, jobs, hook>>
        /\ cache' \in CacheType /\ links' \in LinksType /\ faults' \in Nat
    BY DEF FetchEnds, WorkerAt, Busy, Foundation, TypeOK, CacheType, LinksType
  <1> HIDE DEF x
  <1> QED
    BY <1>2, <1>3, <1>4, MoveFrame

\* The initial state is well founded.
LEMMA FoundationInit == Init => Foundation
  BY OgpAssumption
     DEF Init, Foundation, TypeOK, HookInRange, ClaimExclusive, Busy, HookPC,
         WorkerPC, Idle

\* Every step keeps the types, the hook's loop and the claims.
LEMMA FoundationStep == Foundation /\ [Next]_vars => Foundation'
  <1> SUFFICES ASSUME Foundation, [Next]_vars
               PROVE  Foundation'
    OBVIOUS
  <1>a. TypeOK /\ HookInRange /\ ClaimExclusive /\ faults \in Nat /\ clock \in Nat
    BY DEF Foundation, TypeOK
  <1>b. faults \in Nat /\ cache \in CacheType /\ links \in LinksType
    BY <1>a DEF TypeOK, CacheType, LinksType
  <1>1. ASSUME NEW p \in Posts, HookBegin(p)
        PROVE  Foundation'
    <2> DEFINE x == IF Content[p] = << >> THEN HookDone
                    ELSE [pc |-> "lookup", pos |-> 1, now |-> clock]
    <2>1. hook' = [hook EXCEPT ![p] = x]
      BY <1>1 DEF HookBegin
    <2>2. Content[p] # << >> => 1 \in 1..Len(Content[p])
      BY OgpAssumption, EmptySeq, LenProperties
    <2>3. /\ x \in HookType /\ x.pc \in {"lookup", "done"}
          /\ x.pc = "lookup" => x.pos \in 1..Len(Content[p])
      BY <1>a, <2>2 DEF HookType, HookPC, HookDone
    <2> HIDE DEF x
    <2>4. hook' \in [Posts -> HookType]
      BY <1>a, <2>1, <2>3 DEF TypeOK, HookType
    <2>5. HookInRange'
      BY <1>a, <2>1, <2>3 DEF TypeOK, HookInRange, Url
    <2> QED
      BY <1>1, <1>b, <2>4, <2>5, HookFrame DEF HookBegin
  <1>2. ASSUME NEW p \in Posts, HookLookup(p)
        PROVE  Foundation'
    <2>1. /\ hook[p].pc = "lookup" /\ faults' \in Nat
          /\ UNCHANGED <<clock, cache, jobs, links, wk>>
      BY <1>2, <1>b DEF HookLookup, HookAt
    <2>2. CASE NextUrl(p)
      BY <1>a, <2>1, <2>2, NextUrlEffect, HookFrame
    <2>3. CASE Url(p) # Bad /\ HookTo(p, "enqueue")
      BY <1>a, <2>1, <2>3, UrlType, HookToEffect, HookFrame
    <2>4. CASE Url(p) # Bad /\ HookTo(p, "attach")
      BY <1>a, <2>1, <2>4, UrlType, HookToEffect, HookFrame
    <2> QED
      BY <1>2, <2>2, <2>3, <2>4 DEF HookLookup
  <1>3. ASSUME NEW p \in Posts, HookAttach(p)
        PROVE  Foundation'
    <2>1. /\ hook[p].pc = "attach" /\ NextUrl(p)
          /\ links' = LinkSlot(p, Url(p), hook[p].pos)
          /\ UNCHANGED <<clock, cache, jobs, wk, faults>>
      BY <1>3 DEF HookAttach, HookAt
    <2>2. hook' \in [Posts -> HookType] /\ HookInRange'
      BY <1>a, <2>1, NextUrlEffect
    <2>3. Url(p) \in Hashes /\ hook[p].pos \in Nat \ {0}
      BY <1>a, <2>1 DEF HookInRange, TypeOK
    <2>4. links' \in LinksType
      BY <1>a, <2>1, <2>3, LinkType DEF LinksType
    <2> QED
      BY <1>a, <2>1, <2>2, <2>4
         DEF Foundation, TypeOK, HookType, LinksType, ClaimExclusive, Busy
  <1>4. ASSUME NEW p \in Posts, HookEnqueue(p)
        PROVE  Foundation'
    <2> DEFINE x == [hash |-> Url(p), post |-> p, pos |-> hook[p].pos,
                     status |-> "queued", attempts |-> 0]
    <2>1. /\ hook[p].pc = "enqueue" /\ NextUrl(p) /\ jobs' = Append(jobs, x)
          /\ UNCHANGED <<clock, cache, links, wk, faults>>
      BY <1>4 DEF HookEnqueue, HookAt
    <2>2. hook' \in [Posts -> HookType] /\ HookInRange'
      BY <1>a, <2>1, NextUrlEffect
    <2>3. Url(p) \in Hashes /\ hook[p].pos \in Nat \ {0} /\ AttemptCap \in Nat
      BY <1>a, <2>1, OgpAssumption DEF HookInRange, TypeOK, AttemptCap
    <2>4. x \in Job
      BY <2>3 DEF Job, JobStatus
    <2> HIDE DEF x
    <2>5. /\ jobs' \in Seq(Job) /\ Len(jobs') = Len(jobs) + 1
          /\ \A k \in 1..Len(jobs) : jobs'[k] = jobs[k]
      BY <1>a, <2>1, <2>4, AppendEffect DEF TypeOK
    <2>6. TypeOK'
      BY <1>a, <2>1, <2>2, <2>5 DEF TypeOK, HookType
    <2>7. ClaimExclusive'
      BY <1>a, <2>1, <2>5 DEF ClaimExclusive, Busy, TypeOK
    <2> QED
      BY <2>2, <2>6, <2>7 DEF Foundation
  <1>5. ASSUME NEW w \in Workers, Claim(w)
        PROVE  Foundation'
    BY <1>5, TakeFrame DEF Claim, WorkerAt, Busy
  <1>6. ASSUME NEW w \in Workers, FetchOk(w)
        PROVE  Foundation'
    BY <1>6, <1>a, FetchFrame DEF FetchOk, WorkerPC
  <1>7. ASSUME NEW w \in Workers, FetchRetry(w)
        PROVE  Foundation'
    <2>1. PICK fits \in BOOLEAN : FetchEnds(w, "requeue", 0, fits)
      BY <1>7 DEF FetchRetry, ErrorFits
    <2> QED
      BY <2>1, FetchFrame DEF WorkerPC
  <1>8. ASSUME NEW w \in Workers, FetchGiveUp(w)
        PROVE  Foundation'
    <2>1. PICK fits \in BOOLEAN : FetchEnds(w, "upsertErr", clock, fits)
      BY <1>8 DEF FetchGiveUp, ErrorFits
    <2> QED
      BY <1>a, <2>1, FetchFrame DEF WorkerPC
  <1>9. ASSUME NEW w \in Workers, UpsertOk(w)
        PROVE  Foundation'
    <2>1. /\ Busy(w) /\ WorkerTo(w, "attach")
          /\ Upsert(w, PreviewHash(w), "ok", SuccessTTL)
          /\ UNCHANGED <<clock, jobs, links, hook, faults>>
      BY <1>9 DEF UpsertOk, WorkerAt, Busy
    <2>2. cache' \in CacheType
      BY <2>1, WorkerHashes, UpsertType, OgpAssumption
    <2> QED
      BY <1>b, <2>1, <2>2, WorkerToFrame DEF WorkerPC
  <1>10. ASSUME NEW w \in Workers, UpsertRejected(w)
        PROVE  Foundation'
    BY <1>10, <1>b, WorkerToFrame DEF UpsertRejected, WorkerAt, Busy, WorkerPC
  <1>11. ASSUME NEW w \in Workers, WorkerAttach(w)
        PROVE  Foundation'
    <2> DEFINE job == jobs[wk[w].job]
    <2>1. /\ Busy(w) /\ WorkerTo(w, "markDone")
          /\ links' = LinkSlot(job.post, PreviewHash(w), job.pos)
          /\ UNCHANGED <<clock, cache, jobs, hook, faults>>
      BY <1>11 DEF WorkerAttach, WorkerAt, Busy
    <2>2. job \in Job
      BY <1>a, <2>1, ElementOfSeq DEF TypeOK, ClaimExclusive
    <2> HIDE DEF job
    <2>3. links' \in LinksType
      BY <1>a, <2>1, <2>2, WorkerHashes, LinkType DEF Job, LinksType
    <2> QED
      BY <1>b, <2>1, <2>3, WorkerToFrame DEF WorkerPC
  <1>12. ASSUME NEW w \in Workers, MarkDone(w)
        PROVE  Foundation'
    <2>1. /\ Busy(w) /\ Release(w) /\ SetStatus(wk[w].job, "done")
          /\ UNCHANGED <<clock, cache, links, hook, faults>>
      BY <1>12 DEF MarkDone, WorkerAt, Busy
    <2>2. wk[w].job \in 1..Len(jobs) /\ jobs \in Seq(Job)
      BY <1>a, <2>1 DEF ClaimExclusive, TypeOK
    <2>3. /\ jobs' \in Seq(Job) /\ Len(jobs') = Len(jobs)
          /\ \A k \in 1..Len(jobs) : k # wk[w].job => jobs'[k] = jobs[k]
      BY <2>1, <2>2, SetStatusEffect DEF JobStatus
    <2> QED
      BY <1>b, <2>1, <2>3, ReleaseFrame
  <1>13. ASSUME NEW w \in Workers, Requeue(w)
        PROVE  Foundation'
    <2>1. /\ Busy(w) /\ Release(w) /\ RecordError(w, "queued")
          /\ UNCHANGED <<clock, cache, links, hook, faults>>
      BY <1>13 DEF Requeue, WorkerAt, Busy
    <2>2. /\ jobs' \in Seq(Job) /\ Len(jobs') = Len(jobs)
          /\ \A k \in 1..Len(jobs) : k # wk[w].job => jobs'[k] = jobs[k]
      BY <2>1, RecordErrorEffect DEF JobStatus
    <2> QED
      BY <1>b, <2>1, <2>2, ReleaseFrame
  <1>14. ASSUME NEW w \in Workers, MarkFailed(w)
        PROVE  Foundation'
    <2>1. /\ Busy(w) /\ Release(w) /\ RecordError(w, "failed")
          /\ UNCHANGED <<clock, cache, links, hook, faults>>
      BY <1>14 DEF MarkFailed, WorkerAt, Busy
    <2>2. /\ jobs' \in Seq(Job) /\ Len(jobs') = Len(jobs)
          /\ \A k \in 1..Len(jobs) : k # wk[w].job => jobs'[k] = jobs[k]
      BY <2>1, RecordErrorEffect DEF JobStatus
    <2> QED
      BY <1>b, <2>1, <2>2, ReleaseFrame
  <1>15. ASSUME NEW w \in Workers, UpsertErr(w)
        PROVE  Foundation'
    <2>1. /\ Busy(w) /\ WorkerTo(w, "markFailed")
          /\ Upsert(w, Hash(w), "error", ErrorTTL)
          /\ UNCHANGED <<clock, jobs, links, hook, faults>>
      BY <1>15 DEF UpsertErr, WorkerAt, Busy
    <2>2. cache' \in CacheType
      BY <2>1, WorkerHashes, UpsertType, OgpAssumption
    <2> QED
      BY <1>b, <2>1, <2>2, WorkerToFrame DEF WorkerPC
  <1>16. CASE Tick
    <2>1. TypeOK'
      BY <1>16, <1>a DEF Tick, TypeOK
    <2>2. HookInRange' /\ ClaimExclusive'
      BY <1>16, <1>a DEF Tick, HookInRange, Url, ClaimExclusive, Busy
    <2> QED
      BY <2>1, <2>2 DEF Foundation
  <1>17. ASSUME NEW p \in Posts, LookupFails(p)
        PROVE  Foundation'
    <2>1. /\ hook[p].pc = "lookup" /\ Url(p) # Bad /\ HookTo(p, "enqueue")
          /\ faults' \in Nat /\ UNCHANGED <<clock, cache, jobs, links, wk>>
      BY <1>17, <1>b DEF LookupFails, HookAt, Fault
    <2> QED
      BY <1>a, <2>1, UrlType, HookToEffect, HookFrame
  <1>18. ASSUME NEW p \in Posts, HookWriteFails(p)
        PROVE  Foundation'
    <2>1. /\ hook[p].pc \in {"attach", "enqueue"} /\ NextUrl(p)
          /\ faults' \in Nat /\ UNCHANGED <<clock, cache, jobs, links, wk>>
      BY <1>18, <1>b DEF HookWriteFails, Fault
    <2> QED
      BY <1>a, <2>1, NextUrlEffect, HookFrame
  <1>19. ASSUME NEW p \in Posts, HookStops(p)
        PROVE  Foundation'
    <2>1. /\ hook' = [hook EXCEPT ![p] = HookDone]
          /\ faults' \in Nat /\ UNCHANGED <<clock, cache, jobs, links, wk>>
      BY <1>19, <1>b DEF HookStops, Fault
    <2>2. HookDone \in HookType /\ HookDone.pc = "done"
      BY DEF HookDone, HookType, HookPC
    <2>3. hook' \in [Posts -> HookType]
      BY <1>a, <2>1, <2>2 DEF TypeOK, HookType
    <2>4. HookInRange'
      BY <1>a, <2>1, <2>2 DEF TypeOK, HookInRange, Url
    <2> QED
      BY <2>1, <2>3, <2>4, HookFrame
  <1>20. ASSUME NEW w \in Workers, UpsertOkFails(w)
        PROVE  Foundation'
    <2>1. /\ Busy(w) /\ WorkerTo(w, "requeue") /\ faults' \in Nat
          /\ Upsert(w, PreviewHash(w), "ok", SuccessTTL) \/ UNCHANGED cache
          /\ UNCHANGED <<clock, jobs, links, hook>>
      BY <1>20, <1>b DEF UpsertOkFails, WorkerAt, Busy, Fault
    <2>2. cache' \in CacheType
      BY <1>b, <2>1, WorkerHashes, UpsertType, OgpAssumption
    <2> QED
      BY <1>b, <2>1, <2>2, WorkerToFrame DEF WorkerPC
  <1>21. ASSUME NEW w \in Workers, WorkerWriteFails(w)
        PROVE  Foundation'
    <2>1. /\ Busy(w)
          /\ WorkerTo(w, "markDone") \/ WorkerTo(w, "markFailed")
          /\ faults' \in Nat /\ UNCHANGED <<clock, cache, jobs, links, hook>>
      BY <1>21, <1>b DEF WorkerWriteFails, AttachFails, UpsertErrFails, WorkerAt, Busy, Fault
    <2> QED
      BY <1>b, <2>1, WorkerToFrame DEF WorkerPC
  <1>22. ASSUME NEW w \in Workers, Abandon(w)
        PROVE  Foundation'
    <2>1. /\ Busy(w) /\ Release(w) /\ faults' \in Nat
          /\ UNCHANGED <<clock, cache, jobs, links, hook>>
      BY <1>22, <1>b DEF Abandon, Busy, Fault
    <2> QED
      BY <1>a, <2>1, ReleaseFrame DEF TypeOK
  <1>23. CASE UNCHANGED vars
    BY <1>23 DEF vars, Foundation, TypeOK, HookInRange, Url, ClaimExclusive, Busy
  <1> QED
    BY <1>1, <1>2, <1>3, <1>4, <1>5, <1>6, <1>7, <1>8, <1>9, <1>10, <1>11, <1>12,
       <1>13, <1>14, <1>15, <1>16, <1>17, <1>18, <1>19, <1>20, <1>21, <1>22, <1>23
       DEF Next, HookStep, WorkerStep

\* Types, loop and claims hold in every reachable state.
THEOREM FoundationHolds == Spec => []Foundation
  BY FoundationInit, FoundationStep, PTL DEF Spec

\* Every reachable state of the tables, hooks and workers is well typed.
THEOREM TypeCorrect == Spec => []TypeOK
  BY FoundationHolds, PTL DEF Foundation

\* No two workers ever hold one job, and a job that is held is `running':
\* Claim (FOR UPDATE SKIP LOCKED) needs no help from MarkDone or MarkFailed,
\* which match on the id alone.
THEOREM ClaimsAreExclusive == Spec => []ClaimExclusive
  BY FoundationHolds, PTL DEF Foundation

-----------------------------------------------------------------------------
(* Previews at their own slot. *)

\* AttachOGP of the page a post has at position i keeps every link in place.
LEMMA LinkKeepsSlots ==
    ASSUME TypeOK, LinksAtOwnSlot, NEW p \in Posts, NEW i \in 1..Len(Content[p]),
           Content[p][i] \in Hashes, NEW h \in PreviewHashes(Content[p][i]),
           links' = LinkSlot(p, h, i)
    PROVE  LinksAtOwnSlot'
  <1>1. links \in [Posts -> SUBSET (Hashes \X (Nat \ {0}))]
    BY DEF TypeOK
  <1>2. CASE links' = links
    BY <1>2 DEF LinksAtOwnSlot
  <1>3. CASE /\ links' = [links EXCEPT ![p] = @ \cup {<<h, i>>}]
             /\ \A l \in links[p] : l[1] # h /\ l[2] # i
    <2>1. ASSUME NEW q \in Posts, NEW l \in links'[q]
          PROVE  /\ l[2] \in 1..Len(Content[q]) /\ Content[q][l[2]] \in Hashes
                 /\ l[1] \in PreviewHashes(Content[q][l[2]])
                 /\ \A m \in links'[q] : m[1] = l[1] \/ m[2] = l[2] => m = l
      <3>1. CASE q # p
        BY <1>1, <1>3, <2>1, <3>1 DEF LinksAtOwnSlot
      <3>2. CASE q = p
        <4>1. links'[p] = links[p] \cup {<<h, i>>}
          BY <1>1, <1>3
        <4>2. /\ l[2] \in 1..Len(Content[q]) /\ Content[q][l[2]] \in Hashes
              /\ l[1] \in PreviewHashes(Content[q][l[2]])
          BY <2>1, <3>2, <4>1 DEF LinksAtOwnSlot
        <4>3. \A m \in links'[q] : m[1] = l[1] \/ m[2] = l[2] => m = l
          BY <1>3, <2>1, <3>2, <4>1 DEF LinksAtOwnSlot
        <4> QED
          BY <4>2, <4>3
      <3> QED
        BY <3>1, <3>2
    <2> QED
      BY <2>1 DEF LinksAtOwnSlot
  <1> QED
    BY <1>2, <1>3 DEF LinkSlot

\* Jobs keep the slot they were enqueued with.
LEMMA JobsKeepSlot ==
    ASSUME Foundation, JobsAtSlot, [Next]_vars
    PROVE  JobsAtSlot'
  <1>a. jobs \in Seq(Job)
    BY DEF Foundation, TypeOK
  <1>1. CASE UNCHANGED jobs
    BY <1>1 DEF JobsAtSlot
  <1>2. ASSUME NEW p \in Posts, HookEnqueue(p)
        PROVE  JobsAtSlot'
    <2> DEFINE x == [hash |-> Url(p), post |-> p, pos |-> hook[p].pos,
                     status |-> "queued", attempts |-> 0]
    <2>1. jobs' = Append(jobs, x) /\ hook[p].pc = "enqueue"
      BY <1>2 DEF HookEnqueue, HookAt
    <2>2. Url(p) \in Hashes /\ hook[p].pos \in 1..Len(Content[p])
      BY <2>1 DEF Foundation, HookInRange
    <2>3. hook[p].pos \in Nat \ {0} /\ AttemptCap \in Nat
      BY OgpAssumption DEF Foundation, TypeOK, AttemptCap
    <2>4. x \in Job
      BY <2>2, <2>3 DEF Job, JobStatus
    <2>5. /\ x.pos \in 1..Len(Content[x.post])
          /\ Content[x.post][x.pos] = x.hash
      BY <2>2 DEF Url
    <2> HIDE DEF x
    <2>6. /\ Len(jobs') = Len(jobs) + 1 /\ jobs'[Len(jobs) + 1] = x
          /\ \A k \in 1..Len(jobs) : jobs'[k] = jobs[k]
      BY <1>a, <2>1, <2>4, AppendEffect
    <2> QED
      BY <1>a, <2>5, <2>6, LenProperties DEF JobsAtSlot
  <1>3. ASSUME NEW w \in Workers, Claim(w)
        PROVE  JobsAtSlot'
    <2>1. PICK j \in 1..Len(jobs) : Take(w, j)
      BY <1>3 DEF Claim
    <2>2. /\ Len(jobs') = Len(jobs)
          /\ \A k \in 1..Len(jobs) :
               /\ jobs'[k].hash = jobs[k].hash /\ jobs'[k].post = jobs[k].post
               /\ jobs'[k].pos = jobs[k].pos
      BY <1>a, <2>1, TakeEffect
    <2> QED
      BY <2>2 DEF JobsAtSlot
  <1>4. ASSUME NEW w \in Workers, Busy(w), NEW s \in JobStatus,
               SetStatus(wk[w].job, s)
        PROVE  JobsAtSlot'
    <2>1. wk[w].job \in 1..Len(jobs)
      BY <1>4 DEF Foundation, ClaimExclusive
    <2>2. /\ Len(jobs') = Len(jobs)
          /\ \A k \in 1..Len(jobs) :
               jobs'[k] = IF k = wk[w].job
                          THEN [jobs[wk[w].job] EXCEPT !.status = s] ELSE jobs[k]
      BY <1>a, <1>4, <2>1, SetStatusEffect
    <2>3. jobs[wk[w].job] \in Job
      BY <1>a, <2>1, ElementOfSeq
    <2>4. \A k \in 1..Len(jobs) :
            /\ jobs'[k].hash = jobs[k].hash /\ jobs'[k].post = jobs[k].post
            /\ jobs'[k].pos = jobs[k].pos
      BY <2>2, <2>3 DEF Job
    <2> QED
      BY <2>2, <2>4 DEF JobsAtSlot
  <1>5. ASSUME NEW w \in Workers, MarkDone(w) \/ Requeue(w) \/ MarkFailed(w)
        PROVE  JobsAtSlot'
    BY <1>1, <1>4, <1>5 DEF MarkDone, Requeue, MarkFailed, RecordError, WorkerAt,
                            Busy, JobStatus
  <1>6. ASSUME NEW p \in Posts,
               HookBegin(p) \/ HookLookup(p) \/ HookAttach(p) \/ LookupFails(p)
                 \/ HookWriteFails(p) \/ HookStops(p)
        PROVE  UNCHANGED jobs
    BY <1>6 DEF HookBegin, HookLookup, HookAttach, LookupFails, HookWriteFails,
                HookStops
  <1>7. ASSUME NEW w \in Workers,
               FetchOk(w) \/ FetchRetry(w) \/ FetchGiveUp(w) \/ UpsertOk(w)
                 \/ UpsertRejected(w) \/ WorkerAttach(w) \/ UpsertErr(w)
                 \/ UpsertOkFails(w) \/ WorkerWriteFails(w) \/ Abandon(w)
        PROVE  UNCHANGED jobs
    BY <1>7 DEF FetchOk, FetchRetry, FetchGiveUp, FetchEnds, UpsertOk,
                UpsertRejected, WorkerAttach, UpsertErr, UpsertOkFails,
                WorkerWriteFails, AttachFails, UpsertErrFails, Abandon
  <1>8. Tick \/ UNCHANGED vars => UNCHANGED jobs
    BY DEF Tick, vars
  <1> QED
    BY <1>1, <1>2, <1>3, <1>5, <1>6, <1>7, <1>8 DEF Next, HookStep, WorkerStep

\* Every step keeps the previews at the slots of their URLs.
LEMMA SlotStep == SlotInv /\ [Next]_vars => SlotInv'
  <1> SUFFICES ASSUME SlotInv, [Next]_vars
               PROVE  SlotInv'
    OBVIOUS
  <1>a. TypeOK /\ HookInRange /\ ClaimExclusive /\ Foundation
    BY DEF SlotInv, Foundation
  <1>b. Foundation' /\ JobsAtSlot'
    BY FoundationStep, JobsKeepSlot DEF SlotInv
  <1>1. CASE UNCHANGED links
    <2>1. LinksAtOwnSlot'
      BY <1>1 DEF SlotInv, LinksAtOwnSlot
    <2> QED
      BY <1>b, <2>1 DEF SlotInv
  <1>2. ASSUME NEW p \in Posts, HookAttach(p)
        PROVE  SlotInv'
    <2>1. hook[p].pc = "attach" /\ links' = LinkSlot(p, Url(p), hook[p].pos)
      BY <1>2 DEF HookAttach, HookAt
    <2>2. hook[p].pos \in 1..Len(Content[p]) /\ Url(p) \in Hashes
      BY <1>a, <2>1 DEF HookInRange
    <2>3. Url(p) = Content[p][hook[p].pos] /\ Url(p) \in PreviewHashes(Url(p))
      BY DEF Url, PreviewHashes
    <2>4. LinksAtOwnSlot'
      BY <1>a, <2>1, <2>2, <2>3, LinkKeepsSlots DEF SlotInv
    <2> QED
      BY <1>b, <2>4 DEF SlotInv
  <1>3. ASSUME NEW w \in Workers, WorkerAttach(w)
        PROVE  SlotInv'
    <2> DEFINE job == jobs[wk[w].job]
    <2>1. /\ Busy(w) /\ links' = LinkSlot(job.post, PreviewHash(w), job.pos)
          /\ PreviewHash(w) \in PreviewHashes(job.hash)
      BY <1>3 DEF WorkerAttach, WorkerAt, Busy, PreviewHash, PreviewHashes, Hash
    <2>2. wk[w].job \in 1..Len(jobs)
      BY <1>a, <2>1 DEF ClaimExclusive
    <2>3. job.post \in Posts /\ job.hash \in Hashes
      <3>1. job \in Job
        BY <1>a, <2>2, ElementOfSeq DEF TypeOK
      <3> HIDE DEF job
      <3> QED
        BY <3>1 DEF Job
    <2>4. job.pos \in 1..Len(Content[job.post]) /\ Content[job.post][job.pos] = job.hash
      BY <2>2 DEF SlotInv, JobsAtSlot
    <2> HIDE DEF job
    <2>5. LinksAtOwnSlot'
      BY <1>a, <2>1, <2>3, <2>4, LinkKeepsSlots DEF SlotInv
    <2> QED
      BY <1>b, <2>5 DEF SlotInv
  <1>4. ASSUME NEW p \in Posts,
               HookBegin(p) \/ HookLookup(p) \/ HookEnqueue(p) \/ LookupFails(p)
                 \/ HookWriteFails(p) \/ HookStops(p)
        PROVE  UNCHANGED links
    BY <1>4 DEF HookBegin, HookLookup, HookEnqueue, LookupFails, HookWriteFails,
                HookStops
  <1>5. ASSUME NEW w \in Workers,
               FetchOk(w) \/ FetchRetry(w) \/ FetchGiveUp(w) \/ UpsertOk(w)
                 \/ UpsertRejected(w) \/ Claim(w) \/ UpsertErr(w) \/ MarkDone(w)
                 \/ Requeue(w) \/ MarkFailed(w) \/ UpsertOkFails(w)
                 \/ WorkerWriteFails(w) \/ Abandon(w)
        PROVE  UNCHANGED links
    BY <1>5 DEF FetchOk, FetchRetry, FetchGiveUp, FetchEnds, UpsertOk,
                UpsertRejected, Claim, Take, UpsertErr, MarkDone, Requeue,
                MarkFailed, UpsertOkFails, WorkerWriteFails, AttachFails, UpsertErrFails, Abandon
  <1>6. Tick \/ UNCHANGED vars => UNCHANGED links
    BY DEF Tick, vars
  <1> QED
    BY <1>1, <1>2, <1>3, <1>4, <1>5, <1>6 DEF Next, HookStep, WorkerStep

\* Previews and jobs are at the slots of their URLs in every reachable state.
THEOREM SlotInvHolds == Spec => []SlotInv
  <1>1. Init => SlotInv
    <2>1. ASSUME Init
          PROVE  JobsAtSlot /\ LinksAtOwnSlot
      BY <2>1 DEF Init, JobsAtSlot, LinksAtOwnSlot
    <2> QED
      BY <2>1, FoundationInit DEF SlotInv
  <1> QED
    BY <1>1, SlotStep, PTL DEF Spec

\* A preview is only ever found at the position of its URL, once per post.
THEOREM PreviewsAtTheirSlot == Spec => []LinksAtOwnSlot
  BY SlotInvHolds, PTL DEF SlotInv

-----------------------------------------------------------------------------
(* Finished jobs. *)

\* No step touches a job that is done or failed.
LEMMA FinishedStep ==
    ASSUME Foundation, Next, NEW j \in 1..Len(jobs),
           jobs[j].status \in {"done", "failed"}
    PROVE  jobs'[j] = jobs[j]
  <1>a. jobs \in Seq(Job)
    BY DEF Foundation, TypeOK
  <1>1. ASSUME NEW p \in Posts, HookEnqueue(p)
        PROVE  jobs'[j] = jobs[j]
    <2> DEFINE x == [hash |-> Url(p), post |-> p, pos |-> hook[p].pos,
                     status |-> "queued", attempts |-> 0]
    <2>1. jobs' = Append(jobs, x)
      BY <1>1 DEF HookEnqueue
    <2> HIDE DEF x
    <2> QED
      BY <1>a, <2>1
  <1>2. ASSUME NEW w \in Workers, Claim(w)
        PROVE  jobs'[j] = jobs[j]
    <2>1. PICK k \in 1..Len(jobs) : jobs[k].status = "queued" /\ Take(w, k)
      BY <1>2 DEF Claim
    <2> QED
      BY <1>a, <2>1, TakeEffect
  <1>3. ASSUME NEW w \in Workers, MarkDone(w) \/ Requeue(w) \/ MarkFailed(w)
        PROVE  jobs'[j] = jobs[j]
    <2>1. /\ Busy(w)
          /\ UNCHANGED jobs \/ \E s \in JobStatus : SetStatus(wk[w].job, s)
      BY <1>3 DEF MarkDone, Requeue, MarkFailed, RecordError, WorkerAt, Busy, JobStatus
    <2>2. wk[w].job \in 1..Len(jobs) /\ jobs[wk[w].job].status = "running"
      BY <2>1 DEF Foundation, ClaimExclusive
    <2> QED
      BY <1>a, <2>1, <2>2, SetStatusEffect
  <1>4. ASSUME NEW p \in Posts,
               HookBegin(p) \/ HookLookup(p) \/ HookAttach(p) \/ LookupFails(p)
                 \/ HookWriteFails(p) \/ HookStops(p)
        PROVE  UNCHANGED jobs
    BY <1>4 DEF HookBegin, HookLookup, HookAttach, LookupFails, HookWriteFails,
                HookStops
  <1>5. ASSUME NEW w \in Workers,
               FetchOk(w) \/ FetchRetry(w) \/ FetchGiveUp(w) \/ UpsertOk(w)
                 \/ UpsertRejected(w) \/ WorkerAttach(w) \/ UpsertErr(w)
                 \/ UpsertOkFails(w) \/ WorkerWriteFails(w) \/ Abandon(w)
        PROVE  UNCHANGED jobs
    BY <1>5 DEF FetchOk, FetchRetry, FetchGiveUp, FetchEnds, UpsertOk,
                UpsertRejected, WorkerAttach, UpsertErr, UpsertOkFails,
                WorkerWriteFails, AttachFails, UpsertErrFails, Abandon
  <1>6. Tick => UNCHANGED jobs
    BY DEF Tick
  <1> QED
    BY <1>1, <1>2, <1>3, <1>4, <1>5, <1>6 DEF Next, HookStep, WorkerStep

\* A job that is done or failed stays as it is: the worker that would write to
\* it holds a running job, and nobody else does.
THEOREM FinishedJobsAreFinal == Spec => FinishedJobFinal
  <1>1. Foundation /\ [Next]_vars =>
          [\A j \in 1..Len(jobs) : jobs[j].status \in {"done", "failed"}
                                   => jobs'[j] = jobs[j]]_vars
    BY FinishedStep
  <1> QED
    BY <1>1, FoundationHolds, PTL DEF Spec, FinishedJobFinal

-----------------------------------------------------------------------------
(* How the job table and the workers move. *)

\* A worker writes the last status of the job it holds.
Closes(w, j, s) ==
    /\ Busy(w) /\ wk[w].job = j /\ jobs'[j] = [jobs[j] EXCEPT !.status = s]
    /\ \/ wk[w].pc = "requeue" /\ s = "queued"
       \/ wk[w].pc = "markDone" /\ s = "done"
       \/ wk[w].pc = "markFailed" /\ s = "failed"

\* A row of the job table is new, kept, claimed or closed by its worker.
JobMove(j) ==
    \/ j \notin 1..Len(jobs) /\ jobs'[j].status = "queued" /\ jobs'[j].attempts = 0
    \/ /\ j \in 1..Len(jobs) /\ jobs'[j].hash = jobs[j].hash
       /\ jobs'[j].post = jobs[j].post /\ jobs'[j].pos = jobs[j].pos
       /\ \/ jobs'[j] = jobs[j]
          \/ /\ jobs[j].status = "queued" /\ jobs'[j].status = "running"
             /\ jobs'[j].attempts <= jobs[j].attempts + 1
          \/ \E w \in Workers : \E s \in JobStatus : Closes(w, j, s)

\* Rows are not removed, and move as above.
LEMMA JobMoves ==
    ASSUME Foundation, [Next]_vars
    PROVE  /\ 1..Len(jobs) \subseteq 1..Len(jobs')
           /\ \A j \in 1..Len(jobs') : JobMove(j)
  <1> DEFINE Goal == /\ 1..Len(jobs) \subseteq 1..Len(jobs')
                     /\ \A j \in 1..Len(jobs') : JobMove(j)
  <1>a. jobs \in Seq(Job) /\ Len(jobs) \in Nat
    BY DEF Foundation, TypeOK
  <1>1. ASSUME UNCHANGED jobs
        PROVE  Goal
    BY <1>1 DEF JobMove
  <1>2. ASSUME NEW p \in Posts, HookEnqueue(p)
        PROVE  Goal
    <2> DEFINE x == [hash |-> Url(p), post |-> p, pos |-> hook[p].pos,
                     status |-> "queued", attempts |-> 0]
    <2>1. jobs' = Append(jobs, x) /\ hook[p].pc = "enqueue"
      BY <1>2 DEF HookEnqueue, HookAt
    <2>2. /\ Url(p) \in Hashes /\ hook[p].pos \in Nat \ {0} /\ AttemptCap \in Nat
      BY <2>1, OgpAssumption DEF Foundation, HookInRange, TypeOK, AttemptCap
    <2>3. x \in Job /\ x.status = "queued" /\ x.attempts = 0
      BY <2>2 DEF Job, JobStatus
    <2> HIDE DEF x
    <2>4. /\ Len(jobs') = Len(jobs) + 1 /\ jobs'[Len(jobs) + 1] = x
          /\ \A k \in 1..Len(jobs) : jobs'[k] = jobs[k]
      BY <1>a, <2>1, <2>3, AppendEffect
    <2> QED
      BY <1>a, <2>3, <2>4 DEF JobMove
  <1>3. ASSUME NEW w \in Workers, Claim(w)
        PROVE  Goal
    <2>1. PICK k \in 1..Len(jobs) : jobs[k].status = "queued" /\ Take(w, k)
      BY <1>3 DEF Claim
    <2>2. /\ Len(jobs') = Len(jobs) /\ jobs'[k].status = "running"
          /\ \A i \in 1..Len(jobs) : i # k => jobs'[i] = jobs[i]
          /\ jobs'[k].hash = jobs[k].hash /\ jobs'[k].post = jobs[k].post
          /\ jobs'[k].pos = jobs[k].pos
      BY <1>a, <2>1, TakeEffect
    <2>3. jobs'[k].attempts <= jobs[k].attempts + 1
      <3>1. jobs[k] \in Job
        BY <1>a, ElementOfSeq
      <3>2. jobs'[k].attempts = IF jobs[k].attempts < AttemptCap THEN jobs[k].attempts + 1
                                                                 ELSE jobs[k].attempts
        BY <1>a, <2>1, <3>1 DEF Take, Job
      <3> QED
        BY <3>1, <3>2 DEF Job
    <2> QED
      BY <1>a, <2>1, <2>2, <2>3 DEF JobMove
  <1>4. ASSUME NEW w \in Workers, MarkDone(w) \/ Requeue(w) \/ MarkFailed(w)
        PROVE  Goal
    <2> SUFFICES ASSUME jobs' # jobs
                 PROVE  Goal
      BY <1>1
    <2>1. PICK s \in JobStatus :
            /\ Busy(w) /\ SetStatus(wk[w].job, s)
            /\ \/ wk[w].pc = "requeue" /\ s = "queued"
               \/ wk[w].pc = "markDone" /\ s = "done"
               \/ wk[w].pc = "markFailed" /\ s = "failed"
      BY <1>4 DEF MarkDone, Requeue, MarkFailed, RecordError, WorkerAt, Busy, JobStatus
    <2>2. wk[w].job \in 1..Len(jobs)
      BY <2>1 DEF Foundation, ClaimExclusive
    <2>3. /\ Len(jobs') = Len(jobs)
          /\ \A k \in 1..Len(jobs) :
               jobs'[k] = IF k = wk[w].job THEN [jobs[wk[w].job] EXCEPT !.status = s] ELSE jobs[k]
      BY <1>a, <2>1, <2>2, SetStatusEffect
    <2>4. ASSUME NEW j \in 1..Len(jobs)
          PROVE  JobMove(j)
      <3>0. jobs[j] \in Job
        BY <1>a, ElementOfSeq
      <3>1. CASE j = wk[w].job
        <4>1. jobs'[j] = [jobs[j] EXCEPT !.status = s]
          BY <2>3, <3>1
        <4>2. /\ jobs'[j].hash = jobs[j].hash /\ jobs'[j].post = jobs[j].post
              /\ jobs'[j].pos = jobs[j].pos
          BY <3>0, <4>1 DEF Job
        <4>3. Closes(w, j, s)
          BY <2>1, <3>1, <4>1 DEF Closes
        <4> QED
          BY <4>2, <4>3 DEF JobMove
      <3>2. CASE j # wk[w].job
        BY <2>3, <3>2 DEF JobMove
      <3> QED
        BY <3>1, <3>2
    <2> QED
      BY <2>3, <2>4
  <1>5. ASSUME NEW p \in Posts,
               HookBegin(p) \/ HookLookup(p) \/ HookAttach(p) \/ LookupFails(p)
                 \/ HookWriteFails(p) \/ HookStops(p)
        PROVE  UNCHANGED jobs
    BY <1>5 DEF HookBegin, HookLookup, HookAttach, LookupFails, HookWriteFails,
                HookStops
  <1>6. ASSUME NEW w \in Workers,
               FetchOk(w) \/ FetchRetry(w) \/ FetchGiveUp(w) \/ UpsertOk(w)
                 \/ UpsertRejected(w) \/ WorkerAttach(w) \/ UpsertErr(w)
                 \/ UpsertOkFails(w) \/ WorkerWriteFails(w) \/ Abandon(w)
        PROVE  UNCHANGED jobs
    BY <1>6 DEF FetchOk, FetchRetry, FetchGiveUp, FetchEnds, UpsertOk,
                UpsertRejected, WorkerAttach, UpsertErr, UpsertOkFails,
                WorkerWriteFails, AttachFails, UpsertErrFails, Abandon
  <1>7. Tick \/ UNCHANGED vars => UNCHANGED jobs
    BY DEF Tick, vars
  <1> HIDE DEF Goal
  <1>8. Goal
    BY <1>1, <1>2, <1>3, <1>4, <1>5, <1>6, <1>7 DEF Next, HookStep, WorkerStep
  <1> QED
    BY <1>8 DEF Goal

\* What brings a worker to the statements that end a job.
LEMMA WorkerMoves ==
    ASSUME Foundation, [Next]_vars, NEW w \in Workers
    PROVE  \/ wk'[w] = wk[w]
           \/ wk'[w].pc \notin {"requeue", "attach", "markDone"}
           \/ /\ Busy(w) /\ wk'[w].job = wk[w].job /\ UNCHANGED jobs
              /\ \/ wk'[w].pc = "requeue" /\ (FetchRetry(w) \/ UpsertRejected(w) \/ UpsertOkFails(w))
                 \/ wk'[w].pc = "attach" /\ UpsertOk(w)
                 \/ wk'[w].pc = "markDone" /\ (WorkerAttach(w) \/ WorkerWriteFails(w))
  <1> DEFINE Goal ==
           \/ wk'[w] = wk[w]
           \/ wk'[w].pc \notin {"requeue", "attach", "markDone"}
           \/ /\ Busy(w) /\ wk'[w].job = wk[w].job /\ UNCHANGED jobs
              /\ \/ wk'[w].pc = "requeue" /\ (FetchRetry(w) \/ UpsertRejected(w) \/ UpsertOkFails(w))
                 \/ wk'[w].pc = "attach" /\ UpsertOk(w)
                 \/ wk'[w].pc = "markDone" /\ (WorkerAttach(w) \/ WorkerWriteFails(w))
  <1>a. wk \in [Workers -> WorkerType]
    BY DEF Foundation, TypeOK, WorkerType
  <1>1. ASSUME NEW v \in Workers, v # w,
               WorkerStep(v) \/ UpsertOkFails(v) \/ WorkerWriteFails(v) \/ Abandon(v)
        PROVE  wk'[w] = wk[w]
    BY <1>a, <1>1 DEF WorkerStep, Claim, Take, FetchOk, FetchRetry, FetchGiveUp, FetchEnds,
         UpsertOk, UpsertRejected, WorkerAttach, MarkDone, Requeue, UpsertErr, MarkFailed,
         UpsertOkFails, WorkerWriteFails, AttachFails, UpsertErrFails, Abandon, WorkerTo, Release, ErrorFits
  <1>2. CASE Claim(w) \/ FetchOk(w) \/ FetchGiveUp(w) \/ MarkDone(w) \/ Requeue(w)
               \/ UpsertErr(w) \/ MarkFailed(w) \/ Abandon(w)
    <2>1. wk'[w].pc \in {"fetch", "upsertOk", "upsertErr", "idle", "markFailed"}
      <3>1. CASE Claim(w)
        BY <1>a, <3>1 DEF Claim, Take
      <3>2. CASE FetchOk(w) \/ FetchGiveUp(w)
        BY <1>a, <3>2 DEF FetchOk, FetchGiveUp, FetchEnds
      <3>3. CASE MarkDone(w) \/ Requeue(w) \/ UpsertErr(w) \/ MarkFailed(w) \/ Abandon(w)
        BY <1>a, <3>3 DEF MarkDone, Requeue, UpsertErr, MarkFailed, Abandon, WorkerTo, Release, Idle
      <3> QED
        BY <1>2, <3>1, <3>2, <3>3
    <2> QED
      BY <2>1
  <1>3. CASE FetchRetry(w)
    <2>1. Busy(w) /\ wk'[w].pc = "requeue" /\ wk'[w].job = wk[w].job /\ UNCHANGED jobs
      BY <1>a, <1>3 DEF FetchRetry, FetchEnds, WorkerAt, Busy
    <2> QED
      BY <1>3, <2>1
  <1>4. CASE UpsertOk(w)
    <2>1. Busy(w) /\ wk'[w].pc = "attach" /\ wk'[w].job = wk[w].job /\ UNCHANGED jobs
      BY <1>a, <1>4 DEF UpsertOk, WorkerTo, WorkerAt, Busy
    <2> QED
      BY <1>4, <2>1
  <1>5. CASE UpsertRejected(w) \/ UpsertOkFails(w)
    <2>1. Busy(w) /\ wk'[w].pc = "requeue" /\ wk'[w].job = wk[w].job /\ UNCHANGED jobs
      BY <1>a, <1>5 DEF UpsertRejected, UpsertOkFails, WorkerTo, WorkerAt, Busy
    <2> QED
      BY <1>5, <2>1
  <1>6. CASE WorkerAttach(w)
    <2>1. Busy(w) /\ wk'[w].pc = "markDone" /\ wk'[w].job = wk[w].job /\ UNCHANGED jobs
      BY <1>a, <1>6 DEF WorkerAttach, WorkerTo, WorkerAt, Busy
    <2> QED
      BY <1>6, <2>1
  <1>7. CASE WorkerWriteFails(w)
    <2>1. /\ Busy(w) /\ wk'[w].pc \in {"markDone", "markFailed"}
          /\ wk'[w].job = wk[w].job /\ UNCHANGED jobs
      BY <1>a, <1>7 DEF WorkerWriteFails, AttachFails, UpsertErrFails, WorkerTo, WorkerAt, Busy
    <2> QED
      BY <1>7, <2>1
  <1>8. ASSUME NEW p \in Posts,
               HookBegin(p) \/ HookStep(p) \/ LookupFails(p) \/ HookWriteFails(p) \/ HookStops(p)
        PROVE  wk' = wk
    BY <1>8 DEF HookBegin, HookStep, HookLookup, HookAttach, HookEnqueue, LookupFails,
         HookWriteFails, HookStops
  <1>9. Tick \/ UNCHANGED vars => wk' = wk
    BY DEF Tick, vars
  <1>10. ASSUME NEW v \in Workers,
                WorkerStep(v) \/ UpsertOkFails(v) \/ WorkerWriteFails(v) \/ Abandon(v)
         PROVE  Goal
    <2>1. CASE v = w
      BY <1>2, <1>3, <1>4, <1>5, <1>6, <1>7, <1>10, <2>1 DEF WorkerStep
    <2>2. CASE v # w
      BY <1>1, <1>10, <2>2
    <2> QED
      BY <2>1, <2>2
  <1> QED
    BY <1>8, <1>9, <1>10 DEF Next

\* Faults are only added.
LEMMA FaultsGrow ==
    ASSUME Foundation, [Next]_vars
    PROVE  faults \in Nat /\ faults' \in Nat /\ faults' >= faults
  <1>1. faults \in Nat
    BY DEF Foundation, TypeOK
  <1>2. faults' = faults \/ faults' = faults + 1
    BY DEF Next, HookBegin, HookStep, HookLookup, HookAttach, HookEnqueue, LookupFails,
         HookWriteFails, HookStops, WorkerStep, Claim, Take, FetchOk, FetchRetry, FetchGiveUp,
         FetchEnds, UpsertOk, UpsertRejected, WorkerAttach, MarkDone, Requeue, UpsertErr,
         MarkFailed, UpsertOkFails, WorkerWriteFails, AttachFails, UpsertErrFails, Abandon, Fault, Tick, vars
  <1> QED
    BY <1>1, <1>2

-----------------------------------------------------------------------------
(* Attempts. *)

\* A job still to be tried, queued or about to be, has an attempt left.
BudgetLeft(j) ==
    Renormalized[jobs[j].hash] \notin Oversized => jobs[j].attempts < MaxAttempts + faults

BudgetInv ==
    /\ AttemptBudget
    /\ \A j \in 1..Len(jobs) : jobs[j].status = "queued" => BudgetLeft(j)
    /\ \A w \in Workers : wk[w].pc = "requeue" => BudgetLeft(wk[w].job)

\* Every step stays within the budget.
LEMMA BudgetStep == Foundation /\ BudgetInv /\ [Next]_vars => BudgetInv'
  <1> SUFFICES ASSUME Foundation, BudgetInv, [Next]_vars
               PROVE  BudgetInv'
    OBVIOUS
  <1>a. /\ faults \in Nat /\ faults' \in Nat /\ faults' >= faults
        /\ MaxAttempts \in Nat /\ MaxAttempts > 0
    BY FaultsGrow, OgpAssumption
  <1>0. 0 < MaxAttempts + faults' /\ 0 <= MaxAttempts + faults'
    <2>1. \A m, f \in Nat : m > 0 => 0 < m + f /\ 0 <= m + f
      OBVIOUS
    <2> QED
      BY <1>a, <2>1
  <1>s. jobs \in Seq(Job)
    BY DEF Foundation, TypeOK
  <1>b. \A j \in 1..Len(jobs) : jobs[j] \in Job /\ jobs[j].attempts \in Nat
    <2>1. \A j \in 1..Len(jobs) : jobs[j] \in Job
      BY <1>s, ElementOfSeq
    <2> QED
      BY <2>1 DEF Job
  <1>1. ASSUME NEW j \in 1..Len(jobs'), Renormalized[jobs'[j].hash] \notin Oversized
        PROVE  /\ jobs'[j].attempts <= MaxAttempts + faults'
               /\ jobs'[j].status = "queued" => jobs'[j].attempts < MaxAttempts + faults'
    <2>1. CASE j \notin 1..Len(jobs) /\ jobs'[j].status = "queued" /\ jobs'[j].attempts = 0
      BY <1>0, <2>1
    <2>2. ASSUME j \in 1..Len(jobs), jobs'[j].hash = jobs[j].hash
          PROVE  /\ jobs[j].attempts \in Nat /\ jobs[j].attempts <= MaxAttempts + faults
                 /\ jobs[j].status = "queued" => jobs[j].attempts < MaxAttempts + faults
      BY <1>1, <1>b, <2>2 DEF BudgetInv, AttemptBudget, BudgetLeft
    <2>3. CASE /\ j \in 1..Len(jobs) /\ jobs'[j].hash = jobs[j].hash
               /\ jobs'[j] = jobs[j]
      BY <1>a, <2>2, <2>3
    <2>4. CASE /\ j \in 1..Len(jobs) /\ jobs'[j].hash = jobs[j].hash
               /\ jobs[j].status = "queued" /\ jobs'[j].status = "running"
               /\ jobs'[j].attempts <= jobs[j].attempts + 1
      <3>1. jobs'[j].attempts \in Nat
        <4>1. jobs' \in Seq(Job)
          BY FoundationStep DEF Foundation, TypeOK
        <4>2. jobs'[j] \in Job
          BY <4>1, ElementOfSeq
        <4> QED
          BY <4>2 DEF Job
      <3> QED
        BY <1>a, <2>2, <2>4, <3>1
    <2>5. ASSUME j \in 1..Len(jobs), jobs'[j].hash = jobs[j].hash,
                 NEW w \in Workers, NEW s \in JobStatus, Closes(w, j, s)
          PROVE  /\ jobs'[j].attempts <= MaxAttempts + faults'
                 /\ jobs'[j].status = "queued" => jobs'[j].attempts < MaxAttempts + faults'
      <3>1. jobs'[j].attempts = jobs[j].attempts /\ jobs'[j].status = s
        BY <1>b, <2>5 DEF Closes, Job
      <3>2. s = "queued" => jobs[j].attempts < MaxAttempts + faults
        BY <1>1, <2>5 DEF Closes, BudgetInv, BudgetLeft
      <3> QED
        BY <1>a, <2>2, <2>5, <3>1, <3>2
    <2> QED
      BY <2>1, <2>3, <2>4, <2>5, JobMoves DEF JobMove
  <1>2. ASSUME NEW w \in Workers, wk'[w].pc = "requeue",
               Renormalized[jobs'[wk'[w].job].hash] \notin Oversized
        PROVE  jobs'[wk'[w].job].attempts < MaxAttempts + faults'
    <2> DEFINE j == wk'[w].job
    <2>0. j \in 1..Len(jobs')
      BY <1>2, FoundationStep DEF Foundation, ClaimExclusive, Busy
    <2>1. CASE wk'[w] = wk[w]
      <3>1. /\ wk[w].pc = "requeue" /\ wk[w].job = j /\ j \in 1..Len(jobs)
            /\ jobs[j].status = "running" /\ jobs'[j].status = "running"
        BY <1>2, <2>1, FoundationStep DEF Foundation, ClaimExclusive, Busy
      <3>2. jobs'[j] = jobs[j]
        <4>1. ASSUME NEW v \in Workers, NEW s \in JobStatus, Closes(v, j, s)
              PROVE  FALSE
          <5>1. jobs'[j].status = s
            BY <1>b, <3>1, <4>1 DEF Closes, Job
          <5> QED
            BY <3>1, <4>1, <5>1 DEF Closes
        <4> QED
          BY <2>0, <3>1, <4>1, JobMoves DEF JobMove
      <3>3. Renormalized[jobs[j].hash] \notin Oversized
        BY <1>2, <3>2
      <3>4. jobs[j].attempts \in Nat /\ jobs[j].attempts < MaxAttempts + faults
        BY <1>b, <3>1, <3>3 DEF BudgetInv, BudgetLeft
      <3> QED
        BY <1>a, <3>2, <3>4
    <2>2. CASE wk'[w] # wk[w]
      <3>1. /\ Busy(w) /\ wk[w].job = j /\ UNCHANGED jobs
            /\ FetchRetry(w) \/ UpsertRejected(w) \/ UpsertOkFails(w)
        BY <1>2, <2>2, WorkerMoves
      <3>2. /\ j \in 1..Len(jobs) /\ Renormalized[jobs[j].hash] \notin Oversized
            /\ jobs[j].attempts \in Nat /\ jobs[j].attempts <= MaxAttempts + faults
        BY <1>2, <1>b, <2>0, <3>1 DEF BudgetInv, AttemptBudget
      <3>3. CASE FetchRetry(w)
        BY <1>a, <3>1, <3>2, <3>3 DEF FetchRetry
      <3>4. CASE UpsertRejected(w)
        BY <3>1, <3>2, <3>4 DEF UpsertRejected, PreviewHash, Hash
      <3>5. CASE UpsertOkFails(w)
        BY <1>a, <3>1, <3>2, <3>5 DEF UpsertOkFails, Fault
      <3> QED
        BY <3>1, <3>3, <3>4, <3>5
    <2> QED
      BY <2>1, <2>2
  <1> QED
    BY <1>1, <1>2 DEF BudgetInv, AttemptBudget, BudgetLeft

\* The attempts at a page that fits the columns stay within the limit, but for
\* one more per cache write that failed.
THEOREM AttemptsStayInBudget == Spec => []AttemptBudget
  <1>1. Init => BudgetInv
    BY OgpAssumption DEF Init, BudgetInv, AttemptBudget, Idle
  <1>2. Spec => []BudgetInv
    BY <1>1, BudgetStep, FoundationHolds, PTL DEF Spec
  <1> QED
    BY <1>2, PTL DEF BudgetInv

-----------------------------------------------------------------------------
(* Done means linked. *)

\* The page of a job is linked to its post.
JobLinked(j) == \E l \in links[jobs[j].post] : l[1] \in PreviewHashes(jobs[j].hash)

\* With no fault, the cache row is there before the link, and the link before
\* the job is done.
LinkedInv ==
    faults = 0 =>
      /\ \A j \in 1..Len(jobs) : jobs[j].status = "done" => JobLinked(j)
      /\ \A w \in Workers : wk[w].pc = "markDone" => JobLinked(wk[w].job)
      /\ \A w \in Workers : wk[w].pc = "attach" => cache[PreviewHash(w)].status # "none"

\* A cache row is never removed, nor a link.
LEMMA RowsStay ==
    ASSUME Foundation, [Next]_vars
    PROVE  /\ \A h \in Hashes : cache[h].status # "none" => cache'[h].status # "none"
           /\ \A p \in Posts : links[p] \subseteq links'[p]
  <1>a. cache \in CacheType /\ links \in LinksType
    BY DEF Foundation, TypeOK, CacheType, LinksType
  <1>1. \A p \in Posts : links[p] \subseteq links'[p]
    <2>1. ASSUME NEW q \in Posts, NEW h, NEW i, links' = LinkSlot(q, h, i)
          PROVE  \A p \in Posts : links[p] \subseteq links'[p]
      BY <1>a, <2>1 DEF LinkSlot, LinksType
    <2>2. ASSUME NEW p \in Posts, HookAttach(p)
          PROVE  \E h, i : links' = LinkSlot(p, h, i)
      BY <2>2 DEF HookAttach
    <2>3. ASSUME NEW w \in Workers, WorkerAttach(w)
          PROVE  \E q \in Posts : \E h, i : links' = LinkSlot(q, h, i)
      <3>1. jobs[wk[w].job] \in Job
        BY <2>3, ElementOfSeq DEF WorkerAttach, WorkerAt, Foundation, TypeOK, ClaimExclusive, Busy
      <3>2. jobs[wk[w].job].post \in Posts
        BY <3>1 DEF Job
      <3> QED
        BY <2>3, <3>2 DEF WorkerAttach
    <2>4. \/ links' = links
          \/ \E p \in Posts : HookAttach(p)
          \/ \E w \in Workers : WorkerAttach(w)
      BY DEF Next, HookBegin, HookStep, HookLookup, HookEnqueue, LookupFails, HookWriteFails,
           HookStops, WorkerStep, Claim, Take, FetchOk, FetchRetry, FetchGiveUp, FetchEnds,
           UpsertOk, UpsertRejected, MarkDone, Requeue, UpsertErr, MarkFailed, UpsertOkFails,
           WorkerWriteFails, AttachFails, UpsertErrFails, Abandon, Tick, vars
    <2> QED
      BY <2>1, <2>2, <2>3, <2>4
  <1>2. \A h \in Hashes : cache[h].status # "none" => cache'[h].status # "none"
    <2>1. ASSUME NEW w \in Workers, NEW g, NEW s \in {"ok", "error"}, NEW ttl,
                 Upsert(w, g, s, ttl)
          PROVE  \A h \in Hashes : cache[h].status # "none" => cache'[h].status # "none"
      BY <1>a, <2>1 DEF Upsert, CacheType
    <2>2. \/ cache' = cache
          \/ \E w \in Workers : \/ Upsert(w, PreviewHash(w), "ok", SuccessTTL)
                                \/ Upsert(w, Hash(w), "error", ErrorTTL)
      BY DEF Next, HookBegin, HookStep, HookLookup, HookAttach, HookEnqueue, LookupFails,
           HookWriteFails, HookStops, WorkerStep, Claim, Take, FetchOk, FetchRetry, FetchGiveUp,
           FetchEnds, UpsertOk, UpsertRejected, WorkerAttach, MarkDone, Requeue, UpsertErr,
           MarkFailed, UpsertOkFails, WorkerWriteFails, AttachFails, UpsertErrFails, Abandon, Tick, vars
    <2> QED
      BY <2>1, <2>2
  <1> QED
    BY <1>1, <1>2

\* A link stays with its job.
LEMMA LinkedStays ==
    ASSUME Foundation, [Next]_vars, NEW j \in 1..Len(jobs), JobLinked(j)
    PROVE  JobLinked(j)'
  <1>1. j \in 1..Len(jobs') /\ jobs'[j].post = jobs[j].post /\ jobs'[j].hash = jobs[j].hash
    BY JobMoves DEF JobMove
  <1>2. jobs[j].post \in Posts
    <2>1. jobs[j] \in Job
      BY ElementOfSeq DEF Foundation, TypeOK
    <2> QED
      BY <2>1 DEF Job
  <1> QED
    BY <1>1, <1>2, RowsStay DEF JobLinked

\* AttachOGP of a job whose page has a cache row ends with the page linked: if
\* the position is taken, it is by the page itself.
LEMMA AttachLinks ==
    ASSUME SlotInv, NEW w \in Workers, WorkerAttach(w),
           cache[PreviewHash(w)].status # "none"
    PROVE  JobLinked(wk[w].job)'
  <1> DEFINE job == jobs[wk[w].job]
             h == PreviewHash(w)
  <1>1. /\ links' = LinkSlot(job.post, h, job.pos) /\ UNCHANGED jobs
        /\ wk'[w].job = wk[w].job /\ wk[w].job \in 1..Len(jobs)
    BY DEF WorkerAttach, WorkerTo, WorkerAt, SlotInv, Foundation, TypeOK, ClaimExclusive, Busy
  <1>2. job \in Job /\ links \in LinksType
    BY <1>1, ElementOfSeq DEF SlotInv, Foundation, TypeOK, LinksType
  <1>3. Content[job.post][job.pos] = job.hash
    BY <1>1 DEF SlotInv, JobsAtSlot
  <1>4. job.post \in Posts /\ cache[h].status # "none" /\ jobs'[wk'[w].job] = job
    BY <1>1, <1>2 DEF Job
  <1>5. h \in PreviewHashes(job.hash)
    BY DEF PreviewHash, PreviewHashes, Hash
  <1> HIDE DEF job, h
  <1>6. \E l \in links'[job.post] : l[1] \in PreviewHashes(job.hash)
    <2>1. CASE \E l \in links[job.post] : l[1] = h \/ l[2] = job.pos
      <3>1. PICK l \in links[job.post] : l[1] = h \/ l[2] = job.pos
        BY <2>1
      <3>2. l[1] \in PreviewHashes(job.hash)
        BY <1>3, <1>4, <1>5, <3>1 DEF SlotInv, LinksAtOwnSlot
      <3>3. links' = links
        BY <1>1, <2>1 DEF LinkSlot
      <3> QED
        BY <3>2, <3>3
    <2>2. CASE ~\E l \in links[job.post] : l[1] = h \/ l[2] = job.pos
      <3>1. links' = [links EXCEPT ![job.post] = @ \cup {<<h, job.pos>>}]
        BY <1>1, <1>4, <2>2 DEF LinkSlot
      <3>2. <<h, job.pos>> \in links'[job.post]
        BY <1>2, <1>4, <3>1 DEF LinksType
      <3> QED
        BY <1>5, <3>2
    <2> QED
      BY <2>1, <2>2
  <1> QED
    BY <1>1, <1>4, <1>6 DEF JobLinked

\* Every step without a fault keeps the order: cache row, link, done.
LEMMA LinkedStep == SlotInv /\ LinkedInv /\ [Next]_vars => LinkedInv'
  <1> SUFFICES ASSUME SlotInv, LinkedInv, [Next]_vars, faults' = 0
               PROVE  /\ \A j \in 1..Len(jobs') : jobs'[j].status = "done" => JobLinked(j)'
                      /\ \A w \in Workers : wk'[w].pc = "markDone" => JobLinked(wk[w].job)'
                      /\ \A w \in Workers : wk'[w].pc = "attach"
                                            => (cache[PreviewHash(w)])'.status # "none"
    BY DEF LinkedInv
  <1>a. Foundation /\ Foundation' /\ faults \in Nat /\ faults = 0 /\ jobs \in Seq(Job)
    BY FoundationStep, FaultsGrow DEF SlotInv, Foundation, TypeOK
  <1>b. \A w \in Workers : Busy(w) => wk[w].job \in 1..Len(jobs) /\ jobs[wk[w].job] \in Job
    BY <1>a, ElementOfSeq DEF Foundation, ClaimExclusive
  <1>1. ASSUME NEW j \in 1..Len(jobs'), jobs'[j].status = "done"
        PROVE  JobLinked(j)'
    <2>1. j \in 1..Len(jobs) /\ JobLinked(j)
      <3>1. ASSUME NEW w \in Workers, NEW s \in JobStatus, Closes(w, j, s), j \in 1..Len(jobs)
            PROVE  JobLinked(j)
        <4>1. jobs'[j].status = s
          BY <1>a, <3>1, ElementOfSeq DEF Closes, Job
        <4> QED
          BY <1>1, <1>a, <3>1, <4>1 DEF Closes, LinkedInv
      <3> QED
        BY <1>1, <1>a, <3>1, JobMoves DEF JobMove, LinkedInv
    <2> QED
      BY <1>a, <2>1, LinkedStays
  <1>2. ASSUME NEW w \in Workers, wk'[w].pc = "markDone"
        PROVE  JobLinked(wk[w].job)'
    <2>1. CASE wk'[w] = wk[w]
      <3>1. JobLinked(wk[w].job) /\ wk[w].job \in 1..Len(jobs)
        BY <1>2, <1>a, <1>b, <2>1 DEF LinkedInv, Busy
      <3>2. \A j \in 1..Len(jobs) : JobLinked(j) => JobLinked(j)'
        BY <1>a, LinkedStays
      <3> QED
        BY <2>1, <3>1, <3>2 DEF JobLinked
    <2>2. CASE wk'[w] # wk[w]
      <3>1. WorkerAttach(w) \/ WorkerWriteFails(w)
        BY <1>2, <1>a, <2>2, WorkerMoves
      <3>2. WorkerAttach(w)
        BY <1>a, <3>1 DEF WorkerWriteFails, AttachFails, UpsertErrFails, Fault
      <3>3. cache[PreviewHash(w)].status # "none"
        BY <1>a, <3>2 DEF WorkerAttach, WorkerAt, LinkedInv
      <3> QED
        BY <3>2, <3>3, AttachLinks
    <2> QED
      BY <2>1, <2>2
  <1>3. ASSUME NEW w \in Workers, wk'[w].pc = "attach"
        PROVE  (cache[PreviewHash(w)])'.status # "none"
    <2> DEFINE h == Renormalized[jobs[wk[w].job].hash]
    <2>1. CASE wk'[w] = wk[w]
      <3>1. /\ Busy(w) /\ wk[w].job \in 1..Len(jobs) /\ cache[h].status # "none"
        BY <1>3, <1>a, <1>b, <2>1 DEF LinkedInv, Busy, PreviewHash, Hash
      <3>2. jobs'[wk'[w].job].hash = jobs[wk[w].job].hash
        BY <1>a, <2>1, <3>1, JobMoves DEF JobMove
      <3>3. h \in Hashes
        BY <1>a, <3>1, WorkerHashes DEF PreviewHash, Hash
      <3>4. cache'[h].status # "none"
        BY <1>a, <3>1, <3>3, RowsStay
      <3> QED
        BY <3>2, <3>4 DEF PreviewHash, Hash
    <2>2. CASE wk'[w] # wk[w]
      <3>1. UpsertOk(w) /\ Busy(w) /\ wk'[w].job = wk[w].job /\ UNCHANGED jobs
        BY <1>3, <1>a, <2>2, WorkerMoves
      <3>2. h \in Hashes
        BY <1>a, <3>1, WorkerHashes DEF PreviewHash, Hash
      <3>3. cache'[h].status = "ok"
        BY <1>a, <3>1, <3>2 DEF UpsertOk, Upsert, PreviewHash, Hash, Foundation, TypeOK
      <3> QED
        BY <3>1, <3>3 DEF PreviewHash, Hash
    <2> QED
      BY <2>1, <2>2
  <1> QED
    BY <1>1, <1>2, <1>3

\* With no fault, a job is done only when its page is linked to its post.
THEOREM DoneJobsAreLinked == Spec => []DoneMeansLinked
  <1>1. Init => LinkedInv
    BY DEF Init, LinkedInv, Idle
  <1>2. Spec => []LinkedInv
    BY <1>1, LinkedStep, SlotInvHolds, PTL DEF Spec
  <1>3. LinkedInv => DoneMeansLinked
    BY DEF LinkedInv, DoneMeansLinked, JobLinked
  <1> QED
    BY <1>2, <1>3, PTL

=============================================================================
