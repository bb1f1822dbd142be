----------------------------- MODULE Lifecycle ------------------------------
(***************************************************************************)
(* main: from the environment to a serving process and back.  The          *)
(* configuration is loaded and validated, the repositories, the Fuju       *)
(* dispatcher and the object storage are built in this order, the OGP      *)
(* worker and the dispatcher run beside the HTTP server, and a signal      *)
(* takes it all down: server, background context, goroutines, pool.        *)
(*                                                                         *)
(* What the OGP worker, the dispatcher and the requests do meanwhile is in *)
(* their own modules; here they only run, use the pool, and stop.  The     *)
(* janitor of the introspection cache touches no database and is left out. *)
(***************************************************************************)
EXTENDS Integers, FiniteSets

CONSTANTS
    Handlers,   \* requests, each served once
    Configs     \* the environments considered, see Config

R2Fields == {"endpoint", "bucket", "domain", "keyID", "secret"}

\* An environment variable that is unset, or that does not parse, has
\* already been given its default by getEnv and its variants.
Config == [repo : {"", "inmemory", "postgres", "other"},
           development : BOOLEAN,
           databaseURL : {"", "postgres", "other"},
           dbFields : BOOLEAN,      \* host, name, user and password are set
           authCore : BOOLEAN,      \* base URL, client id and secret are set
           sameSite : {"Lax", "Strict", "None", "other"},
           secure : BOOLEAN,
           fallback : Int,
           fujuBase : BOOLEAN, fujuTenant : BOOLEAN,
           r2 : SUBSET R2Fields]

ASSUME LifecycleAssumption == Configs \subseteq Config

VARIABLES
    cfg,
    phase,    \* where main is
    pool,     \* "none", "open" or "closed"
    worker,   \* the OGP worker: "off", "idle", "busy", "stopped"
    sender,   \* the dispatcher: "off", "running", "stopped"
    accepts,  \* the server accepts connections
    handler   \* the requests: "none", "running", "done"

lifeVars == <<cfg, phase, pool, worker, sender, accepts, handler>>

----------------------------------------------------------------------------
(* config.go *)

RepoBackend(c) ==
    IF c.repo \in {"inmemory", "postgres"} THEN c.repo
    ELSE IF c.development THEN "inmemory" ELSE "postgres"

ValidRepo(c) ==
    /\ c.repo # "other"
    /\ RepoBackend(c) = "postgres" =>
          IF c.databaseURL = "" THEN c.dbFields ELSE c.databaseURL = "postgres"

ValidCookie(c) ==
    /\ c.sameSite # "other"
    /\ c.sameSite = "None" => c.secure
    /\ ~c.secure => c.development
    /\ c.fallback > 0

ValidR2(c) == c.r2 \in {{}, R2Fields}

Validate(c) ==
    /\ ValidRepo(c) /\ c.authCore /\ ValidCookie(c)
    /\ c.fujuBase = c.fujuTenant
    /\ ValidR2(c)

FujuModelEnabled(c) == c.fujuBase /\ c.fujuTenant

R2Enabled(c) == c.r2 = R2Fields

----------------------------------------------------------------------------
(* main, up to serving *)

LifeInit ==
    /\ cfg \in Configs
    /\ phase = "load"
    /\ pool = "none" /\ worker = "off" /\ sender = "off" /\ accepts = FALSE
    /\ handler = [h \in Handlers |-> "none"]

Load ==
    /\ phase = "load"
    /\ phase' = IF Validate(cfg) THEN "repos" ELSE "exit"
    /\ UNCHANGED <<cfg, pool, worker, sender, accepts, handler>>

\* newRepositorySet; NewPool fails fast when the database does not answer.
OpenRepos ==
    /\ phase = "repos"
    /\ \/ /\ phase' = "build"
          /\ pool' = IF RepoBackend(cfg) = "postgres" THEN "open" ELSE "none"
       \/ /\ RepoBackend(cfg) = "postgres"
          /\ phase' = "exit" /\ UNCHANGED pool
    /\ UNCHANGED <<cfg, worker, sender, accepts, handler>>

\* The Fuju client and dispatcher, then the R2 service; each may refuse.
\* os.Exit runs no deferred call: the pool is not closed.
BuildFails ==
    /\ phase = "build" /\ (FujuModelEnabled(cfg) \/ R2Enabled(cfg))
    /\ phase' = "exit"
    /\ UNCHANGED <<cfg, pool, worker, sender, accepts, handler>>

StartServing ==
    /\ phase = "build"
    /\ phase' = "serving"
    /\ accepts' = TRUE
    /\ worker' = "idle"
    /\ sender' = IF FujuModelEnabled(cfg) THEN "running" ELSE "off"
    /\ UNCHANGED <<cfg, pool, handler>>

----------------------------------------------------------------------------
(* The goroutines *)

\* ListenAndServe returns an error: it is logged, and main goes on waiting.
ListenFails ==
    /\ phase = "serving" /\ accepts
    /\ accepts' = FALSE
    /\ UNCHANGED <<cfg, phase, pool, worker, sender, handler>>

Accept(h) ==
    /\ accepts /\ handler[h] = "none"
    /\ handler' = [handler EXCEPT ![h] = "running"]
    /\ UNCHANGED <<cfg, phase, pool, worker, sender, accepts>>

Finish(h) ==
    /\ handler[h] = "running"
    /\ handler' = [handler EXCEPT ![h] = "done"]
    /\ UNCHANGED <<cfg, phase, pool, worker, sender, accepts>>

Cancelled == phase \in {"cancelled", "waited", "stopped"}

\* Worker.Run: a claim and all that follows it, and the end of the loop
\* when the context is done.
WorkerClaims ==
    /\ worker = "idle"
    /\ worker' = "busy"
    /\ UNCHANGED <<cfg, phase, pool, sender, accepts, handler>>

WorkerRests ==
    /\ worker = "busy"
    /\ worker' = "idle"
    /\ UNCHANGED <<cfg, phase, pool, sender, accepts, handler>>

WorkerStops ==
    /\ worker = "idle" /\ Cancelled
    /\ worker' = "stopped"
    /\ UNCHANGED <<cfg, phase, pool, sender, accepts, handler>>

SenderStops ==
    /\ sender = "running" /\ Cancelled
    /\ sender' = "stopped"
    /\ UNCHANGED <<cfg, phase, pool, worker, accepts, handler>>

----------------------------------------------------------------------------
(* main, after the signal *)

Signal ==
    /\ phase = "serving"
    /\ phase' = "draining"
    /\ accepts' = FALSE
    /\ UNCHANGED <<cfg, pool, worker, sender, handler>>

\* server.Shutdown returns when the requests are done or after its 30 s.
ShutdownReturns ==
    /\ phase = "draining"
    /\ phase' = "drained"
    /\ UNCHANGED <<cfg, pool, worker, sender, accepts, handler>>

CancelBackground ==
    /\ phase = "drained"
    /\ phase' = "cancelled"
    /\ UNCHANGED <<cfg, pool, worker, sender, accepts, handler>>

\* Mutant: only the dispatcher is in the wait group.
WaitForSender ==
    /\ phase = "cancelled"
    /\ sender # "running"
    /\ phase' = "waited"
    /\ UNCHANGED <<cfg, pool, worker, sender, accepts, handler>>

\* workerWG.Wait.
WaitForWorkers ==
    /\ phase = "cancelled"
    /\ worker = "stopped" /\ sender # "running"
    /\ phase' = "waited"
    /\ UNCHANGED <<cfg, pool, worker, sender, accepts, handler>>

\* The deferred cleanupRepos, and main returns.
CleanupRepos ==
    /\ phase = "waited"
    /\ pool' = IF pool = "open" THEN "closed" ELSE pool
    /\ phase' = "stopped"
    /\ UNCHANGED <<cfg, worker, sender, accepts, handler>>

LifeNext ==
    \/ Load \/ OpenRepos \/ BuildFails \/ StartServing \/ ListenFails
    \/ WorkerClaims \/ WorkerRests \/ WorkerStops \/ SenderStops
    \/ Signal \/ ShutdownReturns \/ CancelBackground \/ WaitForWorkers \/ CleanupRepos
    \/ \E h \in Handlers : Accept(h) \/ Finish(h)

LifeSpec == LifeInit /\ [][LifeNext]_lifeVars

----------------------------------------------------------------------------
\* The OGP worker is never at work on a pool that has been closed, whatever
\* the requests that Shutdown gave up on are doing (main.go, "deferred
\* cleanup (which closes the pgxpool) can race the worker's next
\* queue.Claim"), and it works on the pool of the backend configured.
PoolOutlivesWorker ==
    worker = "busy" => pool = IF RepoBackend(cfg) = "postgres" THEN "open" ELSE "none"
=============================================================================
