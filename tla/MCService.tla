------------------------------ MODULE MCService -----------------------------
(***************************************************************************)
(* The post use cases, the gate, the service token and the life of the     *)
(* process.  They share no state, so a behaviour follows one of the four,  *)
(* and the others stay in an initial state.                                *)
(***************************************************************************)
EXTENDS MCPostEngagement, MCGate, ServiceToken, Lifecycle

VARIABLE focus

MCConfig == [repo |-> "postgres", development |-> FALSE, databaseURL |-> "postgres",
             dbFields |-> FALSE, authCore |-> TRUE, sameSite |-> "Lax", secure |-> TRUE,
             fallback |-> 1, fujuBase |-> TRUE, fujuTenant |-> TRUE, r2 |-> R2Fields]

\* Each group of settings that Validate reads together is varied in full.
MCConfigs ==
    {[MCConfig EXCEPT !.repo = repo, !.development = dev, !.databaseURL = url,
                      !.dbFields = fields] :
        repo \in {"", "inmemory", "postgres", "other"}, dev \in BOOLEAN,
        url \in {"", "postgres", "other"}, fields \in BOOLEAN}
    \cup
    {[MCConfig EXCEPT !.development = dev, !.sameSite = site, !.secure = secure,
                      !.fallback = age] :
        dev \in BOOLEAN, site \in {"Lax", "Strict", "None", "other"},
        secure \in BOOLEAN, age \in {0, 1}}
    \cup
    {[MCConfig EXCEPT !.authCore = auth, !.fujuBase = base, !.fujuTenant = tenant,
                      !.r2 = r2] :
        auth \in BOOLEAN, base \in BOOLEAN, tenant \in BOOLEAN,
        r2 \in {{}, {"bucket"}, R2Fields}}

MCInit ==
    /\ focus \in {"posts", "gate", "token", "life"}
    /\ cfg \in IF focus = "life" THEN Configs ELSE {MCConfig}
    /\ known \in IF focus = "gate" THEN SUBSET Subs ELSE {{}}
    /\ Init /\ GateInit /\ TokenInit /\ LifeInit
    /\ focus = "posts" \/ \A p \in Seed : row[p].author = CHOOSE u \in Users : TRUE

MCNext ==
    \/ focus = "posts" /\ Next /\ UNCHANGED <<gateVars, tokenVars, lifeVars, focus>>
    \/ focus = "gate" /\ GateNext /\ UNCHANGED <<vars, tokenVars, lifeVars, focus>>
    \/ focus = "token" /\ TokenNext /\ UNCHANGED <<vars, gateVars, lifeVars, focus>>
    \/ focus = "life" /\ LifeNext /\ UNCHANGED <<vars, gateVars, tokenVars, focus>>

MCSpec == MCInit /\ [][MCNext]_<<vars, gateVars, tokenVars, lifeVars, focus>>

MCSymmetry == Permutations(Requests) \cup Permutations(Reqs)
=============================================================================
