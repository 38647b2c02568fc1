---------------------------- MODULE Credentials ----------------------------
(***************************************************************************)
(* Rotating the platform's credentials in place                            *)
(* (scripts/rotate_credentials.py) beside the game day's storage scenario  *)
(* (scripts/gameday_m6.py), which breaks one of them on purpose.           *)
(*                                                                         *)
(* A credential lives in several places: `.env`, the Kubernetes Secrets    *)
(* made from it, the backing service that checks it, and the workloads     *)
(* that took a copy.  Values are random, so only equality matters: a value *)
(* is the number of the generation that made it.                           *)
(***************************************************************************)
EXTENDS Naturals

CONSTANTS
    Choices,        \* sets of families a rotation may be asked for
    MaxRuns,        \* bounds: rotations,
    MaxTroubles     \* and game days, kills and evictions together


VARIABLES
    env,        \* .env
    secret,     \* the Secrets platform_secrets.sh makes of it
    service,    \* what Postgres, MinIO, Grafana and Metabase accept
    held,       \* the copies of the consumers
    spare,      \* the copy of .env put aside before a rotation
    made,       \* the newest value generated for a key
    predictor,  \* the champion's pod: "up", or its initializer fails: "down"
    pc,         \* the rotation: what it does next, or how it ended
    before,     \* .env as the rotation read it, once
    left,       \* families it has not done
    asked,      \* families it was asked for
    users,      \* MinIO users it has not re-issued
    pending,    \* consumers it has to drain
    record,     \* rotation.json
    drill,      \* the storage scenario: what it does next, or how it ended
    captured,   \* the bytes it put aside
    runs, kills, drills, evictions

stores == <<env, secret, service, held, spare, made>>
rotation == <<pc, before, left, asked, users, pending, record>>
scenario == <<drill, captured>>
counters == <<runs, kills, drills, evictions>>
vars == <<stores, predictor, rotation, scenario, counters>>

MinioUsers == {"mlflow", "flyte", "serving"}
UserOrder == [mlflow |-> 1, flyte |-> 2, serving |-> 3]
Keys == {"tenants", "superuser", "root", "grafana", "admin"} \cup MinioUsers

KeysOf == [postgres |-> {"tenants", "superuser"}, minio_users |-> MinioUsers,
           minio_root |-> {"root"}, grafana |-> {"grafana"}, metabase_admin |-> {"admin"}]
Families == DOMAIN KeysOf

ASSUME CredentialsAssumption ==
    /\ Choices \subseteq (SUBSET Families) \ {{}}
    /\ {MaxRuns, MaxTroubles} \subseteq Nat

FamilyOrder == [postgres |-> 1, minio_users |-> 2, minio_root |-> 3,
                grafana |-> 4, metabase_admin |-> 5]

(* Faulty variant: without the boards' stored warehouse connection.        *)
ConsumersButBoards ==
    [postgres |-> {"mlflow", "metabase", "flyte"},
     minio_users |-> {"mlflow", "flyte", "serving"},
     minio_root |-> {}, grafana |-> {"grafana"}, metabase_admin |-> {}]

Consumers ==
    [postgres |-> {"mlflow", "metabase", "flyte", "boards"},
     minio_users |-> {"mlflow", "flyte", "serving"},
     minio_root |-> {}, grafana |-> {"grafana"}, metabase_admin |-> {}]

DrainOrder == [mlflow |-> 1, metabase |-> 2, grafana |-> 3, flyte |-> 4,
               boards |-> 5, serving |-> 6]

(* The copies a consumer keeps.  Grafana is its own backing service.       *)
Holds == [mlflow |-> {"tenants", "mlflow"}, metabase |-> {"tenants"},
          flyte |-> {"tenants", "flyte"}, boards |-> {"tenants"},
          serving |-> {"serving"}]

FirstOf(S, rank) == CHOOSE x \in S : \A y \in S : rank[x] <= rank[y]

None == 0      \* no copy was put aside
Wrong == 0     \* what the storage scenario injects

Nothing == [families |-> {}, finished |-> FALSE, refused |-> FALSE]
NoCopy == [k \in Keys |-> None]

Init ==
    /\ env = [k \in Keys |-> 1] /\ secret = env /\ service = env /\ made = env
    /\ held = [c \in DOMAIN Holds |-> [k \in Holds[c] |-> 1]]
    /\ spare = NoCopy
    /\ predictor = "up"
    /\ pc = "idle" /\ before = env /\ left = {} /\ asked = {}
    /\ users = {} /\ pending = {} /\ record = Nothing
    /\ drill = "idle" /\ captured = Wrong
    /\ runs = 0 /\ kills = 0 /\ drills = 0 /\ evictions = 0

Trouble == kills + drills + evictions < MaxTroubles

AtRest == pc \in {"idle", "refused", "killed", "finished"}

-----------------------------------------------------------------------------
(* What the steps do to the stores.                                        *)

Generate(K) == made' = [k \in Keys |-> IF k \in K THEN made[k] + 1 ELSE made[k]]
WriteEnv(K) == env' = [k \in Keys |-> IF k \in K THEN made'[k] ELSE env[k]]

(* platform_secrets.sh: Metabase's admin is in no Secret.                  *)
SecretsOfEnv == [env EXCEPT !["admin"] = secret["admin"]]

Accept(K, values) ==
    service' = [k \in Keys |-> IF k \in K THEN values[k] ELSE service[k]]

Copies(c, values) == [k \in Holds[c] |-> values[k]]

(* A pod starts if the credential its initializer fetches with is live.    *)
PodWith(value) == IF value = service["serving"] THEN "up" ELSE "down"

-----------------------------------------------------------------------------
(* The rotation.                                                           *)

Goto(label) == pc' = label

(* .env is read here, once; the copy aside must exist.                     *)
Start(F) ==
    /\ AtRest /\ spare # NoCopy
    /\ runs < MaxRuns /\ runs' = runs + 1
    /\ before' = env /\ asked' = F /\ left' = F
    /\ users' = {} /\ pending' = {}
    /\ Goto("family")
    /\ UNCHANGED <<stores, predictor, record, scenario, kills, drills, evictions>>

Family == FirstOf(left, FamilyOrder)

NextFamily ==
    /\ pc = "family"
    /\ Goto(IF left = {} THEN "drain" ELSE Family)
    /\ UNCHANGED <<stores, predictor, before, left, asked, users, pending, record,
                   scenario, counters>>

Local == <<predictor, before, left, asked, pending, record, scenario, counters>>

(* Faulty variant: the recipe runs before .env names the new passwords.    *)
PostgresRecipeFirst ==
    /\ pc = "postgres"
    /\ Accept({"tenants"}, env)
    /\ Generate(KeysOf.postgres)
    /\ WriteEnv(KeysOf.postgres)
    /\ Goto("superuser")
    /\ UNCHANGED <<secret, held, spare, users, Local>>

PostgresEnv ==
    /\ pc = "postgres"
    /\ Generate(KeysOf.postgres)
    /\ WriteEnv(KeysOf.postgres)
    /\ Goto("recipe")
    /\ UNCHANGED <<secret, service, held, spare, users, Local>>

(* postgres_databases.sh gives the roles what .env says; inside the pod no *)
(* password is asked for, so this works whatever the live ones are.        *)
PostgresRecipe ==
    /\ pc = "recipe"
    /\ Accept({"tenants"}, env)
    /\ Goto("superuser")
    /\ UNCHANGED <<env, secret, held, spare, made, users, Local>>

PostgresSuperuser ==
    /\ pc = "superuser"
    /\ Accept({"superuser"}, made)
    /\ Goto("checkpoint")
    /\ UNCHANGED <<env, secret, held, spare, made, users, Local>>

(* `mc` logs in with the root password .env had.                           *)
Live(k) == before[k] = service[k]
RootIsLive == Live("root")

ListUsers ==
    /\ pc = "minio_users"
    /\ users' = MinioUsers
    /\ Goto(IF RootIsLive THEN "reissue" ELSE "refused")
    /\ UNCHANGED <<stores, Local>>

Reissue(u) ==
    /\ pc = "reissue"
    /\ u \in users /\ u = FirstOf(users, UserOrder)
    /\ IF RootIsLive
       THEN /\ Generate({u})
            /\ Accept({u}, made')
            /\ users' = users \ {u}
            /\ UNCHANGED pc
       ELSE /\ Goto("refused")
            /\ UNCHANGED <<made, service, users>>
    /\ UNCHANGED <<env, secret, held, spare, Local>>

UsersEnv ==
    /\ pc = "reissue" /\ users = {}
    /\ UNCHANGED <<made, secret, service, held, spare, users, Local>>
    /\ WriteEnv(MinioUsers)
    /\ Goto("checkpoint")

(* Root and Grafana take their password from a Secret when they start.     *)
GenerateEnv(step, k, next) ==
    /\ pc = step
    /\ Generate({k}) /\ WriteEnv({k})
    /\ Goto(next)
    /\ UNCHANGED <<secret, service, held, spare, users, Local>>

RootEnv == GenerateEnv("minio_root", "root", "root_secret")
GrafanaEnv == GenerateEnv("grafana", "grafana", "grafana_secret")

(* Faulty variant: only the root and Grafana families make the Secrets.    *)
SecretsNotForUsers ==
    /\ \/ pc = "root_secret" /\ Goto("restart") /\ secret' = SecretsOfEnv
       \/ pc = "grafana_secret" /\ Goto("checkpoint") /\ secret' = SecretsOfEnv
       \/ pc = "secrets" /\ Goto("family") /\ UNCHANGED secret
    /\ UNCHANGED <<env, service, held, spare, made, users, Local>>

ApplySecrets ==
    /\ \/ pc = "root_secret" /\ Goto("restart")
       \/ pc = "grafana_secret" /\ Goto("checkpoint")
       \/ pc = "secrets" /\ Goto("family")
    /\ secret' = SecretsOfEnv
    /\ UNCHANGED <<env, service, held, spare, made, users, Local>>

(* The restart makes root's password live; the users are read with it.     *)
RestartMinio ==
    /\ pc = "restart"
    /\ Accept({"root"}, secret)
    /\ Goto(IF secret["root"] = made["root"] THEN "checkpoint" ELSE "refused")
    /\ UNCHANGED <<env, secret, held, spare, made, users, Local>>

(* Metabase wants the old password to set a new one; .env comes after.     *)
AdminPassword ==
    /\ pc = "metabase_admin"
    /\ IF Live("admin")
       THEN /\ Generate({"admin"})
            /\ Accept({"admin"}, made')
            /\ Goto("admin_env")
       ELSE /\ Goto("refused")
            /\ UNCHANGED <<made, service>>
    /\ UNCHANGED <<env, secret, held, spare, users, Local>>

AdminEnv ==
    /\ pc = "admin_env"
    /\ UNCHANGED <<made, secret, service, held, spare, users, Local>>
    /\ WriteEnv({"admin"})
    /\ Goto("checkpoint")

(* rotation.json is overwritten: it names the families of this run only.   *)
Checkpoint ==
    /\ pc = "checkpoint"
    /\ left' = left \ {Family}
    /\ pending' = pending \cup Consumers[Family]
    /\ record' = [Nothing EXCEPT !.families = asked \ left']
    /\ Goto(IF Family \in {"postgres", "minio_users"} THEN "secrets" ELSE "family")
    /\ UNCHANGED <<stores, predictor, before, asked, users, scenario, counters>>

-----------------------------------------------------------------------------
(* Draining the consumers, once each, in a fixed order.                    *)

(* deploy_flyte.sh and deploy_champion.sh make the Secrets again and have  *)
(* the MinIO chart's job log in with root's.                               *)
MinioConverges == env["root"] = service["root"]

(* deploy_champion.sh (`make serve`): the predictor's Secret from .env; a  *)
(* pod that runs stays, one that could not start tries again.              *)
MakeServe ==
    /\ secret' = SecretsOfEnv
    /\ IF MinioConverges
       THEN /\ held' = [held EXCEPT !.serving = Copies("serving", env)]
            /\ predictor' = IF predictor = "up" THEN "up" ELSE PodWith(env["serving"])
       ELSE UNCHANGED <<held, predictor>>
Served == MinioConverges /\ predictor' = "up"

(* A restarted workload takes the Secrets; without its database it never   *)
(* becomes ready, and the wait for it raises.                              *)
Restart(c) ==
    /\ held' = [held EXCEPT ![c] = Copies(c, secret)]
    /\ Goto(IF secret["tenants"] = service["tenants"] THEN "drain" ELSE "refused")
    /\ UNCHANGED <<secret, service, predictor>>

RestartGrafana ==
    /\ Accept({"grafana"}, secret)
    /\ Goto("drain")
    /\ UNCHANGED <<secret, held, predictor>>

(* A helm upgrade renders .env into Flyte's own Secrets.                   *)
DeployFlyte ==
    /\ secret' = SecretsOfEnv
    /\ IF MinioConverges
       THEN /\ held' = [held EXCEPT !.flyte = Copies("flyte", env)]
            /\ Goto(IF env["tenants"] = service["tenants"] THEN "drain" ELSE "refused")
       ELSE UNCHANGED held /\ Goto("refused")
    /\ UNCHANGED <<service, predictor>>

(* metabase_boards.py logs in as the admin and stores the connection.      *)
ConvergeBoards ==
    /\ IF env["admin"] = service["admin"]
       THEN /\ held' = [held EXCEPT !.boards = Copies("boards", env)]
            /\ Goto("drain")
       ELSE UNCHANGED held /\ Goto("refused")
    /\ UNCHANGED <<secret, service, predictor>>

Drain(c) ==
    /\ pc = "drain"
    /\ c \in pending /\ c = FirstOf(pending, DrainOrder)
    /\ \/ c \in {"mlflow", "metabase"} /\ Restart(c)
       \/ c = "grafana" /\ RestartGrafana
       \/ c = "flyte" /\ DeployFlyte
       \/ c = "boards" /\ ConvergeBoards
       \/ c = "serving" /\ MakeServe /\ UNCHANGED service
          /\ Goto(IF Served THEN "drain" ELSE "refused")
    /\ pending' = pending \ {c}
    /\ UNCHANGED <<env, spare, made, before, left, asked, users, record,
                   scenario, counters>>

Finish ==
    /\ pc = "drain" /\ pending = {}
    /\ record' = [record EXCEPT !.finished = TRUE]
    /\ Goto("finished")
    /\ UNCHANGED <<stores, predictor, before, left, asked, users, pending,
                   scenario, counters>>

(* The process dies, or a command it runs fails: what it had still to do   *)
(* was only in its memory.                                                 *)
KillRotation ==
    /\ ~AtRest
    /\ Trouble /\ kills' = kills + 1
    /\ Goto("killed")
    /\ UNCHANGED <<stores, predictor, before, left, asked, users, pending, record,
                   scenario, runs, drills, evictions>>

-----------------------------------------------------------------------------
(* Around it: the operator's copy, the probes, and pods that restart.      *)

CopyAside ==
    /\ AtRest /\ spare = NoCopy
    /\ spare' = env
    /\ UNCHANGED <<env, secret, service, held, made, predictor, rotation, scenario, counters>>

(* --verify-old-refused: four probes, two of them only if .env changed,    *)
(* and the live database password as the control.                          *)
Dead(k) == spare[k] # service[k]

VerifyOldRefused ==
    /\ AtRest /\ spare # NoCopy
    /\ record' = [record EXCEPT !.refused =
          /\ spare["root"] # env["root"] /\ Dead("root")
          /\ \A k \in {"serving", "tenants"} : spare[k] # env[k] => Dead(k)
          /\ env["tenants"] = service["tenants"]]
    /\ UNCHANGED <<stores, predictor, pc, before, left, asked, users, pending,
                   scenario, counters>>

(* --destroy-pre-rotation, whatever was verified.                          *)
DestroyPreRotation ==
    /\ spare # NoCopy
    /\ spare' = NoCopy
    /\ UNCHANGED <<env, secret, service, held, made, predictor, rotation, scenario, counters>>

Evict(w) ==
    /\ Trouble /\ evictions' = evictions + 1
    /\ \/ /\ w = "predictor"
          /\ predictor' = PodWith(held["serving"]["serving"])
          /\ UNCHANGED <<service, held>>
       \/ /\ w \in {"root", "grafana"}     \* MinIO's and Grafana's pods
          /\ Accept({w}, secret)
          /\ UNCHANGED <<predictor, held>>
       \/ /\ w \in {"mlflow", "metabase"}
          /\ held' = [held EXCEPT ![w] = Copies(w, secret)]
          /\ UNCHANGED <<service, predictor>>
    /\ UNCHANGED <<env, secret, spare, made, rotation, scenario, runs, kills, drills>>

-----------------------------------------------------------------------------
(* The storage scenario.  Its preflight wants the endpoint to answer.      *)

DrillStays == <<env, service, spare, made, rotation, runs, kills, evictions>>

(* Faulty variant: the undo is staged after the injection.                 *)
InjectFirst ==
    /\ drill \notin {"inject", "delete", "undo", "fallback"}
    /\ predictor = "up"
    /\ Trouble /\ drills' = drills + 1
    /\ held' = [held EXCEPT !.serving["serving"] = Wrong]
    /\ captured' = Wrong
    /\ drill' = "delete"
    /\ UNCHANGED <<secret, predictor, DrillStays>>

Capture ==
    /\ drill \notin {"inject", "delete", "undo", "fallback"}
    /\ predictor = "up"
    /\ Trouble /\ drills' = drills + 1
    /\ captured' = held["serving"]["serving"]
    /\ drill' = "inject"
    /\ UNCHANGED <<secret, held, predictor, DrillStays>>

Inject ==
    /\ drill = "inject"
    /\ held' = [held EXCEPT !.serving["serving"] = Wrong]
    /\ drill' = "delete"
    /\ UNCHANGED <<secret, captured, predictor, drills, DrillStays>>

(* An exception on the way leads to the undo all the same.                 *)
DeletePod ==
    /\ drill = "delete"
    /\ \/ predictor' = PodWith(held["serving"]["serving"])
       \/ UNCHANGED predictor
    /\ drill' = "undo"
    /\ UNCHANGED <<secret, held, captured, drills, DrillStays>>

Undo ==
    /\ drill = "undo"
    /\ MakeServe
    /\ drill' = IF Served THEN "restored" ELSE "fallback"
    /\ UNCHANGED <<captured, drills, DrillStays>>

(* `make serve` failed: the captured bytes, and a new pod.                 *)
Fallback ==
    /\ drill = "fallback"
    /\ held' = [held EXCEPT !.serving["serving"] = captured]
    /\ predictor' = PodWith(captured)
    /\ drill' = IF predictor' = "up" THEN "put_back" ELSE "failed"
    /\ UNCHANGED <<secret, captured, drills, DrillStays>>

(* kill -9: no `finally` runs.                                             *)
KillDrill ==
    /\ drill \in {"inject", "delete", "undo", "fallback"}
    /\ Trouble /\ kills' = kills + 1
    /\ drill' = "killed"
    /\ UNCHANGED <<stores, predictor, rotation, captured, runs, drills, evictions>>

-----------------------------------------------------------------------------
RotationStep ==
    \/ NextFamily
    \/ PostgresEnv \/ PostgresRecipe \/ PostgresSuperuser
    \/ ListUsers \/ (\E u \in MinioUsers : Reissue(u)) \/ UsersEnv
    \/ RootEnv \/ RestartMinio \/ GrafanaEnv \/ ApplySecrets
    \/ AdminPassword \/ AdminEnv
    \/ Checkpoint \/ (\E c \in DOMAIN DrainOrder : Drain(c)) \/ Finish

DrillStep == Inject \/ DeletePod \/ Undo \/ Fallback

Next ==
    \/ \E F \in Choices : Start(F)
    \/ RotationStep \/ KillRotation
    \/ CopyAside \/ VerifyOldRefused \/ DestroyPreRotation
    \/ \E w \in {"predictor", "root", "grafana", "mlflow", "metabase"} : Evict(w)
    \/ Capture \/ DrillStep \/ KillDrill

Spec == Init /\ [][Next]_vars

(* A process that was started goes on until it ends or dies.               *)
FairSpec == Spec /\ WF_vars(RotationStep) /\ WF_vars(DrillStep)

-----------------------------------------------------------------------------
Gens == 0 .. MaxRuns + 1
Stored == [Keys -> Gens]
RotationLabels ==
    {"idle", "refused", "killed", "finished", "family", "recipe", "superuser",
     "reissue", "root_secret", "restart", "grafana_secret", "admin_env",
     "checkpoint", "secrets", "drain"} \cup Families
DrillLabels == {"idle", "inject", "delete", "undo", "fallback", "restored",
                "put_back", "failed", "killed"}

TypeOK ==
    /\ {env, secret, service, made, spare, before} \subseteq Stored
    /\ held \in [DOMAIN Holds -> UNION {[Holds[c] -> Gens] : c \in DOMAIN Holds}]
    /\ predictor \in {"up", "down"}
    /\ pc \in RotationLabels /\ drill \in DrillLabels
    /\ left \subseteq asked /\ asked \subseteq Families
    /\ users \subseteq MinioUsers /\ pending \subseteq DOMAIN DrainOrder
    /\ record \in [families : SUBSET Families, finished : BOOLEAN, refused : BOOLEAN]
    /\ captured \in Gens
    /\ {runs, kills, drills, evictions} \subseteq Nat

(* Every place that holds key k holds the live value.                      *)
Agreed(k) ==
    /\ env[k] = service[k]
    /\ k # "admin" => secret[k] = service[k]
    /\ \A c \in DOMAIN Holds : k \in Holds[c] => held[c][k] = service[k]

(* "What is NOT accepted is ending with any pair disagreeing": a rotation  *)
(* that ends leaves no place behind for the families it was asked for,     *)
(* whatever earlier rotations that died left, unless the storage scenario  *)
(* has the predictor's credential broken or put an older one back.         *)
FinishedAgrees ==
    pc = "finished" /\ drill \in {"idle", "restored"} =>
        \A f \in asked : \A k \in KeysOf[f] : Agreed(k)

(* Only a dead predecessor stops a rotation: if .env names the live MinIO  *)
(* root and Metabase admin, and the databases' passwords unless it is to   *)
(* replace them, it ends, or dies.                                         *)
FitRunsFinish ==
    pc = "family" /\ left = asked /\ Live("root") /\ Live("admin")
      /\ ("postgres" \in asked \/ Live("tenants"))
        ~> pc \in {"finished", "killed"}

(* Without a kill no order of rotations of any families, game days, pods   *)
(* that restart, and copies put aside locks the scripts out.               *)
NeverLockedOut ==
    kills = 0 /\ AtRest =>
        \A k \in Keys : env[k] = service[k]

(* The scenario undoes itself, by `make serve` or from the bytes it put    *)
(* aside: the wrong credential stays only if it is killed.                 *)
DrillUndone ==
    kills = 0 /\ drill \in {"restored", "put_back", "failed"} =>
        held["serving"]["serving"] # Wrong

(* The three together: who may log in is never lost track of.              *)
AccessIsKept == TypeOK /\ FinishedAgrees /\ NeverLockedOut /\ DrillUndone

(* "PASSED -- the pre-rotation values are dead": the old value of every    *)
(* key of a family the record lists is refused.                            *)
OldValuesDead ==
    [][~record.refused /\ record'.refused =>
          \A f \in record.families : \A k \in KeysOf[f] : Dead(k)]_vars
=============================================================================
