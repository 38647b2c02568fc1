---------------------------- MODULE PlatformProofs ----------------------------
(***************************************************************************)
(* Proofs about the two systems of MCPlatform: Credentials, for every      *)
(* choice of families and any number of rotations, game days, kills and    *)
(* evictions, and the study and its drill, for every number of processes,  *)
(* trials, retries, kills and troubles.                                    *)
(***************************************************************************)
EXTENDS MCPlatform, FiniteSetTheorems, TLAPS

(* The steps of a family, before its checkpoint.                           *)
LabelsOf == [postgres |-> {"postgres", "recipe", "superuser"},
             minio_users |-> {"minio_users", "reissue"},
             minio_root |-> {"minio_root", "root_secret", "restart"},
             grafana |-> {"grafana", "grafana_secret"},
             metabase_admin |-> {"metabase_admin", "admin_env"}]

Credible ==
    /\ {env, secret, service, made, spare, before} \subseteq Stored
    /\ held = [e \in DOMAIN Holds |-> held[e]]
    /\ \A c \in DOMAIN Holds : held[c] \in [Holds[c] -> Gens]
    /\ predictor \in {"up", "down"}
    /\ pc \in RotationLabels /\ drill \in DrillLabels
    /\ left \subseteq asked /\ asked \subseteq Families
    /\ users \subseteq MinioUsers /\ pending \subseteq DOMAIN DrainOrder
    /\ record \in [families : SUBSET Families, finished : BOOLEAN, refused : BOOLEAN]
    /\ captured \in Gens
    /\ runs \in 0..MaxRuns /\ {kills, drills, evictions} \subseteq Nat

(* A rotation is at the first of the families that are left.               *)
AtFamily ==
    /\ \A f \in Families : pc \in LabelsOf[f] => f \in left /\ f = Family
    /\ pc = "checkpoint" => left # {}
    /\ pc \in {"drain", "finished"} => left = {}
    /\ pc = "finished" => pending = {}
    /\ \A f \in asked \ left, g \in left : FamilyOrder[f] < FamilyOrder[g]

(* Key k of family f is still as the rotation read it ...                  *)
Untouched(f, k) ==
    \/ f \notin asked
    \/ f \in left /\ (\/ f # Family
                      \/ pc \in {"family", "secrets", f}
                      \/ pc = "reissue" /\ k \in users)

(* ... and has no value of this rotation's: one it generates is a new one. *)
Generations ==
    \A f \in Families : \A k \in KeysOf[f] :
        /\ 1 <= env[k] /\ 1 <= made[k] /\ made[k] <= runs + 1
        /\ ~AtRest /\ Untouched(f, k) => before[k] = env[k]
        /\ ~AtRest /\ f \in left /\ Untouched(f, k) => made[k] <= runs

(* Between two steps of a family, what the next one relies on.             *)
Midway ==
    /\ pc \in {"recipe", "superuser"} => env["superuser"] = made["superuser"]
    /\ pc = "superuser" => env["tenants"] = service["tenants"]
    /\ pc = "reissue" => \A u \in MinioUsers \ users : service[u] = made[u]
    /\ pc \in {"root_secret", "restart"} => env["root"] = made["root"]
    /\ pc = "restart" => secret["root"] = env["root"]
    /\ pc = "admin_env" => service["admin"] = made["admin"]
    /\ pc = "checkpoint" => \A k \in KeysOf[Family] :
          /\ k # "grafana" => env[k] = service[k]
          /\ k \in {"root", "grafana"} => secret[k] = env[k]

(* A family that is done agrees, but for the consumers still to drain.     *)
DoneFamilies == IF pc \in {"idle", "refused", "killed"} THEN {} ELSE asked \ left
Done ==
    \A f \in DoneFamilies :
      /\ pc \notin {"drain", "finished"} => Consumers[f] \subseteq pending
      /\ \A k \in KeysOf[f] :
        /\ ~(k = "grafana" /\ "grafana" \in pending) => env[k] = service[k]
        /\ k # "admin" /\ ~(pc = "secrets" /\ f \in {"postgres", "minio_users"}) =>
              secret[k] = env[k]
        /\ \A c \in DOMAIN Holds :
              k \in Holds[c] /\ c \notin pending
                /\ (c = "serving" => drill \in {"idle", "restored"})
              => held[c][k] = env[k]

(* Where .env may differ from the service, and the Secrets from .env,      *)
(* although nothing died.                                                  *)
Open(k) ==
    \/ k = "tenants" /\ pc = "recipe"
    \/ k = "superuser" /\ pc \in {"recipe", "superuser"}
    \/ k \in MinioUsers /\ pc = "reissue" /\ k \notin users
    \/ k = "root" /\ pc \in {"root_secret", "restart"}
    \/ /\ k = "grafana" /\ ~AtRest
       /\ \/ pc = "grafana_secret"
          \/ pc = "checkpoint" /\ Family = "grafana"
          \/ "grafana" \in pending
    \/ k = "admin" /\ pc = "admin_env"
Unmade(k) ==
    \/ /\ k = "tenants"
       /\ \/ pc \in {"recipe", "superuser", "secrets"}
          \/ pc = "checkpoint" /\ Family = "postgres"
    \/ k = "root" /\ pc = "root_secret"
    \/ k = "grafana" /\ pc = "grafana_secret"

Unkilled ==
    kills = 0 =>
        /\ \A k \in Keys : env[k] = service[k] \/ Open(k)
        /\ \A k \in {"tenants", "root", "grafana"} : secret[k] = env[k] \/ Unmade(k)
        /\ pc # "killed" /\ drill # "killed"
        /\ drill \notin {"delete", "undo", "fallback"} => held["serving"]["serving"] # Wrong
        /\ drill \in {"inject", "delete", "undo", "fallback"} => captured # Wrong

CInv == Credible /\ AtFamily /\ Generations /\ Midway /\ Done /\ Unkilled

-----------------------------------------------------------------------------
(* The tables of the code, entry by entry.                                 *)

LEMMA FamiliesAre ==
    /\ Families = {"postgres", "minio_users", "minio_root", "grafana", "metabase_admin"}
    /\ KeysOf["postgres"] = {"tenants", "superuser"}
    /\ KeysOf["minio_users"] = {"mlflow", "flyte", "serving"}
    /\ KeysOf["minio_root"] = {"root"}
    /\ KeysOf["grafana"] = {"grafana"}
    /\ KeysOf["metabase_admin"] = {"admin"}
    /\ FamilyOrder["postgres"] = 1 /\ FamilyOrder["minio_users"] = 2
    /\ FamilyOrder["minio_root"] = 3 /\ FamilyOrder["grafana"] = 4
    /\ FamilyOrder["metabase_admin"] = 5
  BY DEF Families, KeysOf, FamilyOrder, MinioUsers

LEMMA KeysAre ==
    /\ Keys = {"tenants", "superuser", "root", "grafana", "admin", "mlflow", "flyte", "serving"}
    /\ MinioUsers = {"mlflow", "flyte", "serving"}
  BY DEF Keys, MinioUsers

LEMMA LabelsAre ==
    /\ LabelsOf["postgres"] = {"postgres", "recipe", "superuser"}
    /\ LabelsOf["minio_users"] = {"minio_users", "reissue"}
    /\ LabelsOf["minio_root"] = {"minio_root", "root_secret", "restart"}
    /\ LabelsOf["grafana"] = {"grafana", "grafana_secret"}
    /\ LabelsOf["metabase_admin"] = {"metabase_admin", "admin_env"}
  BY DEF LabelsOf

LEMMA ConsumersAre ==
    /\ DOMAIN Holds = {"mlflow", "metabase", "flyte", "boards", "serving"}
    /\ Holds["mlflow"] = {"tenants", "mlflow"} /\ Holds["metabase"] = {"tenants"}
    /\ Holds["flyte"] = {"tenants", "flyte"} /\ Holds["boards"] = {"tenants"}
    /\ Holds["serving"] = {"serving"}
    /\ Consumers["postgres"] = {"mlflow", "metabase", "flyte", "boards"}
    /\ Consumers["minio_users"] = {"mlflow", "flyte", "serving"}
    /\ Consumers["minio_root"] = {} /\ Consumers["grafana"] = {"grafana"}
    /\ Consumers["metabase_admin"] = {}
    /\ DOMAIN DrainOrder = {"mlflow", "metabase", "grafana", "flyte", "boards", "serving"}
    /\ DrainOrder["mlflow"] = 1 /\ DrainOrder["metabase"] = 2 /\ DrainOrder["grafana"] = 3
    /\ DrainOrder["flyte"] = 4 /\ DrainOrder["boards"] = 5 /\ DrainOrder["serving"] = 6
  BY DEF Holds, Consumers, DrainOrder

(* The family a rotation is at is the first of those that are left.        *)
LEMMA FirstFamily ==
    ASSUME NEW G \in SUBSET Families, G # {}
    PROVE  /\ FirstOf(G, FamilyOrder) \in G
           /\ \A y \in G : FamilyOrder[FirstOf(G, FamilyOrder)] <= FamilyOrder[y]
  <1>1. \E x \in G : \A y \in G : FamilyOrder[x] <= FamilyOrder[y]
     <2>. USE FamiliesAre
     <2>1. CASE "postgres" \in G
        BY <2>1
     <2>2. CASE "postgres" \notin G /\ "minio_users" \in G
        BY <2>2
     <2>3. CASE "postgres" \notin G /\ "minio_users" \notin G /\ "minio_root" \in G
        BY <2>3
     <2>4. CASE /\ "postgres" \notin G /\ "minio_users" \notin G /\ "minio_root" \notin G
                /\ "grafana" \in G
        BY <2>4
     <2>5. CASE /\ "postgres" \notin G /\ "minio_users" \notin G /\ "minio_root" \notin G
                /\ "grafana" \notin G
        <3>1. PICK x \in G : TRUE
           OBVIOUS
        <3>2. \A y \in G : y = x
           BY <2>5
        <3>. QED
           BY <3>2
     <2>. QED
        BY <2>1, <2>2, <2>3, <2>4, <2>5
  <1>. QED
     BY <1>1 DEF FirstOf

LEMMA CredentialsInit == ASSUME CredentialsAssumption, Init PROVE CInv
  <1>. USE FamiliesAre, KeysAre, LabelsAre, ConsumersAre
  <1>0. MaxRuns \in Nat
     BY DEF CredentialsAssumption
  <1>1. {0, 1} \subseteq Gens
     BY <1>0 DEF Gens
  <1>2. \A k \in Keys : env[k] = 1 /\ secret[k] = 1 /\ service[k] = 1 /\ made[k] = 1 /\ before[k] = 1
     BY DEF Init
  <1>3. {env, secret, service, made, spare, before} \subseteq Stored
     BY <1>1 DEF Init, NoCopy, None, Stored
  <1>4. Credible
     BY <1>0, <1>1, <1>3 DEF Init, Credible, RotationLabels, DrillLabels, Nothing, Wrong
  <1>5. AtFamily /\ Midway /\ Done
     BY DEF Init, AtFamily, Midway, Done, DoneFamilies
  <1>6. Generations
     BY <1>2 DEF Init, Generations, AtRest
  <1>7. Unkilled
     BY <1>2 DEF Init, Unkilled, Wrong
  <1>. QED
     BY <1>4, <1>5, <1>6, <1>7 DEF CInv

-----------------------------------------------------------------------------
(* The steps that leave the stores alone.                                  *)

LEMMA StartKeeps ==
    ASSUME CredentialsAssumption, CInv, NEW F \in Choices, Start(F)
    PROVE  CInv'
  <1>. USE DEF CInv
  <1>1. /\ AtRest /\ runs < MaxRuns /\ runs' = runs + 1
        /\ before' = env /\ asked' = F /\ left' = F /\ users' = {} /\ pending' = {}
        /\ pc' = "family"
        /\ UNCHANGED <<env, secret, service, held, spare, made, predictor, record, drill,
                       captured, kills, drills, evictions>>
     BY DEF Start, Goto, stores, scenario
  <1>2. F \subseteq Families /\ MaxRuns \in Nat
     BY DEF CredentialsAssumption
  <1>3. Credible'
     BY <1>1, <1>2 DEF Credible, RotationLabels
  <1>4. AtFamily'
     BY <1>1, LabelsAre, FamiliesAre DEF AtFamily
  <1>5. Generations'
     <2>1. ASSUME NEW f \in Families, NEW k \in KeysOf[f]
           PROVE  /\ 1 <= env[k] /\ 1 <= made[k] /\ made[k] <= runs + 1
                  /\ made[k] \in Nat /\ runs \in Nat
        <3>1. made \in Stored /\ runs \in Nat /\ k \in Keys
           BY <1>2, FamiliesAre, KeysAre DEF Credible
        <3>. QED
           BY <1>2, <3>1 DEF Generations, Stored, Gens
     <2>. QED
        BY <1>1, <1>2, <2>1 DEF Generations
  <1>6. Midway' /\ Done'
     BY <1>1 DEF Midway, Done, DoneFamilies
  <1>7. Unkilled'
     BY <1>1 DEF Unkilled, Open, Unmade, AtRest
  <1>. QED
     BY <1>3, <1>4, <1>5, <1>6, <1>7

LEMMA NextFamilyKeeps ==
    ASSUME CredentialsAssumption, CInv, NextFamily
    PROVE  CInv'
  <1>. USE DEF CInv
  <1>1. /\ pc = "family" /\ pc' = IF left = {} THEN "drain" ELSE Family
        /\ UNCHANGED <<env, secret, service, held, spare, made, predictor, before, left,
                       asked, users, pending, record, drill, captured, counters>>
     BY DEF NextFamily, Goto, stores, scenario
  <1>2. left # {} => Family \in left
     BY FirstFamily DEF Credible, Family
  <1>3. left \subseteq Families
     BY DEF Credible
  <1>4. Credible'
     BY <1>1, <1>2, <1>3 DEF Credible, RotationLabels, counters
  <1>5. AtFamily'
     BY <1>1, <1>2, <1>3, LabelsAre, FamiliesAre DEF AtFamily, Family
  <1>6. Generations'
     BY <1>1, <1>2, <1>3, FamiliesAre DEF Generations, Untouched, AtRest, counters, Family
  <1>7. Midway'
     BY <1>1, <1>2, <1>3, FamiliesAre DEF Midway
  <1>8. Done'
     BY <1>1, <1>2, <1>3, FamiliesAre DEF Done, DoneFamilies
  <1>9. Unkilled'
     BY <1>1, <1>2, <1>3, FamiliesAre DEF Unkilled, Open, Unmade, AtRest, counters
  <1>. QED
     BY <1>4, <1>5, <1>6, <1>7, <1>8, <1>9

LEMMA KillRotationKeeps ==
    ASSUME CredentialsAssumption, CInv, KillRotation
    PROVE  CInv'
  <1>. USE DEF CInv
  <1>1. /\ ~AtRest /\ pc' = "killed" /\ kills' = kills + 1
        /\ UNCHANGED <<env, secret, service, held, spare, made, predictor, before, left,
                       asked, users, pending, record, drill, captured, runs, drills, evictions>>
     BY DEF KillRotation, Goto, stores, scenario
  <1>2. kills \in Nat
     BY DEF Credible
  <1>3. Credible'
     BY <1>1, <1>2 DEF Credible, RotationLabels
  <1>4. AtFamily'
     BY <1>1, LabelsAre, FamiliesAre DEF AtFamily
  <1>5. Generations'
     BY <1>1 DEF Generations, AtRest
  <1>6. Midway' /\ Done'
     BY <1>1 DEF Midway, Done, DoneFamilies
  <1>7. Unkilled'
     BY <1>1, <1>2 DEF Unkilled
  <1>. QED
     BY <1>3, <1>4, <1>5, <1>6, <1>7

LEMMA FinishKeeps ==
    ASSUME CredentialsAssumption, CInv, Finish
    PROVE  CInv'
  <1>. USE DEF CInv
  <1>1. /\ pc = "drain" /\ pending = {} /\ pc' = "finished"
        /\ record' = [record EXCEPT !.finished = TRUE]
        /\ UNCHANGED <<env, secret, service, held, spare, made, predictor, before, left,
                       asked, users, pending, drill, captured, counters>>
     BY DEF Finish, Goto, stores, scenario
  <1>2. record' \in [families : SUBSET Families, finished : BOOLEAN, refused : BOOLEAN]
     BY <1>1 DEF Credible
  <1>3. Credible'
     BY <1>1, <1>2 DEF Credible, RotationLabels, counters
  <1>4. AtFamily'
     BY <1>1, LabelsAre, FamiliesAre DEF AtFamily
  <1>5. Generations'
     BY <1>1 DEF Generations, AtRest, counters
  <1>6. Midway'
     BY <1>1 DEF Midway
  <1>7. Done'
     BY <1>1 DEF Done, DoneFamilies
  <1>8. Unkilled'
     BY <1>1 DEF Unkilled, Open, Unmade, AtRest, counters
  <1>. QED
     BY <1>3, <1>4, <1>5, <1>6, <1>7, <1>8

(* The operator's copy aside, and what the record says.                    *)
LEMMA AsideKeeps ==
    ASSUME CInv,
           UNCHANGED <<env, secret, service, held, made, predictor, pc, before, left, asked,
                       users, pending, drill, captured, counters>>,
           spare' \in Stored,
           record' \in [families : SUBSET Families, finished : BOOLEAN, refused : BOOLEAN]
    PROVE  CInv'
  <1>. USE DEF CInv, counters
  <1>1. Credible'
     BY DEF Credible
  <1>2. AtFamily'
     BY DEF AtFamily, Family
  <1>3. Generations'
     BY DEF Generations, Untouched, AtRest, Family
  <1>4. Midway' /\ Done'
     BY DEF Midway, Done, DoneFamilies, Family
  <1>5. Unkilled'
     BY DEF Unkilled, Open, Unmade, AtRest, Family
  <1>. QED
     BY <1>1, <1>2, <1>3, <1>4, <1>5

LEMMA OperatorKeeps ==
    ASSUME CredentialsAssumption, CInv, CopyAside \/ VerifyOldRefused \/ DestroyPreRotation
    PROVE  CInv'
  <1>1. /\ record \in [families : SUBSET Families, finished : BOOLEAN, refused : BOOLEAN]
        /\ env \in Stored /\ spare \in Stored
     BY DEF CInv, Credible
  <1>2. CASE CopyAside
     BY <1>1, <1>2, AsideKeeps DEF CopyAside, rotation, scenario
  <1>3. CASE VerifyOldRefused
     <2>1. record' \in [families : SUBSET Families, finished : BOOLEAN, refused : BOOLEAN]
        <3>. DEFINE said == /\ spare["root"] # env["root"] /\ Dead("root")
                            /\ \A k \in {"serving", "tenants"} : spare[k] # env[k] => Dead(k)
                            /\ env["tenants"] = service["tenants"]
        <3>1. said \in BOOLEAN
           OBVIOUS
        <3>2. record' = [record EXCEPT !.refused = said]
           BY <1>3 DEF VerifyOldRefused
        <3>. HIDE DEF said
        <3>. QED
           BY <1>1, <3>1, <3>2
     <2>. QED
        BY <1>1, <1>3, <2>1, AsideKeeps DEF VerifyOldRefused, stores, scenario
  <1>4. CASE DestroyPreRotation
     <2>1. MaxRuns \in Nat
        BY DEF CredentialsAssumption
     <2>2. NoCopy \in Stored
        BY <2>1 DEF NoCopy, None, Stored, Gens
     <2>. QED
        BY <1>1, <1>4, <2>2, AsideKeeps DEF DestroyPreRotation, rotation, scenario
  <1>. QED
     BY <1>2, <1>3, <1>4

-----------------------------------------------------------------------------
(* The steps of a family.                                                  *)

LEMMA Values ==
    ASSUME CredentialsAssumption, CInv
    PROVE  /\ MaxRuns \in Nat /\ runs \in Nat /\ runs <= MaxRuns
           /\ env \in Stored /\ secret \in Stored /\ service \in Stored /\ made \in Stored
           /\ \A k \in Keys : 1 <= env[k] /\ 1 <= made[k] /\ made[k] <= runs + 1
  <1>1. /\ MaxRuns \in Nat /\ runs \in Nat /\ runs <= MaxRuns
        /\ env \in Stored /\ secret \in Stored /\ service \in Stored /\ made \in Stored
     BY DEF CredentialsAssumption, CInv, Credible
  <1>2. \A k \in Keys : \E f \in Families : k \in KeysOf[f]
     BY FamiliesAre, KeysAre
  <1>. QED
     BY <1>1, <1>2 DEF CInv, Generations

(* New values for some keys, none of which was generated by this rotation. *)
LEMMA Generated ==
    ASSUME CredentialsAssumption, CInv, NEW K \in SUBSET Keys, Generate(K),
           \A k \in K : made[k] <= runs
    PROVE  /\ made' \in Stored
           /\ \A k \in Keys : /\ k \in K => made'[k] = made[k] + 1
                              /\ k \notin K => made'[k] = made[k]
                              /\ 1 <= made'[k] /\ made'[k] <= runs + 1
  <1>1. \A k \in Keys : made[k] \in Nat /\ 1 <= made[k] /\ made[k] <= runs + 1
     BY Values DEF Stored, Gens
  <1>2. \A k \in Keys : /\ k \in K => made'[k] = made[k] + 1
                        /\ k \notin K => made'[k] = made[k]
     BY DEF Generate
  <1>3. \A k \in Keys : made'[k] \in Nat /\ 1 <= made'[k] /\ made'[k] <= runs + 1
     BY <1>1, <1>2, Values
  <1>4. \A k \in Keys : made'[k] \in Gens
     BY <1>3, Values DEF Gens
  <1>5. made' = [k \in Keys |-> IF k \in K THEN made[k] + 1 ELSE made[k]]
     BY DEF Generate
  <1>6. made' \in Stored
     BY <1>4, <1>5 DEF Stored
  <1>. QED
     BY <1>2, <1>3, <1>6

LEMMA Written ==
    ASSUME NEW K \in SUBSET Keys, WriteEnv(K), env \in Stored, made' \in Stored
    PROVE  /\ env' \in Stored
           /\ \A k \in Keys : /\ k \in K => env'[k] = made'[k]
                              /\ k \notin K => env'[k] = env[k]
  BY DEF WriteEnv, Stored

LEMMA Accepted ==
    ASSUME NEW K \in SUBSET Keys, NEW values \in Stored, Accept(K, values), service \in Stored
    PROVE  /\ service' \in Stored
           /\ \A k \in Keys : /\ k \in K => service'[k] = values[k]
                              /\ k \notin K => service'[k] = service[k]
  BY DEF Accept, Stored

(* Where a rotation is, and which of its keys it has not come to.          *)
LEMMA Place ==
    ASSUME CInv, NEW f \in Families, pc \in LabelsOf[f]
    PROVE  f = Family /\ f \in left /\ f \in asked /\ left \subseteq Families /\ ~AtRest
  BY LabelsAre, FamiliesAre DEF CInv, AtFamily, Credible, AtRest

(* Inside a family, a step that leaves the keys of the others alone leaves *)
(* what is done as it is.                                                  *)
LEMMA DoneKept ==
    ASSUME CInv, NEW f \in Families, pc \in LabelsOf[f],
           pc' \in LabelsOf[f] \cup {"checkpoint", "refused"},
           UNCHANGED <<held, left, asked, pending, drill>>,
           \A k \in Keys \ KeysOf[f] :
              env'[k] = env[k] /\ service'[k] = service[k] /\ secret'[k] \in {secret[k], env[k]}
    PROVE  Done'
  <1>1. f \in left /\ ~AtRest /\ pc \notin {"secrets", "drain"}
     BY Place, LabelsAre, FamiliesAre
  <1>2. CASE pc' = "refused"
     BY <1>2 DEF Done, DoneFamilies
  <1>3. CASE pc' # "refused"
     <2>1. pc' \notin {"idle", "refused", "killed", "finished", "drain", "secrets"}
        BY <1>3, LabelsAre, FamiliesAre
     <2>2. DoneFamilies' = asked \ left /\ DoneFamilies = asked \ left
        BY <1>1, <2>1 DEF DoneFamilies, AtRest
     <2>3. SUFFICES ASSUME NEW g \in asked \ left
                    PROVE  /\ Consumers[g] \subseteq pending
                           /\ \A k \in KeysOf[g] :
                                /\ ~(k = "grafana" /\ "grafana" \in pending) =>
                                      env'[k] = service'[k]
                                /\ k # "admin" => secret'[k] = env'[k]
                                /\ \A c \in DOMAIN Holds :
                                     k \in Holds[c] /\ c \notin pending
                                       /\ (c = "serving" => drill \in {"idle", "restored"})
                                     => held[c][k] = env'[k]
        BY <2>1, <2>2 DEF Done
     <2>4. g \in DoneFamilies /\ g \in Families /\ g # f
        BY <1>1, <2>2 DEF CInv, Credible
     <2>5. \A k \in KeysOf[g] : k \in Keys \ KeysOf[f]
        BY <2>4, FamiliesAre, KeysAre
     <2>6. Consumers[g] \subseteq pending
        BY <1>1, <2>4 DEF CInv, Done, AtRest
     <2>7. ASSUME NEW k \in KeysOf[g]
           PROVE  /\ ~(k = "grafana" /\ "grafana" \in pending) => env[k] = service[k]
                  /\ k # "admin" => secret[k] = env[k]
                  /\ \A c \in DOMAIN Holds :
                       k \in Holds[c] /\ c \notin pending
                         /\ (c = "serving" => drill \in {"idle", "restored"})
                       => held[c][k] = env[k]
        BY <1>1, <2>4 DEF CInv, Done
     <2>. QED
        BY <2>5, <2>6, <2>7
  <1>. QED
     BY <1>2, <1>3

LEMMA PostgresEnvKeeps ==
    ASSUME CredentialsAssumption, CInv, PostgresEnv
    PROVE  CInv'
  <1>. USE DEF CInv
  <1>. DEFINE K == {"tenants", "superuser"}
  <1>1. /\ pc = "postgres" /\ pc' = "recipe" /\ Generate(K) /\ WriteEnv(K)
        /\ UNCHANGED <<secret, service, held, spare, predictor, before, left,
                       asked, users, pending, record, drill, captured, counters>>
     BY FamiliesAre DEF PostgresEnv, Goto, Local, scenario
  <1>2. "postgres" = Family /\ "postgres" \in left /\ "postgres" \in asked /\ ~AtRest
     BY <1>1, Place, LabelsAre, FamiliesAre
  <1>3. K \in SUBSET Keys /\ \A k \in K : made[k] <= runs
     BY <1>1, <1>2, FamiliesAre, KeysAre DEF Generations, Untouched
  <1>. HIDE DEF K
  <1>4. /\ made' \in Stored
        /\ \A k \in Keys : /\ k \in K => made'[k] = made[k] + 1
                           /\ k \notin K => made'[k] = made[k]
                           /\ 1 <= made'[k] /\ made'[k] <= runs + 1
     BY <1>1, <1>3, Generated
  <1>5. /\ env' \in Stored
        /\ \A k \in Keys : /\ k \in K => env'[k] = made'[k]
                           /\ k \notin K => env'[k] = env[k]
     BY <1>1, <1>3, <1>4, Written, Values
  <1>6. Family' = Family
     BY <1>1 DEF Family
  <1>. USE DEF K, counters
  <1>7. Credible'
     BY <1>1, <1>4, <1>5 DEF Credible, RotationLabels
  <1>8. AtFamily'
     BY <1>1, <1>2, <1>6, LabelsAre, FamiliesAre DEF AtFamily
  <1>9. Generations'
     BY <1>1, <1>2, <1>4, <1>5, <1>6, Values, FamiliesAre, KeysAre
     DEF Generations, Untouched, AtRest
  <1>10. Midway'
     BY <1>1, <1>5, KeysAre DEF Midway
  <1>11. Done'
     BY <1>1, <1>5, FamiliesAre, LabelsAre, DoneKept
  <1>12. Unkilled'
     BY <1>1, <1>5, <1>6, KeysAre DEF Unkilled, Open, Unmade, AtRest
  <1>. QED
     BY <1>7, <1>8, <1>9, <1>10, <1>11, <1>12

LEMMA PostgresRecipeKeeps ==
    ASSUME CredentialsAssumption, CInv, PostgresRecipe
    PROVE  CInv'
  <1>. USE DEF CInv
  <1>. DEFINE K == {"tenants"}
  <1>1. /\ pc = "recipe" /\ pc' = "superuser" /\ Accept(K, env)
        /\ UNCHANGED <<env, secret, held, spare, made, predictor, before, left,
                       asked, users, pending, record, drill, captured, counters>>
     BY DEF PostgresRecipe, Goto, Local, scenario
  <1>2. "postgres" = Family /\ "postgres" \in left /\ "postgres" \in asked /\ ~AtRest
     BY <1>1, Place, LabelsAre, FamiliesAre
  <1>3. K \in SUBSET Keys
     BY KeysAre
  <1>. HIDE DEF K
  <1>5. /\ service' \in Stored
        /\ \A k \in Keys : /\ k \in K => service'[k] = env[k]
                           /\ k \notin K => service'[k] = service[k]
     BY <1>1, <1>3, Accepted, Values
  <1>6. Family' = Family
     BY <1>1 DEF Family
  <1>. USE DEF K, counters
  <1>7. Credible'
     BY <1>1, <1>5 DEF Credible, RotationLabels
  <1>8. AtFamily'
     BY <1>1, <1>2, <1>6, LabelsAre, FamiliesAre DEF AtFamily
  <1>9. Generations'
     BY <1>1, <1>2, <1>6, FamiliesAre DEF Generations, Untouched, AtRest
  <1>10. Midway'
     BY <1>1, <1>5, KeysAre DEF Midway
  <1>11. Done'
     BY <1>1, <1>5, FamiliesAre, LabelsAre, DoneKept
  <1>12. Unkilled'
     BY <1>1, <1>5, <1>6, KeysAre DEF Unkilled, Open, Unmade, AtRest
  <1>. QED
     BY <1>7, <1>8, <1>9, <1>10, <1>11, <1>12

LEMMA PostgresSuperuserKeeps ==
    ASSUME CredentialsAssumption, CInv, PostgresSuperuser
    PROVE  CInv'
  <1>. USE DEF CInv
  <1>. DEFINE K == {"superuser"}
  <1>1. /\ pc = "superuser" /\ pc' = "checkpoint" /\ Accept(K, made)
        /\ UNCHANGED <<env, secret, held, spare, made, predictor, before, left,
                       asked, users, pending, record, drill, captured, counters>>
     BY DEF PostgresSuperuser, Goto, Local, scenario
  <1>2. "postgres" = Family /\ "postgres" \in left /\ "postgres" \in asked /\ ~AtRest
     BY <1>1, Place, LabelsAre, FamiliesAre
  <1>3. K \in SUBSET Keys
     BY KeysAre
  <1>. HIDE DEF K
  <1>5. /\ service' \in Stored
        /\ \A k \in Keys : /\ k \in K => service'[k] = made[k]
                           /\ k \notin K => service'[k] = service[k]
     BY <1>1, <1>3, Accepted, Values
  <1>6. Family' = Family
     BY <1>1 DEF Family
  <1>. USE DEF K, counters
  <1>7. Credible'
     BY <1>1, <1>5 DEF Credible, RotationLabels
  <1>8. AtFamily'
     BY <1>1, <1>2, <1>6, LabelsAre, FamiliesAre DEF AtFamily
  <1>9. Generations'
     BY <1>1, <1>2, <1>6, FamiliesAre DEF Generations, Untouched, AtRest
  <1>10. Midway'
     BY <1>1, <1>2, <1>5, <1>6, KeysAre, FamiliesAre DEF Midway
  <1>11. Done'
     BY <1>1, <1>5, FamiliesAre, LabelsAre, DoneKept
  <1>12. Unkilled'
     BY <1>1, <1>2, <1>5, <1>6, KeysAre DEF Unkilled, Open, Unmade, AtRest, Midway
  <1>. QED
     BY <1>7, <1>8, <1>9, <1>10, <1>11, <1>12

(* A rotation that is refused: nobody was killed before only if whatever   *)
(* it leaves behind is in order.                                           *)
LEMMA RefusedKeeps ==
    ASSUME CInv, ~AtRest, pc' = "refused",
           UNCHANGED <<env, made, spare, before, left, asked, record, drill, captured, counters>>,
           secret' \in Stored, service' \in Stored, predictor' \in {"up", "down"},
           held' = [e \in DOMAIN Holds |-> held'[e]], \A c \in DOMAIN Holds : held'[c] \in [Holds[c] -> Gens],
           users' \subseteq MinioUsers, pending' \subseteq DOMAIN DrainOrder,
           Unkilled'
    PROVE  CInv'
  <1>. USE DEF CInv, counters
  <1>1. Credible'
     BY DEF Credible, RotationLabels
  <1>2. AtFamily'
     BY LabelsAre, FamiliesAre DEF AtFamily
  <1>3. Generations'
     BY DEF Generations, AtRest
  <1>4. Midway' /\ Done'
     BY DEF Midway, Done, DoneFamilies
  <1>. QED
     BY <1>1, <1>2, <1>3, <1>4

(* Only a dead predecessor stops a rotation before the drain.              *)
LEMMA LiveUnlessKilled ==
    ASSUME CredentialsAssumption, CInv, kills = 0
    PROVE  /\ pc \in {"minio_users", "reissue"} => RootIsLive
           /\ pc = "metabase_admin" => Live("admin")
  <1>1. CASE pc \in {"minio_users", "reissue"}
     <2>1. "minio_users" = Family /\ "minio_users" \in left /\ ~AtRest
        BY <1>1, Place, LabelsAre, FamiliesAre
     <2>2. "minio_root" \notin asked \/ "minio_root" \in left
        BY <2>1, FamiliesAre DEF CInv, AtFamily
     <2>3. Untouched("minio_root", "root")
        BY <2>1, <2>2 DEF Untouched
     <2>4. before["root"] = env["root"]
        BY <2>1, <2>3, FamiliesAre DEF CInv, Generations
     <2>5. env["root"] = service["root"]
        BY <1>1, KeysAre DEF CInv, Unkilled, Open
     <2>. QED
        BY <1>1, <2>4, <2>5 DEF RootIsLive, Live
  <1>2. CASE pc = "metabase_admin"
     <2>1. "metabase_admin" = Family /\ "metabase_admin" \in left /\ ~AtRest
        BY <1>2, Place, LabelsAre, FamiliesAre
     <2>2. Untouched("metabase_admin", "admin")
        BY <1>2, <2>1 DEF Untouched
     <2>3. before["admin"] = env["admin"]
        BY <2>1, <2>2, FamiliesAre DEF CInv, Generations
     <2>4. env["admin"] = service["admin"]
        BY <1>2, KeysAre DEF CInv, Unkilled, Open
     <2>. QED
        BY <1>2, <2>3, <2>4 DEF Live
  <1>. QED
     BY <1>1, <1>2

(* The same, as a step to "refused" that changes no store.                 *)
LEMMA RefusedAsDead ==
    ASSUME CInv, ~AtRest, kills # 0, pc' = "refused", users' \subseteq MinioUsers,
           UNCHANGED <<stores, predictor, before, left, asked, pending, record, scenario,
                       counters>>
    PROVE  CInv'
  <1>1. Unkilled'
     BY DEF Unkilled, counters
  <1>. QED
     BY <1>1, RefusedKeeps DEF CInv, Credible, stores, scenario

LEMMA ListUsersKeeps ==
    ASSUME CredentialsAssumption, CInv, ListUsers
    PROVE  CInv'
  <1>. USE DEF CInv
  <1>1. /\ pc = "minio_users" /\ users' = MinioUsers
        /\ UNCHANGED <<stores, predictor, before, left, asked, pending, record, scenario, counters>>
     BY DEF ListUsers, Local
  <1>2. "minio_users" = Family /\ "minio_users" \in left /\ "minio_users" \in asked /\ ~AtRest
     BY <1>1, Place, LabelsAre, FamiliesAre
  <1>3. CASE RootIsLive
     <2>1. pc' = "reissue"
        BY <1>3 DEF ListUsers, Goto
     <2>2. Family' = Family
        BY <1>1 DEF Family
     <2>. USE DEF counters, stores, scenario
     <2>3. Credible'
        BY <1>1, <2>1 DEF Credible, RotationLabels
     <2>4. AtFamily'
        BY <1>1, <1>2, <2>1, <2>2, LabelsAre, FamiliesAre DEF AtFamily
     <2>5. Generations'
        BY <1>1, <1>2, <2>1, <2>2, FamiliesAre DEF Generations, Untouched, AtRest
     <2>6. Midway'
        BY <1>1, <2>1 DEF Midway
     <2>7. Done'
        BY <1>1, <2>1, FamiliesAre, LabelsAre, DoneKept
     <2>8. Unkilled'
        BY <1>1, <2>1, <2>2, KeysAre DEF Unkilled, Open, Unmade, AtRest
     <2>. QED
        BY <2>3, <2>4, <2>5, <2>6, <2>7, <2>8
  <1>4. CASE ~RootIsLive
     <2>1. pc' = "refused" /\ kills # 0
        BY <1>1, <1>4, LiveUnlessKilled DEF ListUsers, Goto
     <2>. QED
        BY <1>1, <1>2, <2>1, RefusedAsDead
  <1>. QED
     BY <1>3, <1>4

LEMMA ReissueKeeps ==
    ASSUME CredentialsAssumption, CInv, NEW u \in MinioUsers, Reissue(u)
    PROVE  CInv'
  <1>. USE DEF CInv
  <1>1. /\ pc = "reissue" /\ u \in users
        /\ UNCHANGED <<env, secret, held, spare, predictor, before, left, asked, pending,
                       record, scenario, counters>>
     BY DEF Reissue, Local
  <1>2. "minio_users" = Family /\ "minio_users" \in left /\ "minio_users" \in asked /\ ~AtRest
     BY <1>1, Place, LabelsAre, FamiliesAre
  <1>3. CASE RootIsLive
     <2>. DEFINE K == {u}
     <2>1. /\ pc' = "reissue" /\ Generate(K) /\ Accept(K, made') /\ users' = users \ {u}
        BY <1>1, <1>3 DEF Reissue
     <2>2. K \in SUBSET Keys /\ \A k \in K : made[k] <= runs
        BY <1>1, <1>2, FamiliesAre, KeysAre DEF Generations, Untouched
     <2>. HIDE DEF K
     <2>3. /\ made' \in Stored
           /\ \A k \in Keys : /\ k \in K => made'[k] = made[k] + 1
                              /\ k \notin K => made'[k] = made[k]
                              /\ 1 <= made'[k] /\ made'[k] <= runs + 1
        BY <2>1, <2>2, Generated
     <2>4. /\ service' \in Stored
           /\ \A k \in Keys : /\ k \in K => service'[k] = made'[k]
                              /\ k \notin K => service'[k] = service[k]
        BY <2>1, <2>2, <2>3, Accepted, Values
     <2>5. Family' = Family
        BY <1>1 DEF Family
     <2>. USE DEF K, counters, scenario
     <2>6. Credible'
        BY <1>1, <2>1, <2>3, <2>4 DEF Credible, RotationLabels
     <2>7. AtFamily'
        BY <1>1, <1>2, <2>1, <2>5, LabelsAre, FamiliesAre DEF AtFamily
     <2>8. Generations'
        BY <1>1, <1>2, <2>1, <2>3, <2>5, Values, FamiliesAre, KeysAre
        DEF Generations, Untouched, AtRest
     <2>9. Midway'
        BY <1>1, <2>1, <2>3, <2>4, KeysAre DEF Midway
     <2>10. Done'
        BY <1>1, <2>1, <2>4, FamiliesAre, LabelsAre, KeysAre, DoneKept
     <2>11. Unkilled'
        BY <1>1, <2>1, <2>4, <2>5, KeysAre DEF Unkilled, Open, Unmade, AtRest
     <2>. QED
        BY <2>6, <2>7, <2>8, <2>9, <2>10, <2>11
  <1>4. CASE ~RootIsLive
     <2>1. /\ pc' = "refused" /\ kills # 0
           /\ UNCHANGED <<made, service, users>>
        BY <1>1, <1>4, LiveUnlessKilled DEF Reissue, Goto
     <2>2. users' \subseteq MinioUsers
        BY <2>1 DEF Credible
     <2>. QED
        BY <1>1, <1>2, <2>1, <2>2, RefusedAsDead DEF stores
  <1>. QED
     BY <1>3, <1>4

LEMMA UsersEnvKeeps ==
    ASSUME CredentialsAssumption, CInv, UsersEnv
    PROVE  CInv'
  <1>. USE DEF CInv
  <1>1. /\ pc = "reissue" /\ users = {} /\ pc' = "checkpoint" /\ WriteEnv(MinioUsers)
        /\ UNCHANGED <<made, secret, service, held, spare, predictor, before, left,
                       asked, users, pending, record, drill, captured, counters>>
     BY DEF UsersEnv, Goto, Local, scenario
  <1>2. "minio_users" = Family /\ "minio_users" \in left /\ "minio_users" \in asked /\ ~AtRest
     BY <1>1, Place, LabelsAre, FamiliesAre
  <1>3. MinioUsers \in SUBSET Keys
     BY KeysAre
  <1>5. /\ env' \in Stored
        /\ \A k \in Keys : /\ k \in MinioUsers => env'[k] = made[k]
                           /\ k \notin MinioUsers => env'[k] = env[k]
     BY <1>1, <1>3, Written, Values
  <1>6. Family' = Family
     BY <1>1 DEF Family
  <1>. USE DEF counters
  <1>7. Credible'
     BY <1>1, <1>5 DEF Credible, RotationLabels
  <1>8. AtFamily'
     BY <1>1, <1>2, <1>6, LabelsAre, FamiliesAre DEF AtFamily
  <1>9. Generations'
     BY <1>1, <1>2, <1>5, <1>6, Values, FamiliesAre, KeysAre
     DEF Generations, Untouched, AtRest
  <1>10. Midway'
     BY <1>1, <1>2, <1>5, <1>6, KeysAre, FamiliesAre DEF Midway
  <1>11. Done'
     BY <1>1, <1>5, FamiliesAre, LabelsAre, KeysAre, DoneKept
  <1>12. Unkilled'
     BY <1>1, <1>2, <1>5, <1>6, KeysAre DEF Unkilled, Open, Unmade, AtRest, Midway
  <1>. QED
     BY <1>7, <1>8, <1>9, <1>10, <1>11, <1>12

LEMMA GenerateEnvKeeps ==
    ASSUME CredentialsAssumption, CInv, NEW f \in {"minio_root", "grafana"}, NEW k0,
           \/ f = "minio_root" /\ k0 = "root" /\ RootEnv
           \/ f = "grafana" /\ k0 = "grafana" /\ GrafanaEnv
    PROVE  CInv'
  <1>. USE DEF CInv
  <1>. DEFINE K == {k0}
  <1>1. /\ pc = f /\ pc' = (IF f = "minio_root" THEN "root_secret" ELSE "grafana_secret")
        /\ Generate(K) /\ WriteEnv(K)
        /\ UNCHANGED <<secret, service, held, spare, predictor, before, left,
                       asked, users, pending, record, drill, captured, counters>>
     BY DEF RootEnv, GrafanaEnv, GenerateEnv, Goto, Local, scenario
  <1>2. f = Family /\ f \in left /\ f \in asked /\ ~AtRest
     BY <1>1, Place, LabelsAre, FamiliesAre
  <1>3. K \in SUBSET Keys /\ \A k \in K : made[k] <= runs
     BY <1>1, <1>2, FamiliesAre, KeysAre DEF Generations, Untouched
  <1>. HIDE DEF K
  <1>4. /\ made' \in Stored
        /\ \A k \in Keys : /\ k \in K => made'[k] = made[k] + 1
                           /\ k \notin K => made'[k] = made[k]
                           /\ 1 <= made'[k] /\ made'[k] <= runs + 1
     BY <1>1, <1>3, Generated
  <1>5. /\ env' \in Stored
        /\ \A k \in Keys : /\ k \in K => env'[k] = made'[k]
                           /\ k \notin K => env'[k] = env[k]
     BY <1>1, <1>3, <1>4, Written, Values
  <1>6. Family' = Family
     BY <1>1 DEF Family
  <1>. USE DEF K, counters
  <1>7. Credible'
     BY <1>1, <1>4, <1>5 DEF Credible, RotationLabels
  <1>8. AtFamily'
     BY <1>1, <1>2, <1>6, LabelsAre, FamiliesAre DEF AtFamily
  <1>9. Generations'
     BY <1>1, <1>2, <1>4, <1>5, <1>6, Values, FamiliesAre, KeysAre
     DEF Generations, Untouched, AtRest
  <1>10. Midway'
     BY <1>1, <1>5, KeysAre DEF Midway
  <1>11. Done'
     BY <1>1, <1>5, FamiliesAre, LabelsAre, DoneKept
  <1>12. Unkilled'
     BY <1>1, <1>5, <1>6, KeysAre DEF Unkilled, Open, Unmade, AtRest
  <1>. QED
     BY <1>7, <1>8, <1>9, <1>10, <1>11, <1>12

(* The Secrets of .env: everything but the boards' admin.                  *)
LEMMA SecretsMade ==
    ASSUME CredentialsAssumption, CInv
    PROVE  /\ SecretsOfEnv \in Stored
           /\ \A k \in Keys : k # "admin" => SecretsOfEnv[k] = env[k]
           /\ SecretsOfEnv["admin"] = secret["admin"]
  BY Values, KeysAre DEF SecretsOfEnv, Stored

LEMMA ApplySecretsKeeps ==
    ASSUME CredentialsAssumption, CInv, ApplySecrets
    PROVE  CInv'
  <1>. USE DEF CInv
  <1>1. /\ secret' = SecretsOfEnv
        /\ UNCHANGED <<env, service, held, spare, made, predictor, before, left,
                       asked, users, pending, record, drill, captured, counters>>
     BY DEF ApplySecrets, Local, scenario
  <1>2. \/ pc = "root_secret" /\ pc' = "restart"
        \/ pc = "grafana_secret" /\ pc' = "checkpoint"
        \/ pc = "secrets" /\ pc' = "family"
     BY DEF ApplySecrets, Goto
  <1>3. secret' \in Stored /\ \A k \in Keys : k # "admin" => secret'[k] = env[k]
     BY <1>1, SecretsMade
  <1>4. /\ pc = "root_secret" => "minio_root" = Family /\ "minio_root" \in left
        /\ pc = "grafana_secret" => "grafana" = Family /\ "grafana" \in left
        /\ ~AtRest
     BY <1>2, Place, LabelsAre, FamiliesAre DEF AtRest
  <1>6. Family' = Family
     BY <1>1 DEF Family
  <1>. USE DEF counters
  <1>7. Credible'
     BY <1>1, <1>2, <1>3 DEF Credible, RotationLabels
  <1>8. AtFamily'
     BY <1>1, <1>2, <1>4, <1>6, LabelsAre, FamiliesAre DEF AtFamily
  <1>9. Generations'
     BY <1>1, <1>2, <1>4, <1>6, FamiliesAre DEF Generations, Untouched, AtRest
  <1>10. Midway'
     BY <1>1, <1>2, <1>3, <1>4, <1>6, KeysAre, FamiliesAre DEF Midway
  <1>11. Done'
     <2>1. CASE pc = "root_secret"
        <3>1. \A k \in Keys \ KeysOf["minio_root"] : secret'[k] \in {secret[k], env[k]}
           BY <1>1, SecretsMade
        <3>. QED
           BY <1>1, <1>2, <2>1, <3>1, FamiliesAre, LabelsAre, DoneKept
     <2>2. CASE pc = "grafana_secret"
        <3>1. \A k \in Keys \ KeysOf["grafana"] : secret'[k] \in {secret[k], env[k]}
           BY <1>1, SecretsMade
        <3>. QED
           BY <1>1, <1>2, <2>2, <3>1, FamiliesAre, LabelsAre, DoneKept
     <2>3. CASE pc = "secrets"
        <3>1. DoneFamilies' = DoneFamilies /\ pc' = "family"
           BY <1>1, <1>2, <2>3 DEF DoneFamilies
        <3>2. \A f \in DoneFamilies : \A k \in KeysOf[f] : k # "admin" => secret'[k] = env[k]
           <4>1. \A f \in Families : \A k \in KeysOf[f] : k \in Keys
              BY FamiliesAre, KeysAre
           <4>2. DoneFamilies \subseteq Families
              BY DEF DoneFamilies, Credible
           <4>. QED
              BY <1>3, <4>1, <4>2
        <3>. QED
           BY <1>1, <2>3, <3>1, <3>2 DEF Done
     <2>. QED
        BY <1>2, <2>1, <2>2, <2>3
  <1>12. Unkilled'
     <2>1. \A k \in {"tenants", "root", "grafana"} : secret'[k] = env'[k]
        BY <1>1, <1>3, KeysAre
     <2>2. \A k \in Keys : Open(k) => Open(k)'
        BY <1>1, <1>2, <1>4, <1>6 DEF Open, AtRest
     <2>. QED
        BY <1>1, <1>2, <2>1, <2>2 DEF Unkilled
  <1>. QED
     BY <1>7, <1>8, <1>9, <1>10, <1>11, <1>12

LEMMA RestartMinioKeeps ==
    ASSUME CredentialsAssumption, CInv, RestartMinio
    PROVE  CInv'
  <1>. USE DEF CInv
  <1>. DEFINE K == {"root"}
  <1>1. /\ pc = "restart" /\ Accept(K, secret)
        /\ UNCHANGED <<env, secret, held, spare, made, predictor, before, left,
                       asked, users, pending, record, drill, captured, counters>>
     BY DEF RestartMinio, Local, scenario
  <1>2. "minio_root" = Family /\ "minio_root" \in left /\ "minio_root" \in asked /\ ~AtRest
     BY <1>1, Place, LabelsAre, FamiliesAre
  <1>3. K \in SUBSET Keys
     BY KeysAre
  <1>4. pc' = "checkpoint"
     BY <1>1 DEF RestartMinio, Goto, Midway
  <1>. HIDE DEF K
  <1>5. /\ service' \in Stored
        /\ \A k \in Keys : /\ k \in K => service'[k] = secret[k]
                           /\ k \notin K => service'[k] = service[k]
     BY <1>1, <1>3, Accepted, Values
  <1>6. Family' = Family
     BY <1>1 DEF Family
  <1>. USE DEF K, counters
  <1>7. Credible'
     BY <1>1, <1>4, <1>5 DEF Credible, RotationLabels
  <1>8. AtFamily'
     BY <1>1, <1>2, <1>4, <1>6, LabelsAre, FamiliesAre DEF AtFamily
  <1>9. Generations'
     BY <1>1, <1>2, <1>4, <1>6, FamiliesAre DEF Generations, Untouched, AtRest
  <1>10. Midway'
     BY <1>1, <1>2, <1>4, <1>5, <1>6, KeysAre, FamiliesAre DEF Midway
  <1>11. Done'
     BY <1>1, <1>4, <1>5, FamiliesAre, LabelsAre, DoneKept
  <1>12. Unkilled'
     BY <1>1, <1>2, <1>4, <1>5, <1>6, KeysAre DEF Unkilled, Open, Unmade, AtRest, Midway
  <1>. QED
     BY <1>7, <1>8, <1>9, <1>10, <1>11, <1>12

LEMMA AdminPasswordKeeps ==
    ASSUME CredentialsAssumption, CInv, AdminPassword
    PROVE  CInv'
  <1>. USE DEF CInv
  <1>1. /\ pc = "metabase_admin"
        /\ UNCHANGED <<env, secret, held, spare, predictor, before, left, asked, users, pending,
                       record, scenario, counters>>
     BY DEF AdminPassword, Local
  <1>2. /\ "metabase_admin" = Family /\ "metabase_admin" \in left
        /\ "metabase_admin" \in asked /\ ~AtRest
     BY <1>1, Place, LabelsAre, FamiliesAre
  <1>3. CASE Live("admin")
     <2>. DEFINE K == {"admin"}
     <2>1. /\ pc' = "admin_env" /\ Generate(K) /\ Accept(K, made')
        BY <1>1, <1>3 DEF AdminPassword, Goto
     <2>2. K \in SUBSET Keys /\ \A k \in K : made[k] <= runs
        BY <1>1, <1>2, FamiliesAre, KeysAre DEF Generations, Untouched
     <2>. HIDE DEF K
     <2>3. /\ made' \in Stored
           /\ \A k \in Keys : /\ k \in K => made'[k] = made[k] + 1
                              /\ k \notin K => made'[k] = made[k]
                              /\ 1 <= made'[k] /\ made'[k] <= runs + 1
        BY <2>1, <2>2, Generated
     <2>4. /\ service' \in Stored
           /\ \A k \in Keys : /\ k \in K => service'[k] = made'[k]
                              /\ k \notin K => service'[k] = service[k]
        BY <2>1, <2>2, <2>3, Accepted, Values
     <2>5. Family' = Family
        BY <1>1 DEF Family
     <2>. USE DEF K, counters, scenario
     <2>6. Credible'
        BY <1>1, <2>1, <2>3, <2>4 DEF Credible, RotationLabels
     <2>7. AtFamily'
        BY <1>1, <1>2, <2>1, <2>5, LabelsAre, FamiliesAre DEF AtFamily
     <2>8. Generations'
        BY <1>1, <1>2, <2>1, <2>3, <2>5, Values, FamiliesAre, KeysAre
        DEF Generations, Untouched, AtRest
     <2>9. Midway'
        BY <1>1, <2>1, <2>3, <2>4, KeysAre DEF Midway
     <2>10. Done'
        BY <1>1, <2>1, <2>4, FamiliesAre, LabelsAre, KeysAre, DoneKept
     <2>11. Unkilled'
        BY <1>1, <2>1, <2>4, <2>5, KeysAre DEF Unkilled, Open, Unmade, AtRest
     <2>. QED
        BY <2>6, <2>7, <2>8, <2>9, <2>10, <2>11
  <1>4. CASE ~Live("admin")
     <2>1. /\ pc' = "refused" /\ kills # 0
           /\ UNCHANGED <<made, service>>
        BY <1>1, <1>4, LiveUnlessKilled DEF AdminPassword, Goto
     <2>2. users' \subseteq MinioUsers
        BY <1>1 DEF Credible
     <2>. QED
        BY <1>1, <1>2, <2>1, <2>2, RefusedAsDead DEF stores
  <1>. QED
     BY <1>3, <1>4

LEMMA AdminEnvKeeps ==
    ASSUME CredentialsAssumption, CInv, AdminEnv
    PROVE  CInv'
  <1>. USE DEF CInv
  <1>1. /\ pc = "admin_env" /\ pc' = "checkpoint" /\ WriteEnv({"admin"})
        /\ UNCHANGED <<made, secret, service, held, spare, predictor, before, left,
                       asked, users, pending, record, drill, captured, counters>>
     BY DEF AdminEnv, Goto, Local, scenario
  <1>2. /\ "metabase_admin" = Family /\ "metabase_admin" \in left
        /\ "metabase_admin" \in asked /\ ~AtRest
     BY <1>1, Place, LabelsAre, FamiliesAre
  <1>3. {"admin"} \in SUBSET Keys
     BY KeysAre
  <1>5. /\ env' \in Stored
        /\ \A k \in Keys : /\ k \in {"admin"} => env'[k] = made[k]
                           /\ k \notin {"admin"} => env'[k] = env[k]
     BY <1>1, <1>3, Written, Values
  <1>6. Family' = Family
     BY <1>1 DEF Family
  <1>. USE DEF counters
  <1>7. Credible'
     BY <1>1, <1>5 DEF Credible, RotationLabels
  <1>8. AtFamily'
     BY <1>1, <1>2, <1>6, LabelsAre, FamiliesAre DEF AtFamily
  <1>9. Generations'
     BY <1>1, <1>2, <1>5, <1>6, Values, FamiliesAre, KeysAre
     DEF Generations, Untouched, AtRest
  <1>10. Midway'
     BY <1>1, <1>2, <1>5, <1>6, KeysAre, FamiliesAre DEF Midway
  <1>11. Done'
     BY <1>1, <1>5, FamiliesAre, LabelsAre, KeysAre, DoneKept
  <1>12. Unkilled'
     BY <1>1, <1>2, <1>5, <1>6, KeysAre DEF Unkilled, Open, Unmade, AtRest, Midway
  <1>. QED
     BY <1>7, <1>8, <1>9, <1>10, <1>11, <1>12

LEMMA CheckpointKeeps ==
    ASSUME CredentialsAssumption, CInv, Checkpoint
    PROVE  CInv'
  <1>. USE DEF CInv
  <1>1. /\ pc = "checkpoint" /\ left' = left \ {Family}
        /\ pending' = pending \cup Consumers[Family]
        /\ record' = [Nothing EXCEPT !.families = asked \ left']
        /\ pc' = (IF Family \in {"postgres", "minio_users"} THEN "secrets" ELSE "family")
        /\ UNCHANGED <<env, secret, service, held, spare, made, predictor, before,
                       asked, users, drill, captured, counters>>
     BY DEF Checkpoint, Goto, stores, scenario
  <1>2. /\ Family \in left /\ left \subseteq asked /\ asked \subseteq Families /\ ~AtRest
        /\ \A g \in left : FamilyOrder[Family] <= FamilyOrder[g]
     BY <1>1, FirstFamily DEF AtFamily, Credible, Family, AtRest
  <1>. DEFINE F == Family
  <1>3. F \in left /\ F \in Families /\ \A g \in left : FamilyOrder[F] <= FamilyOrder[g]
     BY <1>2
  <1>4. /\ left' = left \ {F} /\ pending' = pending \cup Consumers[F]
        /\ pc' = (IF F \in {"postgres", "minio_users"} THEN "secrets" ELSE "family")
     BY <1>1
  <1>5. \A k \in KeysOf[F] : /\ k # "grafana" => env[k] = service[k]
                             /\ k \in {"root", "grafana"} => secret[k] = env[k]
     BY <1>1 DEF Midway
  <1>6. /\ record' \in [families : SUBSET Families, finished : BOOLEAN, refused : BOOLEAN]
        /\ Consumers[F] \subseteq DOMAIN DrainOrder
     <2>1. asked \ left' \subseteq Families
        BY <1>2
     <2>2. record' = [families |-> asked \ left', finished |-> FALSE, refused |-> FALSE]
        BY <1>1 DEF Nothing
     <2>3. record' \in [families : SUBSET Families, finished : BOOLEAN, refused : BOOLEAN]
        BY <2>1, <2>2
     <2>4. \A f \in Families : Consumers[f] \subseteq DOMAIN DrainOrder
        BY FamiliesAre, ConsumersAre
     <2>. HIDE DEF F
     <2>. QED
        BY <1>3, <2>3, <2>4
  <1>. USE DEF counters
  <1>7. Credible'
     BY <1>1, <1>2, <1>4, <1>6 DEF Credible, RotationLabels
  <1>8. AtFamily'
     <2>1. ASSUME NEW f \in asked \ left', NEW g \in left'
           PROVE  FamilyOrder[f] < FamilyOrder[g]
        <3>1. CASE f = F
           <4>1. g \in Families /\ g # F /\ FamilyOrder[F] <= FamilyOrder[g]
              BY <1>2, <1>3, <1>4
           <4>2. \A x, y \in Families : /\ x # y => FamilyOrder[x] # FamilyOrder[y]
                                        /\ FamilyOrder[x] \in Nat
              BY FamiliesAre
           <4>. HIDE DEF F
           <4>. QED
              BY <1>3, <3>1, <4>1, <4>2
        <3>2. CASE f # F
           BY <1>4, <3>2 DEF AtFamily
        <3>. QED
           BY <3>1, <3>2
     <2>2. pc' \in {"secrets", "family"}
        BY <1>4
     <2>. QED
        BY <1>1, <2>1, <2>2, LabelsAre, FamiliesAre DEF AtFamily
  <1>9. Generations'
     BY <1>1, <1>2, <1>4, FamiliesAre DEF Generations, Untouched, AtRest
  <1>10. Midway'
     BY <1>4 DEF Midway
  <1>11. Done'
     <2>1. DoneFamilies' = DoneFamilies \cup {F} /\ DoneFamilies \subseteq asked \ left
        BY <1>1, <1>2, <1>4 DEF DoneFamilies
     <2>2. ASSUME NEW f \in DoneFamilies
           PROVE  /\ Consumers[f] \subseteq pending'
                  /\ \A k \in KeysOf[f] :
                     /\ ~(k = "grafana" /\ "grafana" \in pending') => env[k] = service[k]
                     /\ k # "admin" => secret[k] = env[k]
                     /\ \A c \in DOMAIN Holds :
                          k \in Holds[c] /\ c \notin pending'
                            /\ (c = "serving" => drill \in {"idle", "restored"})
                          => held[c][k] = env[k]
        BY <1>1, <1>4, <2>2 DEF Done
     <2>3. /\ Consumers[F] \subseteq pending'
           /\ \A k \in KeysOf[F] :
              /\ ~(k = "grafana" /\ "grafana" \in pending') => env[k] = service[k]
              /\ k # "admin" /\ ~(pc' = "secrets" /\ F \in {"postgres", "minio_users"})
                    => secret[k] = env[k]
              /\ \A c \in DOMAIN Holds : ~(k \in Holds[c] /\ c \notin pending')
        BY <1>3, <1>4, <1>5, FamiliesAre, ConsumersAre
     <2>4. pc' \notin {"drain", "finished"}
        BY <1>4
     <2>. HIDE DEF F
     <2>. QED
        BY <1>1, <2>1, <2>2, <2>3, <2>4 DEF Done
  <1>12. Unkilled'
     <2>1. \A k \in Keys : Open(k) => Open(k)'
        BY <1>1, <1>4, FamiliesAre, ConsumersAre DEF Open, AtRest
     <2>2. \A k \in {"tenants", "root", "grafana"} : Unmade(k) => Unmade(k)'
        BY <1>1, <1>4 DEF Unmade
     <2>. QED
        BY <1>1, <1>4, <2>1, <2>2 DEF Unkilled
  <1>. QED
     BY <1>7, <1>8, <1>9, <1>10, <1>11, <1>12

-----------------------------------------------------------------------------
(* The drain.                                                              *)

LEMMA FirstConsumer ==
    ASSUME NEW G \in SUBSET DOMAIN DrainOrder, NEW c \in G, c = FirstOf(G, DrainOrder)
    PROVE  \A y \in G : DrainOrder[c] <= DrainOrder[y]
  <1>. USE ConsumersAre
  <1>1. \E x \in G : \A y \in G : DrainOrder[x] <= DrainOrder[y]
     <2>1. CASE "mlflow" \in G
        BY <2>1
     <2>2. CASE "mlflow" \notin G /\ "metabase" \in G
        BY <2>2
     <2>3. CASE "mlflow" \notin G /\ "metabase" \notin G /\ "grafana" \in G
        BY <2>3
     <2>4. CASE /\ "mlflow" \notin G /\ "metabase" \notin G /\ "grafana" \notin G
                /\ "flyte" \in G
        BY <2>4
     <2>5. CASE /\ "mlflow" \notin G /\ "metabase" \notin G /\ "grafana" \notin G
                /\ "flyte" \notin G /\ "boards" \in G
        BY <2>5
     <2>6. CASE G \subseteq {"serving"}
        BY <2>6
     <2>. QED
        BY <2>1, <2>2, <2>3, <2>4, <2>5, <2>6
  <1>. QED
     BY <1>1 DEF FirstOf

(* A consumer's copies of a typed store.                                   *)
LEMMA Copied ==
    ASSUME NEW c \in DOMAIN Holds, NEW values \in Stored
    PROVE  /\ Copies(c, values) \in [Holds[c] -> Gens]
           /\ \A k \in Holds[c] : Copies(c, values)[k] = values[k]
  <1>1. Holds[c] \subseteq Keys
     BY ConsumersAre, KeysAre
  <1>. QED
     BY <1>1 DEF Copies, Stored

(* A consumer that took its copies anew.                                   *)
LEMMA Taken ==
    ASSUME CInv, NEW c \in DOMAIN Holds, NEW values \in Stored,
           held' = [held EXCEPT ![c] = Copies(c, values)]
    PROVE  /\ held' = [e \in DOMAIN Holds |-> held'[e]]
           /\ \A d \in DOMAIN Holds : held'[d] \in [Holds[d] -> Gens]
           /\ \A d \in DOMAIN Holds : d # c => held'[d] = held[d]
           /\ \A k \in Holds[c] : held'[c][k] = values[k]
  <1>1. held = [e \in DOMAIN Holds |-> held[e]] /\ \A d \in DOMAIN Holds : held[d] \in [Holds[d] -> Gens]
     BY DEF CInv, Credible
  <1>2. held'[c] = Copies(c, values) /\ held' = [e \in DOMAIN Holds |-> held'[e]]
     BY <1>1
  <1>3. \A d \in DOMAIN Holds : d # c => held'[d] = held[d]
     BY <1>1
  <1>. QED
     BY <1>1, <1>2, <1>3, Copied

(* `make serve`, by the rotation or by the scenario's undo.                *)
LEMMA Serves ==
    ASSUME CredentialsAssumption, CInv, MakeServe
    PROVE  /\ secret' \in Stored
           /\ \A k \in Keys : k # "admin" => secret'[k] = env[k]
           /\ predictor' \in {"up", "down"}
           /\ held' = [e \in DOMAIN Holds |-> held'[e]]
           /\ \A d \in DOMAIN Holds : held'[d] \in [Holds[d] -> Gens]
           /\ \A d \in DOMAIN Holds : d # "serving" => held'[d] = held[d]
           /\ held'["serving"]["serving"] \in {held["serving"]["serving"], env["serving"]}
           /\ Served => held'["serving"]["serving"] = env["serving"]
  <1>1. secret' = SecretsOfEnv /\ env \in Stored
     BY Values DEF MakeServe
  <1>2. CASE MinioConverges
     <2>1. held' = [held EXCEPT !["serving"] = Copies("serving", env)]
        BY <1>2 DEF MakeServe
     <2>2. predictor' \in {"up", "down"}
        BY <1>2 DEF MakeServe, PodWith
     <2>3. "serving" \in DOMAIN Holds /\ "serving" \in Holds["serving"]
        BY ConsumersAre
     <2>4. /\ held' = [e \in DOMAIN Holds |-> held'[e]]
           /\ \A d \in DOMAIN Holds : held'[d] \in [Holds[d] -> Gens]
           /\ \A d \in DOMAIN Holds : d # "serving" => held'[d] = held[d]
           /\ \A k \in Holds["serving"] : held'["serving"][k] = env[k]
        BY <1>1, <2>1, <2>3, Taken
     <2>5. secret' \in Stored /\ \A k \in Keys : k # "admin" => secret'[k] = env[k]
        BY <1>1, SecretsMade
     <2>. QED
        BY <2>2, <2>3, <2>4, <2>5
  <1>3. CASE ~MinioConverges
     BY <1>1, <1>3, SecretsMade DEF MakeServe, Served, CInv, Credible
  <1>. QED
     BY <1>2, <1>3

(* What a drain does, whichever consumer it is about.                      *)
LEMMA Drained ==
    ASSUME CredentialsAssumption, CInv, NEW c, Drain(c)
    PROVE  /\ pc = "drain" /\ pc' \in {"drain", "refused"}
           /\ c \in pending /\ pending' = pending \ {c}
           /\ \A y \in pending : DrainOrder[c] <= DrainOrder[y]
           /\ UNCHANGED <<env, spare, made, before, left, asked, users, record, drill, captured,
                          counters>>
           /\ secret' \in Stored
           /\ \A k \in Keys : k # "admin" => secret'[k] \in {secret[k], env[k]}
           /\ service' \in Stored
           /\ \A k \in Keys : (c = "grafana" /\ k = "grafana") \/ service'[k] = service[k]
           /\ c = "grafana" => service'["grafana"] = secret["grafana"] /\ pc' = "drain"
           /\ predictor' \in {"up", "down"}
           /\ held' = [e \in DOMAIN Holds |-> held'[e]]
           /\ \A d \in DOMAIN Holds : held'[d] \in [Holds[d] -> Gens]
           /\ \A d \in DOMAIN Holds : d # c => held'[d] = held[d]
           /\ pc' = "drain" /\ c \in DOMAIN Holds =>
                 \A k \in Holds[c] : held'[c][k] \in {secret[k], env[k]}
           /\ c = "serving" => held'[c][c] \in {held[c][c], env[c]}
           /\ c = "serving" /\ pc' = "drain" => held'[c][c] = env[c]
           /\ pc' = "refused" /\ c \in {"mlflow", "metabase"} =>
                 secret["tenants"] # service["tenants"]
  <1>1. /\ pc = "drain" /\ c \in pending /\ pending' = pending \ {c}
        /\ c = FirstOf(pending, DrainOrder) /\ pending \subseteq DOMAIN DrainOrder
        /\ UNCHANGED <<env, spare, made, before, left, asked, users, record, drill, captured,
                       counters>>
     BY DEF Drain, CInv, Credible, scenario
  <1>2. \A y \in pending : DrainOrder[c] <= DrainOrder[y]
     BY <1>1, FirstConsumer
  <1>3. /\ env \in Stored /\ secret \in Stored /\ service \in Stored
        /\ predictor \in {"up", "down"} /\ held = [e \in DOMAIN Holds |-> held[e]]
        /\ \A d \in DOMAIN Holds : held[d] \in [Holds[d] -> Gens]
     BY DEF CInv, Credible
  <1>4. /\ SecretsOfEnv \in Stored
        /\ \A k \in Keys : k # "admin" => SecretsOfEnv[k] = env[k]
     BY SecretsMade
  <1>5. CASE c \in {"mlflow", "metabase"} /\ Restart(c)
     <2>1. /\ held' = [held EXCEPT ![c] = Copies(c, secret)]
           /\ UNCHANGED <<secret, service, predictor>> /\ pc' \in {"drain", "refused"}
           /\ pc' = "refused" => secret["tenants"] # service["tenants"]
        BY <1>5 DEF Restart, Goto
     <2>2. c \in DOMAIN Holds
        BY <1>5, ConsumersAre
     <2>3. /\ held' = [e \in DOMAIN Holds |-> held'[e]]
           /\ \A d \in DOMAIN Holds : held'[d] \in [Holds[d] -> Gens]
           /\ \A d \in DOMAIN Holds : d # c => held'[d] = held[d]
           /\ \A k \in Holds[c] : held'[c][k] = secret[k]
        BY <1>3, <2>1, <2>2, Taken
     <2>. QED
        BY <1>1, <1>2, <1>3, <1>5, <2>1, <2>3
  <1>6. CASE c = "grafana" /\ RestartGrafana
     <2>1. /\ Accept({"grafana"}, secret) /\ pc' = "drain"
           /\ UNCHANGED <<secret, held, predictor>>
        BY <1>6 DEF RestartGrafana, Goto
     <2>2. {"grafana"} \in SUBSET Keys
        BY KeysAre
     <2>3. /\ service' \in Stored
           /\ \A k \in Keys : /\ k \in {"grafana"} => service'[k] = secret[k]
                              /\ k \notin {"grafana"} => service'[k] = service[k]
        BY <1>3, <2>1, <2>2, Accepted
     <2>4. c \notin DOMAIN Holds
        BY <1>6, ConsumersAre
     <2>. QED
        BY <1>1, <1>2, <1>3, <1>6, <2>1, <2>2, <2>3, <2>4
  <1>7. CASE c = "flyte" /\ DeployFlyte
     <2>1. /\ secret' = SecretsOfEnv /\ UNCHANGED <<service, predictor>>
           /\ \/ held' = [held EXCEPT !["flyte"] = Copies("flyte", env)]
              \/ UNCHANGED held /\ pc' = "refused"
           /\ pc' \in {"drain", "refused"}
        BY <1>7 DEF DeployFlyte, Goto
     <2>2. c \in DOMAIN Holds
        BY <1>7, ConsumersAre
     <2>3. CASE held' = [held EXCEPT !["flyte"] = Copies("flyte", env)]
        <3>1. /\ held' = [e \in DOMAIN Holds |-> held'[e]]
              /\ \A d \in DOMAIN Holds : held'[d] \in [Holds[d] -> Gens]
              /\ \A d \in DOMAIN Holds : d # c => held'[d] = held[d]
              /\ \A k \in Holds[c] : held'[c][k] = env[k]
           BY ZenonT(60), <1>3, <1>7, <2>2, <2>3, Taken
        <3>. QED
           BY <1>1, <1>2, <1>3, <1>4, <1>7, <2>1, <3>1
     <2>4. CASE UNCHANGED held /\ pc' = "refused"
        BY <1>1, <1>2, <1>3, <1>4, <1>7, <2>1, <2>4
     <2>. QED
        BY <2>1, <2>3, <2>4
  <1>8. CASE c = "boards" /\ ConvergeBoards
     <2>1. /\ UNCHANGED <<secret, service, predictor>>
           /\ \/ held' = [held EXCEPT !["boards"] = Copies("boards", env)]
              \/ UNCHANGED held /\ pc' = "refused"
           /\ pc' \in {"drain", "refused"}
        BY <1>8 DEF ConvergeBoards, Goto
     <2>2. c \in DOMAIN Holds
        BY <1>8, ConsumersAre
     <2>3. CASE held' = [held EXCEPT !["boards"] = Copies("boards", env)]
        <3>1. /\ held' = [e \in DOMAIN Holds |-> held'[e]]
              /\ \A d \in DOMAIN Holds : held'[d] \in [Holds[d] -> Gens]
              /\ \A d \in DOMAIN Holds : d # c => held'[d] = held[d]
              /\ \A k \in Holds[c] : held'[c][k] = env[k]
           BY <1>3, <1>8, <2>2, <2>3, Taken
        <3>. QED
           BY <1>1, <1>2, <1>3, <1>8, <2>1, <3>1
     <2>4. CASE UNCHANGED held /\ pc' = "refused"
        BY <1>1, <1>2, <1>3, <1>8, <2>1, <2>4
     <2>. QED
        BY <2>1, <2>3, <2>4
  <1>9. CASE c = "serving" /\ MakeServe /\ UNCHANGED service
             /\ Goto(IF Served THEN "drain" ELSE "refused")
     <2>1. /\ secret' \in Stored
           /\ \A k \in Keys : k # "admin" => secret'[k] = env[k]
           /\ predictor' \in {"up", "down"}
           /\ held' = [e \in DOMAIN Holds |-> held'[e]]
           /\ \A d \in DOMAIN Holds : held'[d] \in [Holds[d] -> Gens]
           /\ \A d \in DOMAIN Holds : d # "serving" => held'[d] = held[d]
           /\ held'["serving"]["serving"] \in {held["serving"]["serving"], env["serving"]}
           /\ Served => held'["serving"]["serving"] = env["serving"]
        BY <1>9, Serves
     <2>2. pc' \in {"drain", "refused"} /\ (pc' = "drain" => Served)
        BY <1>9 DEF Goto
     <2>3. Holds[c] = {"serving"}
        BY <1>9, ConsumersAre
     <2>. QED
        BY <1>1, <1>2, <1>3, <1>9, <2>1, <2>2, <2>3
  <1>. QED
     BY <1>5, <1>6, <1>7, <1>8, <1>9 DEF Drain

LEMMA DrainKeeps ==
    ASSUME CredentialsAssumption, CInv, NEW c, Drain(c)
    PROVE  CInv'
  <1>. USE DEF CInv
  <1>1. /\ pc = "drain" /\ pc' \in {"drain", "refused"}
        /\ c \in pending /\ pending' = pending \ {c}
        /\ \A y \in pending : DrainOrder[c] <= DrainOrder[y]
        /\ UNCHANGED <<env, spare, made, before, left, asked, users, record, drill, captured,
                       counters>>
     BY Drained
  <1>2. /\ secret' \in Stored
        /\ \A k \in Keys : k # "admin" => secret'[k] \in {secret[k], env[k]}
     BY Drained
  <1>3. /\ service' \in Stored
        /\ \A k \in Keys : (c = "grafana" /\ k = "grafana") \/ service'[k] = service[k]
        /\ c = "grafana" => service'["grafana"] = secret["grafana"] /\ pc' = "drain"
     BY Drained
  <1>4. /\ predictor' \in {"up", "down"}
        /\ held' = [e \in DOMAIN Holds |-> held'[e]]
        /\ \A d \in DOMAIN Holds : held'[d] \in [Holds[d] -> Gens]
     BY Drained
  <1>5. /\ \A d \in DOMAIN Holds : d # c => held'[d] = held[d]
        /\ pc' = "drain" /\ c \in DOMAIN Holds =>
              \A k \in Holds[c] : held'[c][k] \in {secret[k], env[k]}
        /\ c = "serving" => held'[c][c] \in {held[c][c], env[c]}
        /\ c = "serving" /\ pc' = "drain" => held'[c][c] = env[c]
     BY Drained
  <1>6. pc' = "refused" /\ c \in {"mlflow", "metabase"} =>
              secret["tenants"] # service["tenants"]
     BY Drained
  <1>7. pending \subseteq DOMAIN DrainOrder /\ left = {} /\ asked \subseteq Families
     BY <1>1 DEF Credible, AtFamily
  <1>8. Unkilled'
     <2>1. SUFFICES ASSUME kills = 0
                    PROVE  /\ \A k \in Keys : env[k] = service'[k] \/ Open(k)'
                           /\ \A k \in {"tenants", "root", "grafana"} : secret'[k] = env[k]
                           /\ drill # "killed"
                           /\ drill \notin {"delete", "undo", "fallback"} =>
                                 held'["serving"]["serving"] # Wrong
                           /\ drill \in {"inject", "delete", "undo", "fallback"} =>
                                 captured # Wrong
        BY <1>1 DEF Unkilled, counters
     <2>2. \A k \in {"tenants", "root", "grafana"} : secret[k] = env[k]
        BY <1>1, <2>1 DEF Unkilled, Unmade
     <2>3. \A k \in Keys : env[k] = service[k] \/ (k = "grafana" /\ "grafana" \in pending)
        BY <1>1, <2>1 DEF Unkilled, Open
     <2>4. \A k \in {"tenants", "root", "grafana"} : secret'[k] = env[k]
        BY <1>2, <2>2, KeysAre
     <2>5. \A k \in Keys : env[k] = service'[k] \/ Open(k)'
        <3>1. CASE c = "grafana"
           BY <1>3, <2>2, <2>3, <3>1
        <3>2. CASE c # "grafana" /\ pc' = "drain"
           BY <1>1, <1>3, <2>3, <3>2 DEF Open, AtRest
        <3>3. CASE c # "grafana" /\ pc' = "refused"
           <4>1. c \notin {"mlflow", "metabase"}
              BY <1>6, <2>2, <2>3, <3>3, KeysAre
           <4>2. "grafana" \notin pending
              BY <1>1, <1>7, <3>3, <4>1, ConsumersAre
           <4>. QED
              BY <1>3, <2>3, <3>3, <4>2
        <3>. QED
           BY <1>1, <3>1, <3>2, <3>3
     <2>6. env["serving"] # Wrong
        BY Values, KeysAre DEF Wrong
     <2>7. held'["serving"]["serving"] \in {held["serving"]["serving"], env["serving"]}
        BY <1>5, ConsumersAre
     <2>. QED
        BY <2>1, <2>4, <2>5, <2>6, <2>7 DEF Unkilled
  <1>9. CASE pc' = "refused"
     <2>1. users' \subseteq MinioUsers /\ pending' \subseteq DOMAIN DrainOrder
        BY <1>1, <1>7 DEF Credible
     <2>2. ~AtRest
        BY <1>1 DEF AtRest
     <2>. QED
        BY <1>1, <1>2, <1>3, <1>4, <1>8, <1>9, <2>1, <2>2, RefusedKeeps
  <1>10. CASE pc' = "drain"
     <2>1. Credible'
        BY <1>1, <1>2, <1>3, <1>4, <1>7, <1>10 DEF Credible, RotationLabels, counters
     <2>2. AtFamily'
        BY <1>1, <1>10 DEF AtFamily, Family
     <2>3. Generations'
        BY <1>1, <1>10 DEF Generations, Untouched, AtRest, Family, counters
     <2>4. Midway'
        BY <1>10 DEF Midway
     <2>5. Done'
        <3>1. DoneFamilies' = DoneFamilies /\ DoneFamilies \subseteq Families
           BY <1>1, <1>7, <1>10 DEF DoneFamilies
        <3>2. SUFFICES ASSUME NEW f \in DoneFamilies, NEW k \in KeysOf[f]
                       PROVE  /\ ~(k = "grafana" /\ "grafana" \in pending') => env[k] = service'[k]
                              /\ k # "admin" => secret'[k] = env[k]
                              /\ \A d \in DOMAIN Holds :
                                   k \in Holds[d] /\ d \notin pending'
                                     /\ (d = "serving" => drill \in {"idle", "restored"})
                                   => held'[d][k] = env[k]
           BY <1>1, <1>10, <3>1 DEF Done
        <3>3. /\ ~(k = "grafana" /\ "grafana" \in pending) => env[k] = service[k]
              /\ k # "admin" => secret[k] = env[k]
              /\ \A d \in DOMAIN Holds :
                   k \in Holds[d] /\ d \notin pending
                     /\ (d = "serving" => drill \in {"idle", "restored"})
                   => held[d][k] = env[k]
           BY <1>1 DEF Done
        <3>4. k \in Keys
           BY <3>1, FamiliesAre, KeysAre
        <3>5. k # "admin" => secret'[k] = env[k]
           BY <1>2, <3>3, <3>4
        <3>6. ~(k = "grafana" /\ "grafana" \in pending') => env[k] = service'[k]
           BY <1>1, <1>3, <3>3, <3>4
        <3>7. ASSUME NEW d \in DOMAIN Holds, k \in Holds[d], d \notin pending',
                     d = "serving" => drill \in {"idle", "restored"}
              PROVE  held'[d][k] = env[k]
           <4>1. k # "admin"
              BY <3>7, ConsumersAre
           <4>. QED
              BY <1>1, <1>5, <1>10, <3>3, <3>7, <4>1
        <3>. QED
           BY <3>5, <3>6, <3>7
     <2>. QED
        BY <1>8, <2>1, <2>2, <2>3, <2>4, <2>5
  <1>. QED
     BY <1>1, <1>9, <1>10

-----------------------------------------------------------------------------
(* Pods that restart, and the storage scenario.                            *)

LEMMA EvictKeeps ==
    ASSUME CredentialsAssumption, CInv,
           NEW w \in {"predictor", "root", "grafana", "mlflow", "metabase"}, Evict(w)
    PROVE  CInv'
  <1>. USE DEF CInv
  <1>1. /\ evictions' = evictions + 1
        /\ UNCHANGED <<env, secret, spare, made, pc, before, left, asked, users, pending,
                       record, drill, captured, runs, kills, drills>>
     BY DEF Evict, rotation, scenario
  <1>2. Family' = Family /\ evictions' \in Nat
     BY <1>1 DEF Family, Credible
  <1>3. AtFamily' /\ Generations'
     BY <1>1, <1>2 DEF AtFamily, Generations, Untouched, AtRest
  <1>4. DoneFamilies' = DoneFamilies /\ DoneFamilies \subseteq Families
     BY <1>1 DEF DoneFamilies, Credible
  <1>5. CASE w = "predictor"
     <2>1. predictor' \in {"up", "down"} /\ UNCHANGED <<service, held>>
        BY <1>5 DEF Evict, PodWith
     <2>2. Credible'
        BY <1>1, <1>2, <2>1 DEF Credible
     <2>3. Midway' /\ Done'
        BY <1>1, <1>2, <1>4, <2>1 DEF Midway, Done
     <2>4. Unkilled'
        BY <1>1, <1>2, <2>1 DEF Unkilled, Open, Unmade, AtRest
     <2>. QED
        BY <1>3, <2>2, <2>3, <2>4
  <1>6. CASE w \in {"root", "grafana"}
     <2>. DEFINE K == {w}
     <2>1. Accept(K, secret) /\ UNCHANGED <<predictor, held>>
        BY <1>6 DEF Evict
     <2>2. K \in SUBSET Keys
        BY <1>6, KeysAre
     <2>. HIDE DEF K
     <2>3. /\ service' \in Stored
           /\ \A k \in Keys : /\ k \in K => service'[k] = secret[k]
                              /\ k \notin K => service'[k] = service[k]
        BY <2>1, <2>2, Accepted, Values
     <2>. USE DEF K
     <2>4. Credible'
        BY <1>1, <1>2, <2>1, <2>3 DEF Credible
     <2>5. Midway'
        <3>1. pc = "checkpoint" => Family \in Families
           BY FirstFamily DEF AtFamily, Family, Credible
        <3>2. pc = "checkpoint" => \A k \in KeysOf[Family] :
                 k # "grafana" => env[k] = service'[k]
           BY <1>6, <2>3, <3>1, FamiliesAre, KeysAre DEF Midway
        <3>. QED
           BY <1>1, <1>2, <1>6, <2>3, <3>2, KeysAre DEF Midway
     <2>6. Done'
        <3>1. ASSUME NEW f \in DoneFamilies, NEW k \in KeysOf[f],
                     ~(k = "grafana" /\ "grafana" \in pending)
              PROVE  env[k] = service'[k]
           <4>1. env[k] = service[k] /\ k \in Keys
              BY <1>4, <3>1, FamiliesAre, KeysAre DEF Done
           <4>2. CASE k = w
              <5>1. f \notin {"postgres", "minio_users"}
                 BY <1>4, <1>6, <4>2, FamiliesAre
              <5>2. secret[k] = env[k]
                 BY <1>6, <4>2, <5>1 DEF Done
              <5>. QED
                 BY <2>3, <4>1, <4>2, <5>2
           <4>. QED
              BY <2>3, <4>1, <4>2
        <3>. QED
           BY <1>1, <1>4, <2>1, <3>1 DEF Done
     <2>7. Unkilled'
        <3>1. SUFFICES ASSUME kills = 0
                       PROVE  \A k \in Keys : env[k] = service'[k] \/ Open(k)
           BY <1>1, <1>2, <2>1 DEF Unkilled, Open, Unmade, AtRest
        <3>2. Unmade(w) => Open(w)
           BY <1>6 DEF Unmade, Open, AtRest
        <3>3. secret[w] = env[w] \/ Open(w)
           BY <1>6, <3>1, <3>2 DEF Unkilled
        <3>. QED
           BY <2>3, <3>1, <3>3 DEF Unkilled
     <2>. QED
        BY <1>3, <2>4, <2>5, <2>6, <2>7
  <1>7. CASE w \in {"mlflow", "metabase"}
     <2>1. held' = [held EXCEPT ![w] = Copies(w, secret)] /\ UNCHANGED <<service, predictor>>
        BY <1>7 DEF Evict
     <2>2. w \in DOMAIN Holds /\ secret \in Stored
        BY <1>7, ConsumersAre, Values
     <2>3. /\ held' = [e \in DOMAIN Holds |-> held'[e]]
           /\ \A d \in DOMAIN Holds : held'[d] \in [Holds[d] -> Gens]
           /\ \A d \in DOMAIN Holds : d # w => held'[d] = held[d]
           /\ \A k \in Holds[w] : held'[w][k] = secret[k]
        BY <2>1, <2>2, Taken
     <2>4. Credible'
        BY <1>1, <1>2, <2>1, <2>3 DEF Credible
     <2>5. Midway'
        BY <1>1, <1>2, <2>1 DEF Midway
     <2>6. Done'
        <3>1. ASSUME NEW f \in DoneFamilies, NEW k \in KeysOf[f], k \in Holds[w],
                     w \notin pending
              PROVE  held'[w][k] = env[k]
           <4>1. f \in {"postgres", "minio_users"} /\ w \in Consumers[f] /\ k # "admin"
              BY <1>4, <1>7, <3>1, FamiliesAre, ConsumersAre
           <4>2. pc # "secrets"
              BY <3>1, <4>1 DEF Done
           <4>3. secret[k] = env[k]
              BY <4>1, <4>2 DEF Done
           <4>. QED
              BY <2>3, <3>1, <4>3
        <3>2. \A f \in DoneFamilies : \A k \in KeysOf[f] : \A c \in DOMAIN Holds :
                 k \in Holds[c] /\ c \notin pending
                   /\ (c = "serving" => drill \in {"idle", "restored"})
                 => held'[c][k] = env[k]
           BY <2>3, <3>1 DEF Done
        <3>. QED
           BY <1>1, <1>4, <2>1, <3>2 DEF Done
     <2>7. held'["serving"] = held["serving"]
        BY <1>7, <2>3, ConsumersAre
     <2>8. Unkilled'
        BY <1>1, <1>2, <2>1, <2>7 DEF Unkilled, Open, Unmade, AtRest
     <2>. QED
        BY <1>3, <2>4, <2>5, <2>6, <2>8
  <1>. QED
     BY <1>5, <1>6, <1>7

(* A step of the scenario: the predictor's copy and the Secrets at most.   *)
LEMMA ScenarioKeeps ==
    ASSUME CredentialsAssumption, CInv,
           UNCHANGED <<env, service, spare, made, rotation, runs, evictions>>,
           secret' \in Stored,
           \A k \in Keys : k # "admin" => secret'[k] \in {secret[k], env[k]},
           secret'["admin"] \in Gens,
           predictor' \in {"up", "down"}, captured' \in Gens, drill' \in DrillLabels \ {"idle"},
           {kills', drills'} \subseteq Nat, kills' = 0 => kills = 0 /\ drill' # "killed",
           held' = [e \in DOMAIN Holds |-> held'[e]], \A d \in DOMAIN Holds : held'[d] \in [Holds[d] -> Gens],
           \A d \in DOMAIN Holds : d # "serving" => held'[d] = held[d],
           drill' = "restored" => held'["serving"]["serving"] = env["serving"],
           kills' = 0 /\ drill' \notin {"delete", "undo", "fallback"} =>
              held'["serving"]["serving"] # Wrong,
           kills' = 0 /\ drill' \in {"inject", "delete", "undo", "fallback"} => captured' # Wrong
    PROVE  CInv'
  <1>. USE DEF CInv, rotation
  <1>1. Family' = Family
     BY DEF Family
  <1>2. Credible'
     BY DEF Credible
  <1>3. AtFamily' /\ Generations'
     BY <1>1 DEF AtFamily, Generations, Untouched, AtRest
  <1>4. Midway'
     BY <1>1, KeysAre DEF Midway
  <1>5. Done'
     <2>1. DoneFamilies' = DoneFamilies /\ DoneFamilies \subseteq Families
        BY DEF DoneFamilies, Credible
     <2>2. \A f \in DoneFamilies : \A k \in KeysOf[f] :
              k # "admin" /\ ~(pc = "secrets" /\ f \in {"postgres", "minio_users"}) =>
                 secret'[k] = env[k]
        <3>1. \A f \in DoneFamilies : \A k \in KeysOf[f] : k \in Keys
           BY <2>1, FamiliesAre, KeysAre
        <3>. QED
           BY <3>1 DEF Done
     <2>3. \A f \in DoneFamilies : \A k \in KeysOf[f] : \A c \in DOMAIN Holds :
              k \in Holds[c] /\ c \notin pending
                /\ (c = "serving" => drill' \in {"idle", "restored"})
              => held'[c][k] = env[k]
        BY ConsumersAre DEF Done
     <2>. QED
        BY <2>1, <2>2, <2>3 DEF Done
  <1>6. Unkilled'
     <2>1. \A k \in Keys : Open(k)' = Open(k)
        BY <1>1 DEF Open, AtRest
     <2>2. \A k \in {"tenants", "root", "grafana"} : Unmade(k)' = Unmade(k)
        BY <1>1 DEF Unmade
     <2>3. \A k \in {"tenants", "root", "grafana"} : secret'[k] \in {secret[k], env[k]}
        BY KeysAre
     <2>. QED
        BY <2>1, <2>2, <2>3 DEF Unkilled
  <1>. QED
     BY <1>2, <1>3, <1>4, <1>5, <1>6

LEMMA DrillKeeps ==
    ASSUME CredentialsAssumption, CInv,
           Capture \/ Inject \/ DeletePod \/ Undo \/ Fallback \/ KillDrill
    PROVE  CInv'
  <1>. DEFINE at == held["serving"]["serving"]
  <1>1. /\ env \in Stored /\ secret \in Stored /\ service \in Stored
        /\ predictor \in {"up", "down"} /\ captured \in Gens
        /\ {kills, drills, evictions} \subseteq Nat
        /\ held = [e \in DOMAIN Holds |-> held[e]] /\ \A d \in DOMAIN Holds : held[d] \in [Holds[d] -> Gens]
     BY DEF CInv, Credible
  <1>2. "serving" \in DOMAIN Holds /\ "serving" \in Holds["serving"] /\ "admin" \in Keys
     BY ConsumersAre, KeysAre
  <1>3. /\ at \in Gens /\ 0 \in Gens /\ secret["admin"] \in Gens
        /\ SecretsOfEnv["admin"] \in Gens
     BY <1>1, <1>2, Values, SecretsMade DEF Gens, Stored
  <1>4. kills = 0 => /\ drill # "killed"
                     /\ drill \notin {"delete", "undo", "fallback"} => at # Wrong
                     /\ drill \in {"inject", "delete", "undo", "fallback"} => captured # Wrong
     BY DEF CInv, Unkilled
  <1>5. env["serving"] # Wrong
     BY Values, KeysAre DEF Wrong
  <1>6. ASSUME NEW v \in Gens, held' = [held EXCEPT !["serving"]["serving"] = v]
        PROVE  /\ held' = [e \in DOMAIN Holds |-> held'[e]]
               /\ \A d \in DOMAIN Holds : held'[d] \in [Holds[d] -> Gens]
               /\ \A d \in DOMAIN Holds : d # "serving" => held'[d] = held[d]
               /\ held'["serving"]["serving"] = v
     <2>1. held' = [held EXCEPT !["serving"] = [held["serving"] EXCEPT !["serving"] = v]]
        BY <1>6
     <2>. DEFINE copy == [held["serving"] EXCEPT !["serving"] = v]
     <2>2. copy \in [Holds["serving"] -> Gens] /\ copy["serving"] = v
        BY <1>1, <1>2, <1>6
     <2>3. held' = [held EXCEPT !["serving"] = copy]
        BY <2>1
     <2>. HIDE DEF copy
     <2>4. /\ held' = [e \in DOMAIN Holds |-> held'[e]] /\ held'["serving"] = copy
           /\ \A d \in DOMAIN Holds : d # "serving" => held'[d] = held[d]
        BY <1>1, <1>2, <2>3
     <2>. QED
        BY <1>1, <2>2, <2>4
  <1>7. CASE Capture
     <2>1. /\ drill \notin {"inject", "delete", "undo", "fallback"}
           /\ captured' = at /\ drill' = "inject" /\ drills' = drills + 1
           /\ UNCHANGED <<secret, held, predictor, env, service, spare, made, rotation, runs,
                          kills, evictions>>
        BY <1>7 DEF Capture, DrillStays
     <2>. QED
        BY <1>1, <1>3, <1>4, <2>1, ScenarioKeeps DEF DrillLabels
  <1>8. CASE Inject
     <2>1. /\ drill = "inject" /\ drill' = "delete"
           /\ held' = [held EXCEPT !["serving"]["serving"] = 0]
           /\ UNCHANGED <<secret, captured, predictor, drills, env, service, spare, made,
                          rotation, runs, kills, evictions>>
        BY <1>8 DEF Inject, DrillStays, Wrong
     <2>2. /\ held' = [e \in DOMAIN Holds |-> held'[e]]
           /\ \A d \in DOMAIN Holds : held'[d] \in [Holds[d] -> Gens]
           /\ \A d \in DOMAIN Holds : d # "serving" => held'[d] = held[d]
        BY <1>3, <1>6, <2>1
     <2>. QED
        BY <1>1, <1>3, <1>4, <2>1, <2>2, ScenarioKeeps DEF DrillLabels
  <1>9. CASE DeletePod
     <2>1. /\ drill = "delete" /\ drill' = "undo" /\ predictor' \in {"up", "down"}
           /\ UNCHANGED <<secret, held, captured, drills, env, service, spare, made, rotation,
                          runs, kills, evictions>>
        BY <1>1, <1>9 DEF DeletePod, DrillStays, PodWith
     <2>. QED
        BY <1>1, <1>3, <1>4, <2>1, ScenarioKeeps DEF DrillLabels
  <1>10. CASE Undo
     <2>1. /\ drill = "undo" /\ MakeServe
           /\ drill' = (IF Served THEN "restored" ELSE "fallback")
           /\ UNCHANGED <<captured, drills, env, service, spare, made, rotation, runs, kills,
                          evictions>>
        BY <1>10 DEF Undo, DrillStays
     <2>2. /\ secret' \in Stored
           /\ \A k \in Keys : k # "admin" => secret'[k] = env[k]
           /\ predictor' \in {"up", "down"}
           /\ held' = [e \in DOMAIN Holds |-> held'[e]]
           /\ \A d \in DOMAIN Holds : held'[d] \in [Holds[d] -> Gens]
           /\ \A d \in DOMAIN Holds : d # "serving" => held'[d] = held[d]
           /\ Served => held'["serving"]["serving"] = env["serving"]
        BY <2>1, Serves
     <2>3. secret'["admin"] \in Gens
        BY <1>2, <2>2 DEF Stored
     <2>4. /\ drill' \in {"restored", "fallback"}
           /\ drill' = "restored" => held'["serving"]["serving"] = env["serving"]
        BY <2>1, <2>2
     <2>. QED
        BY <1>1, <1>4, <1>5, <2>1, <2>2, <2>3, <2>4, ScenarioKeeps DEF DrillLabels
  <1>11. CASE Fallback
     <2>1. /\ drill = "fallback" /\ drill' \in {"put_back", "failed"}
           /\ held' = [held EXCEPT !["serving"]["serving"] = captured]
           /\ predictor' \in {"up", "down"}
           /\ UNCHANGED <<secret, captured, drills, env, service, spare, made, rotation, runs,
                          kills, evictions>>
        BY <1>11 DEF Fallback, DrillStays, PodWith
     <2>2. /\ held' = [e \in DOMAIN Holds |-> held'[e]]
           /\ \A d \in DOMAIN Holds : held'[d] \in [Holds[d] -> Gens]
           /\ \A d \in DOMAIN Holds : d # "serving" => held'[d] = held[d]
           /\ held'["serving"]["serving"] = captured
        BY <1>1, <1>6, <2>1
     <2>. QED
        BY <1>1, <1>3, <1>4, <2>1, <2>2, ScenarioKeeps DEF DrillLabels
  <1>12. CASE KillDrill
     <2>1. /\ drill' = "killed" /\ kills' = kills + 1
           /\ UNCHANGED <<stores, predictor, rotation, captured, runs, drills, evictions>>
        BY <1>12 DEF KillDrill
     <2>2. kills' # 0
        BY <1>1, <2>1
     <2>. QED
        BY <1>1, <1>3, <2>1, <2>2, ScenarioKeeps DEF DrillLabels, stores
  <1>. QED
     BY <1>7, <1>8, <1>9, <1>10, <1>11, <1>12

-----------------------------------------------------------------------------
LEMMA CredentialsStep == ASSUME CredentialsAssumption, CInv, [Next]_vars PROVE CInv'
  <1>1. CASE UNCHANGED vars
     <2>1. UNCHANGED <<env, secret, service, held, made, predictor, pc, before, left, asked,
                       users, pending, drill, captured, counters>>
        BY <1>1 DEF vars, stores, rotation, scenario
     <2>2. /\ spare' \in Stored
           /\ record' \in [families : SUBSET Families, finished : BOOLEAN, refused : BOOLEAN]
        BY <1>1 DEF vars, stores, rotation, CInv, Credible
     <2>. QED
        BY <2>1, <2>2, AsideKeeps
  <1>2. CASE \E F \in Choices : Start(F)
     BY <1>2, StartKeeps
  <1>3. CASE RotationStep
     <2>1. CASE NextFamily \/ PostgresEnv \/ PostgresRecipe \/ PostgresSuperuser
        BY <2>1, NextFamilyKeeps, PostgresEnvKeeps, PostgresRecipeKeeps, PostgresSuperuserKeeps
     <2>2. CASE ListUsers \/ (\E u \in MinioUsers : Reissue(u)) \/ UsersEnv
        BY <2>2, ListUsersKeeps, ReissueKeeps, UsersEnvKeeps
     <2>3. CASE RootEnv
        BY <2>3, GenerateEnvKeeps
     <2>4. CASE GrafanaEnv
        BY <2>4, GenerateEnvKeeps
     <2>5. CASE RestartMinio \/ ApplySecrets \/ AdminPassword \/ AdminEnv
        BY <2>5, RestartMinioKeeps, ApplySecretsKeeps, AdminPasswordKeeps, AdminEnvKeeps
     <2>6. CASE Checkpoint \/ (\E c \in DOMAIN DrainOrder : Drain(c)) \/ Finish
        BY <2>6, CheckpointKeeps, DrainKeeps, FinishKeeps
     <2>. QED
        BY <1>3, <2>1, <2>2, <2>3, <2>4, <2>5, <2>6 DEF RotationStep
  <1>4. CASE KillRotation \/ CopyAside \/ VerifyOldRefused \/ DestroyPreRotation
     BY <1>4, KillRotationKeeps, OperatorKeeps
  <1>5. CASE \E w \in {"predictor", "root", "grafana", "mlflow", "metabase"} : Evict(w)
     BY <1>5, EvictKeeps
  <1>6. CASE Capture \/ DrillStep \/ KillDrill
     BY <1>6, DrillKeeps DEF DrillStep
  <1>. QED
     BY <1>1, <1>2, <1>3, <1>4, <1>5, <1>6 DEF Next

(* What the invariant says of access.                                      *)
LEMMA CredentialsHold == ASSUME CredentialsAssumption, CInv PROVE AccessIsKept
  <1>. USE DEF CInv
  <1>1. TypeOK
     <2>1. held \in [DOMAIN Holds -> UNION {[Holds[c] -> Gens] : c \in DOMAIN Holds}]
        <3>. DEFINE Copy == UNION {[Holds[c] -> Gens] : c \in DOMAIN Holds}
        <3>1. \A c \in DOMAIN Holds : held[c] \in Copy
           BY DEF Credible
        <3>2. held = [e \in DOMAIN Holds |-> held[e]]
           BY DEF Credible
        <3>. HIDE DEF Copy
        <3>3. held \in [DOMAIN Holds -> Copy]
           BY <3>1, <3>2
        <3>. QED
           BY <3>3 DEF Copy
     <2>2. {runs, kills, drills, evictions} \subseteq Nat
        BY DEF Credible, CredentialsAssumption
     <2>. QED
        BY <2>1, <2>2 DEF Credible, TypeOK
  <1>2. FinishedAgrees
     <2>1. SUFFICES ASSUME pc = "finished", drill \in {"idle", "restored"},
                           NEW f \in asked, NEW k \in KeysOf[f]
                    PROVE  Agreed(k)
        BY DEF FinishedAgrees
     <2>2. f \in DoneFamilies /\ pending = {}
        BY <2>1 DEF AtFamily, DoneFamilies
     <2>3. /\ env[k] = service[k]
           /\ k # "admin" => secret[k] = env[k]
           /\ \A c \in DOMAIN Holds : k \in Holds[c] => held[c][k] = env[k]
        BY <2>1, <2>2 DEF Done
     <2>. QED
        BY <2>3 DEF Agreed
  <1>3. NeverLockedOut
     <2>1. AtRest => \A k \in Keys : ~Open(k)
        BY DEF AtRest, Open
     <2>. QED
        BY <2>1 DEF NeverLockedOut, Unkilled
  <1>4. DrillUndone
     BY DEF DrillUndone, Unkilled
  <1>. QED
     BY <1>1, <1>2, <1>3, <1>4 DEF AccessIsKept

(* Whatever families the rotations are asked for, in whatever order they,  *)
(* the game days, the pods that restart and the processes that die come: a *)
(* rotation that ends leaves no place with a value its service refuses;    *)
(* only a killed script can leave .env behind a service; and the storage   *)
(* scenario that is not killed puts the predictor's credential back.       *)
THEOREM AccessKept == ASSUME CredentialsAssumption PROVE Spec => []AccessIsKept
  <1>1. Init => CInv
     BY CredentialsInit
  <1>2. CInv /\ [Next]_vars => CInv'
     BY CredentialsStep
  <1>3. CInv => AccessIsKept
     BY CredentialsHold
  <1>. QED
     BY <1>1, <1>2, <1>3, PTL DEF Spec

-----------------------------------------------------------------------------
(***************************************************************************)
(* Study.  Counting: a run owes what was not answered when it opened the   *)
(* study, and answers are only added; so what is answered and what it has  *)
(* left make up what was requested.  Recovering: while no fit has raised,  *)
(* a drill holds the tunnel and its arm is the only process, so its arm    *)
(* and the answers make up exactly what was requested; a kill within a fit *)
(* leaves a dead row, and an answer owed, until the second arm asks, which *)
(* fails the row and leaves no other.                                      *)
(***************************************************************************)
Bags == [S!Tries -> Nat]

(* Study's copy of the standard module says what the module says.          *)
LEMMA SameModule ==
    \A T : S!Cardinality(T) = Cardinality(T) /\ S!IsFiniteSet(T) = IsFiniteSet(T)
  BY DEF S!Cardinality, Cardinality, S!IsFiniteSet, IsFiniteSet

(* How many rows a bag is.                                                 *)
LEMMA Sizes ==
    ASSUME S!StudyAssumption
    PROVE  /\ \A bag \in Bags : S!Size(bag) \in Nat
           /\ S!Nothing \in Bags /\ S!Size(S!Nothing) = 0
           /\ \A bag \in Bags : \A t \in S!Tries : bag[t] >= 1 => S!Size(bag) >= 1
  <1>1. IsFiniteSet(S!Tries)
    BY FS_Interval DEF S!Tries, S!StudyAssumption
  <1>2. ASSUME NEW bag \in Bags PROVE IsFiniteSet(S!RowsOf(bag))
    <2>. DEFINE T == {{t} \X (1 .. bag[t]) : t \in S!Tries}
    <2>1. [t \in S!Tries |-> {t} \X (1 .. bag[t])] \in Surjection(S!Tries, T)
      BY DEF Surjection
    <2>2. IsFiniteSet(T)
      BY <1>1, <2>1, FS_Surjection
    <2>3. ASSUME NEW t \in S!Tries PROVE IsFiniteSet({t} \X (1 .. bag[t]))
      <3>1. bag[t] \in Int
        BY DEF Bags
      <3>2. IsFiniteSet(1 .. bag[t])
        BY <3>1, FS_Interval
      <3>3. IsFiniteSet({t})
        BY FS_Singleton
      <3>. QED
        BY <3>2, <3>3, FS_Product
    <2>. QED
      BY <2>2, <2>3, FS_UNION DEF S!RowsOf
  <1>3. \A bag \in Bags : S!Size(bag) \in Nat
    BY <1>2, FS_CardinalityType, SameModule DEF S!Size
  <1>4. S!Nothing \in Bags /\ S!Size(S!Nothing) = 0
    <2>1. S!Nothing \in Bags
      BY DEF S!Nothing, Bags
    <2>2. S!RowsOf(S!Nothing) = {}
      BY DEF S!Nothing, S!RowsOf
    <2>. QED
      BY <2>1, <2>2, FS_EmptySet, SameModule DEF S!Size
  <1>5. ASSUME NEW bag \in Bags, NEW t \in S!Tries, bag[t] >= 1 PROVE S!Size(bag) >= 1
    <2>1. 1 \in 1 .. bag[t]
      BY <1>5 DEF Bags
    <2>2. <<t, 1>> \in S!RowsOf(bag)
      BY <2>1 DEF S!RowsOf
    <2>3. S!Size(bag) # 0
      BY <1>2, <2>2, FS_EmptySet, SameModule DEF S!Size
    <2>. QED
      BY <1>3, <2>3
  <1>. QED
    BY <1>3, <1>4, <1>5

Owing ==
    \A p \in Snipers :
        /\ step[p] \in {"ask", "fit"} => owed[p] >= 1 /\ answered + owed[p] >= Requested
        /\ step[p] = "close" => answered >= Requested

Counting ==
    /\ S!TypeOK /\ mishaps \in Nat
    /\ \A p \in Snipers : fits[p] # S!Idle => step[p] = "fit"
    /\ Owing
    /\ finished => answered >= Requested

Lost == S!Size(dead) >= 1
Found == failed >= 1 /\ dead = S!Nothing

Recovering ==
    arm # "none" /\ mishaps = 0 =>
        /\ tunnel = S!Drill
        /\ \A p \in Snipers : p # S!Arm => step[p] = "off"
        /\ answered <= Requested
        /\ step[S!Arm] \in {"ask", "fit"} => answered + owed[S!Arm] = Requested
        /\ arm \in {"grace", "relaunch"} =>
              step[S!Arm] = "off" /\ (cut => Lost /\ answered < Requested)
        /\ arm = "wait" /\ cut =>
              /\ step[S!Arm] = "open" => Lost /\ answered < Requested
              /\ step[S!Arm] = "ask" => Lost \/ Found
              /\ step[S!Arm] \in {"fit", "close", "off"} => Found
              /\ step[S!Arm] \in {"close", "off"} => answered = Requested
        /\ arm = "fail" => ~cut

KInv == Counting /\ Recovering

(* A process that is gone leaves its row, and owes nothing any more.       *)
LEMMA GoneCounts ==
    ASSUME S!StudyAssumption, Counting, NEW p \in Snipers, S!Gone(p),
           answered' \in Nat, failed' \in Nat, waiting' \in Bags, dead' \in Bags,
           mishaps' \in Nat, answered' >= answered,
           finished' \in BOOLEAN, finished' => finished \/ answered >= Requested,
           arm' \in {"none", "launch", "watch", "grace", "relaunch", "wait",
                     "pass", "fail", "aborted"}, cut' \in BOOLEAN
    PROVE  /\ Counting'
           /\ step'[p] = "off" /\ tunnel' = IF tunnel = p THEN S!Nobody ELSE tunnel
           /\ \A q \in Snipers : q # p => step'[q] = step[q]
  <1>1. /\ step' = [step EXCEPT ![p] = "off"] /\ owed' = [owed EXCEPT ![p] = 0]
        /\ fits' = [fits EXCEPT ![p] = S!Idle]
        /\ tunnel' = IF tunnel = p THEN S!Nobody ELSE tunnel
    BY DEF S!Gone
  <1>2. S!TypeOK'
    BY <1>1 DEF S!TypeOK, Counting, S!StudyAssumption, Bags
  <1>3. /\ step'[p] = "off" /\ fits'[p] = S!Idle
        /\ \A q \in Snipers : q # p => step'[q] = step[q] /\ owed'[q] = owed[q] /\ fits'[q] = fits[q]
    BY <1>1 DEF S!TypeOK, Counting
  <1>4. Owing' /\ (finished' => answered' >= Requested)
    BY <1>2, <1>3 DEF Counting, Owing, S!TypeOK, S!StudyAssumption
  <1>. QED
    BY <1>1, <1>2, <1>3, <1>4 DEF Counting

(* One that dies while it fits leaves its row RUNNING.                     *)
LEMMA DyingCounts ==
    ASSUME S!StudyAssumption, Counting, NEW p \in Snipers, S!Dies(p)
    PROVE  /\ dead' \in Bags /\ UNCHANGED <<answered, failed, waiting>>
           /\ p \in S!Fitting => step[p] = "fit" /\ S!Size(dead') >= 1
  <1>1. dead \in Bags /\ fits \in [Snipers -> S!Tries \cup {S!Idle}]
    BY DEF Counting, S!TypeOK, Bags
  <1>2. CASE p \notin S!Fitting
    BY <1>1, <1>2 DEF S!Dies
  <1>3. CASE p \in S!Fitting
    <2>1. fits[p] \in S!Tries /\ dead' = [dead EXCEPT ![fits[p]] = dead[fits[p]] + 1]
      BY <1>1, <1>3 DEF S!Dies, S!Plus, S!Fitting
    <2>2. dead' \in Bags /\ dead'[fits[p]] >= 1
      BY <1>1, <2>1 DEF Bags
    <2>3. S!Size(dead') >= 1
      BY <2>1, <2>2, Sizes
    <2>. QED
      BY <1>3, <2>2, <2>3 DEF S!Dies, S!Fitting, Counting
  <1>. QED
    BY <1>2, <1>3

Phases == {"none", "launch", "watch", "grace", "relaunch", "wait", "pass", "fail", "aborted"}

(* What a process does to its own step and no row.                         *)
LEMMA Moves ==
    ASSUME S!StudyAssumption, Counting, NEW p \in Snipers,
           NEW label \in {"open", "ask", "fit", "close"}, NEW n \in 0 .. Requested,
           step' = [step EXCEPT ![p] = label],
           owed' = [owed EXCEPT ![p] = n],
           label \in {"ask", "fit"} => n >= 1 /\ answered' + n >= Requested,
           label = "close" => answered' >= Requested,
           \A q \in Snipers : q # p => fits'[q] = fits[q],
           fits' \in [Snipers -> S!Tries \cup {S!Idle}],
           fits'[p] = S!Idle \/ label = "fit",
           answered' \in Nat, answered' >= answered, failed' \in Nat,
           waiting' \in Bags, dead' \in Bags,
           tunnel' \in Snipers \cup {S!Nobody, S!Drill}, arm' \in Phases,
           UNCHANGED <<cut, finished, mishaps>>
    PROVE  /\ Counting'
           /\ step'[p] = label /\ owed'[p] = n
           /\ \A q \in Snipers : q # p => step'[q] = step[q]
  <1>1. S!TypeOK'
    BY DEF S!TypeOK, Counting, Bags, Phases
  <1>2. /\ step'[p] = label /\ owed'[p] = n
        /\ \A q \in Snipers : q # p => step'[q] = step[q] /\ owed'[q] = owed[q]
    BY DEF S!TypeOK, Counting
  <1>3. Owing'
    <2>1. ASSUME NEW q \in Snipers, q # p
          PROVE  /\ step[q] \in {"ask", "fit"} => owed[q] >= 1 /\ answered' + owed[q] >= Requested
                 /\ step[q] = "close" => answered' >= Requested
      <3>1. answered \in Nat /\ owed[q] \in Nat
        BY DEF Counting, S!TypeOK, S!StudyAssumption
      <3>. QED
        BY <3>1, <2>1 DEF Counting, Owing, S!StudyAssumption
    <2>. QED
      BY <1>2, <2>1 DEF Owing
  <1>4. (finished' => answered' >= Requested) /\ mishaps' \in Nat
    BY <1>1 DEF Counting, S!TypeOK, S!StudyAssumption
  <1>5. \A q \in Snipers : fits'[q] # S!Idle => step'[q] = "fit"
    BY <1>2 DEF Counting
  <1>. QED
    BY <1>1, <1>2, <1>3, <1>4, <1>5 DEF Counting

LEMMA LaunchKeeps ==
    ASSUME S!StudyAssumption, KInv, NEW p \in Snipers,
           S!Launch(p) \/ (S!DrillLaunch(p) /\ p = S!Arm)
    PROVE  KInv'
  <1>. USE DEF KInv
  <1>1. /\ step[p] = "off" /\ step' = [step EXCEPT ![p] = "open"]
        /\ tunnel' = IF tunnel = S!Nobody THEN p ELSE tunnel
        /\ UNCHANGED <<answered, failed, waiting, dead, fits, owed, cut, finished, mishaps>>
    BY DEF S!Launch, S!DrillLaunch, S!Start, S!Goto, S!rows
  <1>2. arm' \in Phases /\ (arm' # "none" => arm # "none" /\ p = S!Arm)
    BY DEF S!Launch, S!DrillLaunch, S!Phase, Phases, S!TypeOK, Counting
  <1>3. owed[p] \in 0 .. Requested /\ owed' = [owed EXCEPT ![p] = owed[p]]
    BY <1>1 DEF S!TypeOK, Counting
  <1>4. /\ fits' \in [Snipers -> S!Tries \cup {S!Idle}] /\ fits'[p] = S!Idle
        /\ answered' \in Nat /\ failed' \in Nat /\ waiting' \in Bags /\ dead' \in Bags
        /\ tunnel' \in Snipers \cup {S!Nobody, S!Drill}
    BY <1>1 DEF S!TypeOK, Counting, Bags
  <1>5. /\ Counting' /\ step'[p] = "open"
        /\ \A q \in Snipers : q # p => step'[q] = step[q]
    <2>1. "open" \in {"open", "ask", "fit", "close"} /\ "open" \notin {"ask", "fit", "close"}
      OBVIOUS
    <2>2. answered' >= answered /\ Counting
      BY <1>1 DEF Counting, S!TypeOK
    <2>3. \A q \in Snipers : q # p => fits'[q] = fits[q]
      BY <1>1
    <2>. QED
      BY <1>1, <1>2, <1>3, <1>4, <2>1, <2>2, <2>3, Moves
  <1>6. Recovering'
    <2>. SUFFICES ASSUME arm' # "none", mishaps' = 0 PROVE Recovering'
      BY DEF Recovering
    <2>1. arm # "none" /\ p = S!Arm /\ mishaps = 0 /\ S!DrillLaunch(p)
      BY <1>1, <1>2 DEF S!Launch
    <2>2. tunnel = S!Drill /\ tunnel' = S!Drill
      BY <1>1, <2>1 DEF Recovering, S!Drill, S!Nobody
    <2>3. \/ arm = "launch" /\ arm' = "watch"
          \/ arm = "relaunch" /\ arm' = "wait"
      BY <2>1 DEF S!DrillLaunch, S!Phase
    <2>. QED
      BY <1>1, <1>5, <2>1, <2>2, <2>3 DEF Recovering, Lost
  <1>. QED
    BY <1>5, <1>6

(* OpenStudy owes what is not answered.                                    *)
LEMMA OpenKeeps ==
    ASSUME S!StudyAssumption, KInv, NEW p \in Snipers, S!OpenStudy(p)
    PROVE  KInv'
  <1>. USE DEF KInv
  <1>. DEFINE label == IF S!Owed = 0 THEN "close" ELSE "ask"
  <1>1. /\ step[p] = "open" /\ step' = [step EXCEPT ![p] = label]
        /\ owed' = [owed EXCEPT ![p] = S!Owed]
        /\ UNCHANGED <<answered, failed, waiting, dead, fits, tunnel, arm, cut, finished, mishaps>>
    BY DEF S!OpenStudy, S!Goto, S!Reaches, S!rows
  <1>2. /\ S!Owed \in 0 .. Requested
        /\ answered + S!Owed >= Requested
        /\ answered <= Requested => answered + S!Owed = Requested
    BY DEF S!Owed, S!StudyAssumption, Counting, S!TypeOK
  <1>3. /\ fits' \in [Snipers -> S!Tries \cup {S!Idle}] /\ fits'[p] = S!Idle
        /\ answered' \in Nat /\ failed' \in Nat /\ waiting' \in Bags /\ dead' \in Bags
        /\ tunnel' \in Snipers \cup {S!Nobody, S!Drill} /\ arm' \in Phases
    BY <1>1 DEF S!TypeOK, Counting, Bags, Phases
  <1>4. /\ label \in {"ask", "close"}
        /\ label = "ask" => S!Owed >= 1 /\ answered' + S!Owed >= Requested
        /\ label = "close" => answered' >= Requested
    BY <1>1, <1>2, <1>3 DEF S!StudyAssumption
  <1>. HIDE DEF label
  <1>5. /\ Counting' /\ step'[p] = label /\ owed'[p] = S!Owed
        /\ \A q \in Snipers : q # p => step'[q] = step[q]
    <2>1. label \in {"open", "ask", "fit", "close"} /\ label # "fit"
      BY <1>4
    <2>2. label \in {"ask", "fit"} => S!Owed >= 1 /\ answered' + S!Owed >= Requested
      BY <1>4, <2>1
    <2>3. answered' >= answered /\ Counting
      BY <1>1 DEF Counting, S!TypeOK
    <2>4. \A q \in Snipers : q # p => fits'[q] = fits[q]
      BY <1>1
    <2>. QED
      BY <1>1, <1>2, <1>3, <1>4, <2>1, <2>2, <2>3, <2>4, Moves
  <1>6. Recovering'
    <2>. SUFFICES ASSUME arm # "none", mishaps = 0 PROVE Recovering'
      BY <1>1 DEF Recovering
    <2>1. p = S!Arm
      BY <1>1 DEF Recovering
    <2>2. answered < Requested => label = "ask"
      BY <1>2 DEF label, Counting, S!TypeOK, S!StudyAssumption
    <2>3. answered <= Requested /\ answered + S!Owed = Requested
      BY <1>2 DEF Recovering
    <2>4. answered < Requested => label = "ask"
      BY <2>2
    <2>. QED
      BY <1>1, <1>4, <1>5, <2>1, <2>3, <2>4 DEF Recovering, Lost, Found
  <1>. QED
    BY <1>5, <1>6

(* Before a trial: the stale rows are failed, and a retry of each queued.  *)
LEMMA AskKeeps ==
    ASSUME S!StudyAssumption, KInv, NEW p \in Snipers, S!Ask(p)
    PROVE  KInv'
  <1>. USE DEF KInv
  <1>1. PICK stale \in S!Stale :
          LET queue == [t \in S!Tries |-> waiting[t] + S!Retries(stale)[t]]
          IN  /\ S!Reaches(p, "ask")
              /\ failed' = failed + S!Size(stale)
              /\ dead' = [t \in S!Tries |-> dead[t] - stale[t]]
              /\ \/ /\ S!Size(queue) = 0
                    /\ fits' = [fits EXCEPT ![p] = 0]
                    /\ waiting' = queue
                 \/ \E t \in S!Tries :
                      /\ queue[t] > 0
                      /\ fits' = [fits EXCEPT ![p] = t]
                      /\ waiting' = S!Less(queue, t)
              /\ S!Goto(p, "fit")
              /\ UNCHANGED <<answered, owed, tunnel, arm, cut, finished, killed, mishaps>>
    BY DEF S!Ask
  <1>. DEFINE queue == [t \in S!Tries |-> waiting[t] + S!Retries(stale)[t]]
  <1>2. waiting \in Bags /\ dead \in Bags /\ failed \in Nat /\ S!Size(dead) \in Nat
    BY Sizes DEF Counting, S!TypeOK, Bags
  <1>3. stale \in Bags /\ \A t \in S!Tries : stale[t] <= dead[t]
    <2>1. CASE arm = "wait"
      BY <1>2, <2>1 DEF S!Stale, Bags
    <2>2. CASE arm # "wait"
      <3>1. stale \in [S!Tries -> 0 .. S!Size(dead)] /\ \A t \in S!Tries : stale[t] <= dead[t]
        BY <2>2 DEF S!Stale
      <3>. QED
        BY <1>2, <3>1 DEF Bags
    <2>. QED
      BY <2>1, <2>2
  <1>4. S!Retries(stale) \in Bags
    BY <1>3 DEF S!Retries, Bags, S!Tries, S!StudyAssumption
  <1>5. queue \in Bags
    BY <1>2, <1>4 DEF Bags
  <1>. HIDE DEF queue
  <1>6. dead' \in Bags /\ failed' \in Nat
    BY <1>1, <1>2, <1>3, Sizes DEF Bags
  <1>7. PICK t \in S!Tries : /\ fits' = [fits EXCEPT ![p] = t]
                             /\ waiting' = queue \/ (queue[t] > 0 /\ waiting' = S!Less(queue, t))
    <2>1. 0 \in S!Tries
      BY DEF S!Tries, S!StudyAssumption
    <2>. QED
      BY <1>1, <2>1 DEF queue
  <1>8. waiting' \in Bags
    BY <1>5, <1>7 DEF S!Less, Bags
  <1>9. /\ step[p] = "ask" /\ step' = [step EXCEPT ![p] = "fit"]
        /\ UNCHANGED <<answered, owed, tunnel, arm, cut, finished, mishaps>>
    BY <1>1 DEF S!Reaches, S!Goto
  <1>10. /\ owed[p] \in 0 .. Requested /\ owed' = [owed EXCEPT ![p] = owed[p]]
         /\ owed[p] >= 1 /\ answered' + owed[p] >= Requested
         /\ answered' \in Nat /\ answered' >= answered
         /\ tunnel' \in Snipers \cup {S!Nobody, S!Drill} /\ arm' \in Phases
    BY <1>9 DEF S!TypeOK, Counting, Owing, Phases
  <1>11. /\ fits' \in [Snipers -> S!Tries \cup {S!Idle}]
         /\ \A q \in Snipers : q # p => fits'[q] = fits[q]
    BY <1>7 DEF S!TypeOK, Counting
  <1>12. /\ Counting' /\ step'[p] = "fit"
         /\ \A q \in Snipers : q # p => step'[q] = step[q]
    <2>1. "fit" \in {"open", "ask", "fit", "close"} /\ "fit" # "close"
      OBVIOUS
    <2>. QED
      BY <1>6, <1>8, <1>9, <1>10, <1>11, <2>1, Moves
  <1>13. Recovering'
    <2>. SUFFICES ASSUME arm # "none", mishaps = 0 PROVE Recovering'
      BY <1>9 DEF Recovering
    <2>1. p = S!Arm /\ tunnel = S!Drill /\ answered <= Requested /\ arm \notin {"grace", "relaunch"}
      BY <1>9 DEF Recovering
    <2>2. answered + owed[p] = Requested /\ owed' = owed
      BY <1>9, <2>1 DEF Recovering
    <2>3. arm = "wait" => dead' = S!Nothing /\ failed' = failed + S!Size(dead)
      <3>. SUFFICES ASSUME arm = "wait" PROVE dead' = S!Nothing /\ failed' = failed + S!Size(dead)
        OBVIOUS
      <3>1. stale = dead
        BY DEF S!Stale
      <3>2. \A u \in S!Tries : dead[u] - dead[u] = 0
        BY <1>2 DEF Bags
      <3>. QED
        BY <1>1, <3>1, <3>2 DEF S!Nothing
    <2>4. arm = "wait" /\ cut => failed' >= 1 /\ dead' = S!Nothing
      BY <1>2, <1>9, <2>1, <2>3 DEF Recovering, Lost, Found
    <2>5. arm = "fail" => ~cut
      BY <2>1 DEF Recovering
    <2>. QED
      BY <1>9, <1>12, <2>1, <2>2, <2>4, <2>5 DEF Recovering, Found
  <1>. QED
    BY <1>12, <1>13

LEMMA AnswerKeeps ==
    ASSUME S!StudyAssumption, KInv, NEW p \in Snipers, S!Answer(p)
    PROVE  KInv'
  <1>. USE DEF KInv
  <1>. DEFINE label == IF owed[p] = 1 THEN "close" ELSE "ask"
  <1>1. /\ step[p] = "fit" /\ answered' = answered + 1 /\ fits' = [fits EXCEPT ![p] = S!Idle]
        /\ owed' = [owed EXCEPT ![p] = owed[p] - 1] /\ step' = [step EXCEPT ![p] = label]
        /\ UNCHANGED <<failed, waiting, dead, tunnel, arm, cut, finished, mishaps>>
    BY DEF S!Answer, S!Reaches, S!Goto
  <1>2. /\ answered \in Nat /\ owed[p] \in 1 .. Requested /\ answered + owed[p] >= Requested
        /\ Requested \in Nat
    BY <1>1 DEF Counting, S!TypeOK, Owing, S!StudyAssumption
  <1>3. /\ label \in {"ask", "close"} /\ owed[p] - 1 \in 0 .. Requested
        /\ label = "ask" => owed[p] - 1 >= 1 /\ answered' + (owed[p] - 1) >= Requested
        /\ label = "close" => answered' >= Requested
        /\ answered' \in Nat /\ answered' >= answered
    BY <1>1, <1>2
  <1>4. /\ fits' \in [Snipers -> S!Tries \cup {S!Idle}] /\ fits'[p] = S!Idle
        /\ \A q \in Snipers : q # p => fits'[q] = fits[q]
        /\ failed' \in Nat /\ waiting' \in Bags /\ dead' \in Bags
        /\ tunnel' \in Snipers \cup {S!Nobody, S!Drill} /\ arm' \in Phases
    BY <1>1 DEF S!TypeOK, Counting, Bags, Phases
  <1>5. label = "close" <=> owed[p] = 1
    OBVIOUS
  <1>. HIDE DEF label
  <1>6. /\ Counting' /\ step'[p] = label /\ owed'[p] = owed[p] - 1
        /\ \A q \in Snipers : q # p => step'[q] = step[q]
    <2>1. label \in {"open", "ask", "fit", "close"}
      BY <1>3
    <2>2. label \in {"ask", "fit"} => owed[p] - 1 >= 1 /\ answered' + (owed[p] - 1) >= Requested
      BY <1>3
    <2>. DEFINE n == owed[p] - 1
    <2>3. /\ n \in 0 .. Requested /\ owed' = [owed EXCEPT ![p] = n]
          /\ label \in {"ask", "fit"} => n >= 1 /\ answered' + n >= Requested
      BY <1>1, <1>3, <2>2
    <2>4. Counting /\ (label = "close" => answered' >= Requested)
      BY <1>3
    <2>. HIDE DEF n
    <2>5. /\ Counting' /\ step'[p] = label /\ owed'[p] = n
          /\ \A q \in Snipers : q # p => step'[q] = step[q]
      BY <1>1, <1>3, <1>4, <2>1, <2>3, <2>4, Moves
    <2>. QED
      BY <2>5 DEF n
  <1>7. Recovering'
    <2>. SUFFICES ASSUME arm # "none", mishaps = 0 PROVE Recovering'
      BY <1>1 DEF Recovering
    <2>1. p = S!Arm /\ tunnel = S!Drill /\ arm \notin {"grace", "relaunch"}
      BY <1>1 DEF Recovering
    <2>2. answered + owed[p] = Requested
      BY <1>1, <2>1 DEF Recovering
    <2>3. answered' <= Requested /\ answered' + (owed[p] - 1) = Requested
      BY <1>1, <1>2, <2>2
    <2>4. label = "close" => answered' = Requested
      BY <1>1, <1>2, <1>5, <2>2
    <2>5. arm = "wait" /\ cut => Found
      BY <1>1, <2>1 DEF Recovering
    <2>6. arm = "fail" => ~cut
      BY <2>1 DEF Recovering
    <2>. QED
      BY <1>1, <1>3, <1>6, <2>1, <2>3, <2>4, <2>5, <2>6 DEF Recovering, Found
  <1>. QED
    BY <1>6, <1>7

(* What ends a process: its error, its budget, its tunnel, a kill, its end *)
(* as planned.                                                             *)
LEMMA EndKeeps ==
    ASSUME S!StudyAssumption, KInv, NEW p \in Snipers,
           S!Raise(p) \/ S!Spend(p) \/ S!TunnelLost(p) \/ S!Kill(p) \/ S!Close(p)
    PROVE  KInv'
  <1>. USE DEF KInv
  <1>1. /\ answered \in Nat /\ failed \in Nat /\ waiting \in Bags /\ dead \in Bags
        /\ arm \in Phases /\ cut \in BOOLEAN /\ finished \in BOOLEAN /\ mishaps \in Nat
    BY DEF Counting, S!TypeOK, Bags, Phases
  <1>2. /\ S!Gone(p) /\ step[p] # "off" /\ UNCHANGED <<answered, waiting, arm, cut>>
        /\ failed' \in Nat /\ dead' \in Bags /\ mishaps' \in Nat
        /\ finished' \in BOOLEAN /\ (finished' => finished \/ answered >= Requested)
    <2>1. CASE S!Raise(p)
      BY <1>1, <2>1 DEF S!Raise, S!Reaches
    <2>2. CASE S!Spend(p)
      BY <1>1, <2>2 DEF S!Spend, S!Reaches, S!rows
    <2>3. CASE S!TunnelLost(p) \/ S!Kill(p)
      <3>1. S!Dies(p)
        BY <2>3 DEF S!TunnelLost, S!Kill
      <3>2. dead' \in Bags /\ UNCHANGED <<answered, failed, waiting>>
        BY <3>1, DyingCounts
      <3>. QED
        BY <1>1, <2>3, <3>1, <3>2 DEF S!TunnelLost, S!Kill, S!Dies
    <2>4. CASE S!Close(p)
      <3>1. answered >= Requested
        BY <2>4 DEF S!Close, S!Reaches, Counting, Owing
      <3>. QED
        BY <1>1, <2>4, <3>1 DEF S!Close, S!Reaches, S!rows
    <2>. QED
      BY <2>1, <2>2, <2>3, <2>4
  <1>3. /\ Counting' /\ step'[p] = "off"
        /\ tunnel' = IF tunnel = p THEN S!Nobody ELSE tunnel
        /\ \A q \in Snipers : q # p => step'[q] = step[q]
    <2>1. answered' \in Nat /\ answered' >= answered /\ waiting' \in Bags /\ arm' \in Phases
          /\ cut' \in BOOLEAN
      BY <1>1, <1>2
    <2>. QED
      BY <1>2, <2>1, GoneCounts DEF Phases
  <1>4. Recovering'
    <2>1. mishaps' = 0 => mishaps = 0 /\ ~S!Raise(p) /\ ~S!Spend(p)
      BY <1>1 DEF S!Raise, S!Spend, S!TunnelLost, S!Kill, S!Close
    <2>. SUFFICES ASSUME arm # "none", mishaps' = 0 PROVE Recovering'
      BY <1>2 DEF Recovering
    <2>2. p = S!Arm /\ tunnel = S!Drill /\ mishaps = 0
      BY <1>2, <2>1 DEF Recovering
    <2>3. S!Close(p)
      BY <2>1, <2>2 DEF S!TunnelLost, S!Kill, S!Nobody, S!Drill
    <2>4. /\ step[p] = "close" /\ UNCHANGED <<failed, dead>>
      BY <2>3 DEF S!Close, S!Reaches, S!rows
    <2>5. tunnel' = S!Drill
      <3>1. p # S!Drill
        BY DEF S!StudyAssumption
      <3>. QED
        BY <1>3, <2>2, <3>1
    <2>6. answered' <= Requested /\ arm \notin {"grace", "relaunch"} /\ (arm = "fail" => ~cut)
      BY <1>2, <2>2, <2>4 DEF Recovering
    <2>7. arm = "wait" /\ cut => Found /\ answered = Requested
      BY <2>2, <2>4 DEF Recovering
    <2>. QED
      BY <1>2, <1>3, <2>2, <2>4, <2>5, <2>6, <2>7 DEF Recovering, Found
  <1>. QED
    BY <1>3, <1>4

LEMMA DrillKillKeeps ==
    ASSUME S!StudyAssumption, KInv, S!Arm \in Snipers, S!DrillKills(S!Arm)
    PROVE  KInv'
  <1>. USE DEF KInv
  <1>. DEFINE p == S!Arm
  <1>1. /\ arm = "watch" /\ arm' = "grace" /\ step[p] # "off" /\ S!Gone(p) /\ S!Dies(p)
        /\ cut' = (p \in S!Fitting) /\ UNCHANGED <<finished, mishaps>>
    BY DEF S!DrillKills, S!Phase, S!Dies
  <1>2. /\ dead' \in Bags /\ UNCHANGED <<answered, failed, waiting>>
        /\ p \in S!Fitting => step[p] = "fit" /\ S!Size(dead') >= 1
    BY <1>1, DyingCounts
  <1>3. /\ Counting' /\ step'[p] = "off"
        /\ tunnel' = IF tunnel = p THEN S!Nobody ELSE tunnel
        /\ \A q \in Snipers : q # p => step'[q] = step[q]
    <2>1. /\ answered' \in Nat /\ answered' >= answered /\ failed' \in Nat /\ waiting' \in Bags
          /\ mishaps' \in Nat /\ finished' \in BOOLEAN /\ (finished' => finished)
      BY <1>1, <1>2 DEF Counting, S!TypeOK, Bags
    <2>2. cut' \in BOOLEAN
      BY <1>1
    <2>. QED
      BY <1>1, <1>2, <2>1, <2>2, GoneCounts
  <1>4. Recovering'
    <2>. SUFFICES ASSUME mishaps = 0 PROVE Recovering'
      BY <1>1 DEF Recovering
    <2>1. /\ tunnel = S!Drill /\ answered <= Requested
          /\ \A q \in Snipers : q # p => step[q] = "off"
          /\ step[p] = "fit" => answered + owed[p] = Requested
      BY <1>1 DEF Recovering
    <2>2. tunnel' = S!Drill
      <3>1. p # S!Drill
        BY DEF S!StudyAssumption
      <3>. QED
        BY <1>3, <2>1, <3>1
    <2>3. cut' => S!Size(dead') >= 1 /\ answered < Requested
      <3>. SUFFICES ASSUME cut' PROVE S!Size(dead') >= 1 /\ answered < Requested
        OBVIOUS
      <3>1. step[p] = "fit" /\ S!Size(dead') >= 1
        BY <1>1, <1>2
      <3>2. owed[p] >= 1 /\ owed[p] \in Int /\ answered \in Int /\ Requested \in Int
        BY <3>1 DEF Counting, Owing, S!TypeOK, S!StudyAssumption
      <3>. QED
        BY <2>1, <3>1, <3>2
    <2>. QED
      BY <1>1, <1>2, <1>3, <2>1, <2>2, <2>3 DEF Recovering, Lost
  <1>. QED
    BY <1>3, <1>4

(* A second arm that ended as planned leaves no row RUNNING: the verdict   *)
(* is against it only where the kill lost no row.                          *)
LEMMA VerdictKeeps ==
    ASSUME S!StudyAssumption, KInv, S!Arm \in Snipers, S!DrillVerdict
    PROVE  KInv'
  <1>. USE DEF KInv
  <1>1. /\ arm = "wait" /\ arm' = (IF S!DrillChecks THEN "pass" ELSE "fail")
        /\ \A p \in Snipers : step[p] = "off"
        /\ UNCHANGED <<answered, failed, waiting, dead, fits, step, owed, tunnel, cut,
                       finished, mishaps>>
    BY DEF S!DrillVerdict, S!Phase, S!rows
  <1>2. Counting'
    BY <1>1 DEF Counting, S!TypeOK, Owing
  <1>3. ASSUME mishaps = 0, cut PROVE S!DrillChecks
    <2>1. failed >= 1 /\ dead = S!Nothing /\ answered = Requested
      BY <1>1, <1>3 DEF Recovering, Found
    <2>2. S!Fitting = {}
      BY <1>1 DEF S!Fitting, Counting
    <2>3. S!Running = 0
      BY <2>1, <2>2, Sizes, SameModule, FS_EmptySet DEF S!Running
    <2>. QED
      BY <2>1, <2>3 DEF S!DrillChecks
  <1>4. Recovering'
    BY <1>1, <1>3 DEF Recovering
  <1>. QED
    BY <1>2, <1>4

LEMMA PhaseKeeps ==
    ASSUME S!StudyAssumption, KInv, S!Arm \in Snipers, S!DrillAborts \/ S!DrillWaits
    PROVE  KInv'
  <1>. USE DEF KInv
  <1>1. /\ \/ arm = "watch" /\ arm' = "aborted"
           \/ arm = "grace" /\ arm' = "relaunch"
        /\ UNCHANGED <<answered, failed, waiting, dead, fits, step, owed, tunnel, cut,
                       finished, mishaps>>
    BY DEF S!DrillAborts, S!DrillWaits, S!Phase, S!rows
  <1>2. Counting'
    BY <1>1 DEF Counting, S!TypeOK, Owing
  <1>3. Recovering'
    BY <1>1 DEF Recovering, Lost
  <1>. QED
    BY <1>2, <1>3

LEMMA StudyInit == ASSUME S!StudyAssumption, S!Init PROVE KInv
  <1>1. S!TypeOK
    <2>1. S!Nothing \in [S!Tries -> Nat]
      BY DEF S!Nothing
    <2>2. [p \in Snipers |-> S!Idle] \in [Snipers -> S!Tries \cup {S!Idle}]
      OBVIOUS
    <2>3. [p \in Snipers |-> 0] \in [Snipers -> 0 .. Requested]
      BY DEF S!StudyAssumption
    <2>4. tunnel \in {S!Nobody, S!Drill} /\ arm \in {"none", "launch"}
      BY DEF S!Init
    <2>. QED
      BY <2>1, <2>2, <2>3, <2>4 DEF S!Init, S!TypeOK
  <1>2. Counting
    BY <1>1 DEF S!Init, Counting, Owing
  <1>3. S!Arm \in Snipers
    BY DEF S!Arm, S!StudyAssumption
  <1>4. Recovering
    BY <1>3 DEF S!Init, Recovering, S!StudyAssumption
  <1>. QED
    BY <1>2, <1>4 DEF KInv

LEMMA StudyStep == ASSUME S!StudyAssumption, KInv, [S!Next]_S!vars PROVE KInv'
  <1>1. S!Arm \in Snipers
    BY DEF S!Arm, S!StudyAssumption
  <1>2. CASE UNCHANGED S!vars
    BY <1>2 DEF S!vars, S!rows, KInv, Counting, Owing, Recovering, Lost, Found, S!TypeOK
  <1>3. ASSUME NEW p \in Snipers,
               S!Launch(p) \/ S!SniperNext(p) \/ S!Raise(p) \/ S!Spend(p) \/ S!Kill(p)
        PROVE  KInv'
    BY <1>3, LaunchKeeps, OpenKeeps, AskKeeps, AnswerKeeps, EndKeeps DEF S!SniperNext
  <1>4. CASE S!DrillNext(S!Arm)
    BY <1>1, <1>4, LaunchKeeps, DrillKillKeeps, VerdictKeeps, PhaseKeeps DEF S!DrillNext
  <1>. QED
    BY <1>2, <1>3, <1>4 DEF S!Next

LEMMA StudyHolds == ASSUME S!StudyAssumption, KInv PROVE ResumeIsSound
  <1>1. S!TypeOK /\ S!NothingOwedIsLost
    BY DEF KInv, Counting, S!NothingOwedIsLost
  <1>2. S!DrillRecovers
    <2>1. mishaps \in Nat
      BY DEF KInv, Counting
    <2>. QED
      BY <2>1 DEF KInv, Recovering, S!DrillRecovers
  <1>. QED
    BY <1>1, <1>2 DEF ResumeIsSound, S!ResumeIsSound

(* Whatever runs are killed, raise, spend their budget or lose the tunnel, *)
(* one that ends as planned leaves as many trials answered as were         *)
(* requested; and a search that the drill kills in the middle of a fit     *)
(* passes the drill unless a fit raised.                                   *)
THEOREM ResumesSound ==
    ASSUME S!StudyAssumption
    PROVE  S!Init /\ [][S!Next]_S!vars => []ResumeIsSound
  <1>1. S!Init => KInv
    BY StudyInit
  <1>2. KInv /\ [S!Next]_S!vars => KInv'
    BY StudyStep
  <1>3. KInv => ResumeIsSound
    BY StudyHolds
  <1>. QED
    BY <1>1, <1>2, <1>3, PTL

(* A process that searches alone owes exactly what is missing.             *)
Exact ==
    /\ Counting /\ answered <= Requested
    /\ \A p \in Snipers : step[p] \in {"ask", "fit"} => answered + owed[p] = Requested

LEMMA ExactStep ==
    ASSUME S!StudyAssumption, NEW p, Snipers = {p}, KInv, Exact, [S!Next]_S!vars
    PROVE  Exact'
  <1>. USE DEF Exact
  <1>1. Counting' /\ S!Arm = p /\ p \in Snipers
    BY StudyStep DEF KInv, S!Arm, S!StudyAssumption
  <1>2. /\ answered \in Nat /\ Requested \in Nat /\ owed \in [Snipers -> 0 .. Requested]
        /\ step \in [Snipers -> {"off", "open", "ask", "fit", "close"}]
    BY DEF Counting, S!TypeOK, S!StudyAssumption
  <1>3. CASE UNCHANGED <<answered, owed, step>>
    BY <1>1, <1>3
  <1>4. CASE S!Start(p)
    BY <1>1, <1>2, <1>4 DEF S!Start, S!Goto, S!rows
  <1>5. CASE S!OpenStudy(p)
    <2>1. /\ owed' = [owed EXCEPT ![p] = S!Owed] /\ UNCHANGED answered
          /\ step' = [step EXCEPT ![p] = IF S!Owed = 0 THEN "close" ELSE "ask"]
      BY <1>5 DEF S!OpenStudy, S!Goto, S!rows
    <2>2. answered + S!Owed = Requested
      BY <1>2 DEF S!Owed
    <2>. QED
      BY <1>1, <1>2, <2>1, <2>2
  <1>6. CASE S!Ask(p)
    <2>1. /\ step[p] = "ask" /\ UNCHANGED <<answered, owed>>
      BY <1>6 DEF S!Ask, S!Reaches
    <2>. QED
      BY <1>1, <1>2, <2>1
  <1>7. CASE S!Answer(p)
    <2>1. /\ step[p] = "fit" /\ answered' = answered + 1
          /\ owed' = [owed EXCEPT ![p] = owed[p] - 1]
      BY <1>7 DEF S!Answer, S!Reaches
    <2>2. owed[p] >= 1 /\ answered + owed[p] = Requested
      BY <1>1, <2>1 DEF Counting, Owing
    <2>. QED
      BY <1>1, <1>2, <2>1, <2>2
  <1>8. CASE S!TunnelLost(p) \/ S!Raise(p) \/ S!Spend(p) \/ S!Kill(p) \/ S!Close(p)
             \/ S!DrillKills(p)
    <2>1. S!Gone(p) /\ UNCHANGED answered
      BY <1>8 DEF S!TunnelLost, S!Raise, S!Spend, S!Kill, S!Close, S!DrillKills, S!Dies, S!rows
    <2>. QED
      BY <1>1, <1>2, <2>1 DEF S!Gone
  <1>. QED
    BY <1>1, <1>3, <1>4, <1>5, <1>6, <1>7, <1>8
    DEF S!Next, S!SniperNext, S!DrillNext, S!Launch, S!DrillLaunch, S!DrillAborts, S!DrillWaits,
        S!DrillVerdict, S!vars, S!rows

(* One process after the other, however often it is killed, raises or runs *)
(* out of budget, never answers more than was requested: what a resumed    *)
(* run owes counts what the killed ones have answered.                     *)
THEOREM NothingIsAskedTwice ==
    ASSUME S!StudyAssumption, NEW p, Snipers = {p}
    PROVE  S!Init /\ [][S!Next]_S!vars => [](answered <= Requested)
  <1>1. S!Init => KInv /\ Exact
    <2>1. S!Init => KInv
      BY StudyInit
    <2>. QED
      BY <2>1 DEF S!Init, KInv, Exact, S!StudyAssumption
  <1>2. KInv /\ Exact /\ [S!Next]_S!vars => KInv' /\ Exact'
    BY StudyStep, ExactStep
  <1>3. Exact => answered <= Requested
    BY DEF Exact
  <1>. QED
    BY <1>1, <1>2, <1>3, PTL

-----------------------------------------------------------------------------
(***************************************************************************)
(* The two together, as MCPlatform runs them.                              *)
(***************************************************************************)
LEMMA OneOfTheTwo == ASSUME [EitherNext]_either PROVE [Next]_vars /\ [S!Next]_S!vars
  <1>1. CASE UNCHANGED either
    BY <1>1 DEF either, study, S!vars, S!rows
  <1>2. CASE UNCHANGED study /\ Next
    BY <1>2 DEF study, S!vars, S!rows
  <1>3. CASE UNCHANGED vars /\ S!Next
    BY <1>3
  <1>4. EitherNext => (UNCHANGED study /\ Next) \/ (UNCHANGED vars /\ S!Next)
    BY DEF EitherNext, InCredentials, InStudy, Next, RotationStep, DrillStep,
           S!Next, S!SniperNext, S!DrillNext
  <1>. QED
    BY <1>1, <1>2, <1>3, <1>4

(* Of every behaviour of the system that MCPlatform checks: a rotation     *)
(* leaves no place behind, and a study no question, whichever runs.        *)
THEOREM PlatformIsSafe ==
    ASSUME CredentialsAssumption, S!StudyAssumption
    PROVE  EitherSpec => [](AccessIsKept /\ ResumeIsSound)
  <1>1. EitherInit => CInv /\ KInv
    BY CredentialsInit, StudyInit DEF EitherInit
  <1>2. CInv /\ KInv /\ [EitherNext]_either => CInv' /\ KInv'
    BY OneOfTheTwo, CredentialsStep, StudyStep
  <1>3. CInv /\ KInv => AccessIsKept /\ ResumeIsSound
    BY CredentialsHold, StudyHolds
  <1>. QED
    BY <1>1, <1>2, <1>3, PTL DEF EitherSpec
=============================================================================
