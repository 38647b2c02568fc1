----------------------------- MODULE MCPlatform -----------------------------
(***************************************************************************)
(* One run for two systems of long-running commands that are killed and    *)
(* run again: the rotation of the credentials and the hyper-parameter      *)
(* study.  They share no state, so a behaviour is of one of them, the      *)
(* other's variables staying as they are.                                  *)
(***************************************************************************)
EXTENDS Credentials

CONSTANTS Snipers, Requested, KillAfter, MaxRetry, MaxKills, MaxMishaps

VARIABLES
    of,     \* "credentials" or "study"
    answered, failed, waiting, dead, fits, step, owed, tunnel, arm, cut,
    finished, killed, mishaps

study == <<answered, failed, waiting, dead, fits, step, owed, tunnel, arm, cut,
           finished, killed, mishaps>>
either == <<of, vars, study>>

S == INSTANCE Study WITH drill <- arm, left <- owed, kills <- killed,
                         troubles <- mishaps, MaxTroubles <- MaxMishaps

ASSUME ConstantsAssumption == S!StudyAssumption

MCChoices == {Families, Families \ {"postgres"}, {"postgres"},
              {"minio_users", "metabase_admin"}}

EitherInit ==
    /\ of \in {"credentials", "study"}
    /\ Init /\ S!Init
    /\ of = "credentials" => arm = "none"

InCredentials(A) == of = "credentials" /\ A /\ UNCHANGED <<of, study>>
InStudy(A) == of = "study" /\ A /\ UNCHANGED <<of, vars>>

EitherNext ==
    \/ \E F \in Choices : InCredentials(Start(F))
    \/ InCredentials(NextFamily)
    \/ InCredentials(PostgresEnv) \/ InCredentials(PostgresRecipe)
    \/ InCredentials(PostgresSuperuser)
    \/ InCredentials(ListUsers) \/ InCredentials(\E u \in MinioUsers : Reissue(u))
    \/ InCredentials(UsersEnv)
    \/ InCredentials(RootEnv) \/ InCredentials(RestartMinio)
    \/ InCredentials(GrafanaEnv) \/ InCredentials(ApplySecrets)
    \/ InCredentials(AdminPassword) \/ InCredentials(AdminEnv)
    \/ InCredentials(Checkpoint)
    \/ \E c \in DOMAIN DrainOrder : InCredentials(Drain(c))
    \/ InCredentials(Finish) \/ InCredentials(KillRotation)
    \/ InCredentials(CopyAside) \/ InCredentials(VerifyOldRefused)
    \/ InCredentials(DestroyPreRotation)
    \/ \E w \in {"predictor", "root", "grafana", "mlflow", "metabase"} :
          InCredentials(Evict(w))
    \/ InCredentials(Capture) \/ InCredentials(Inject) \/ InCredentials(DeletePod)
    \/ InCredentials(Undo) \/ InCredentials(Fallback) \/ InCredentials(KillDrill)
    \/ \E p \in Snipers :
          \/ InStudy(S!Launch(p)) \/ InStudy(S!TunnelLost(p)) \/ InStudy(S!OpenStudy(p))
          \/ InStudy(S!Ask(p)) \/ InStudy(S!Answer(p)) \/ InStudy(S!Close(p))
          \/ InStudy(S!Raise(p)) \/ InStudy(S!Spend(p)) \/ InStudy(S!Kill(p))
    \/ InStudy(S!DrillLaunch(S!Arm)) \/ InStudy(S!DrillAborts)
    \/ InStudy(S!DrillKills(S!Arm)) \/ InStudy(S!DrillWaits) \/ InStudy(S!DrillVerdict)

(* The fairness of Credentials.FairSpec and of Study.FairSpec.             *)
EitherSpec ==
    /\ EitherInit /\ [][EitherNext]_either
    /\ WF_either(InCredentials(RotationStep)) /\ WF_either(InCredentials(DrillStep))
    /\ \A p \in Snipers : WF_either(InStudy(S!SniperNext(p)))
    /\ WF_either(InStudy(\E p \in Snipers : S!Launch(p)))

(* Study.ResumeIsSound.                                                    *)
ResumeIsSound == S!ResumeIsSound
(* Study.StudyFills, of a study.                                           *)
StudyFills == (of = "study" /\ arm = "none") ~> answered >= Requested
=============================================================================
