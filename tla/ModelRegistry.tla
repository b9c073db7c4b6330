--------------------------- MODULE ModelRegistry ---------------------------
(***************************************************************************)
(* The life of a trained model after its training job: the scripts         *)
(* submit_job.py, deploy.py and promote_model.py (ml/training,             *)
(* ml/deployment), each environment's private bucket and SageMaker Model   *)
(* Registry, and the endpoint MlHostingStack creates from a registered     *)
(* version.                                                                *)
(*                                                                         *)
(* A script is a person's shell command: several may run at once, each     *)
(* reads and writes S3 and the registry in separate calls, minutes apart,  *)
(* and may die between two of them.  Of an artifact the model keeps whose  *)
(* weights it has and which revision of code/inference.py was packed with  *)
(* them; of a model package what CreateModelPackage is given.              *)
(***************************************************************************)
EXTENDS Naturals, Sequences

CONSTANTS
  Envs,          \* environments, each an AWS account
  TrainingEnv,   \* the one that trains (--environment of submit_job.py)
  Jobs,          \* bound: training jobs ever submitted
  RunIdOf,       \* the --run-id of each job
  Scripts,       \* shells that can run a script
  MaxRevision,   \* bound: revisions of ml/deployment/inference.py
  MaxCommands,   \* bound: scripts ever started
  None           \* no object, no endpoint, not promoted

ASSUME TrainingEnvAssumption == TrainingEnv \in Envs

ASSUME BoundsAssumption == MaxRevision \in Nat \ {0} /\ MaxCommands \in Nat

VARIABLES
  revision,      \* of inference.py in the working tree
  jobs,          \* status of each training job
  objects,       \* the object of each environment's bucket under each key
  packages,      \* each environment's model package group, by version
  script,        \* what each shell is running
  commands,      \* how many scripts have been started
  endpoint,      \* what each environment's endpoint runs
  wasApproved    \* history: versions that have ever been Approved

vars ==
  <<revision, jobs, objects, packages, script, commands, endpoint, wasApproved>>

RunIds == {RunIdOf[j] : j \in Jobs}

TrainingKey(job) == <<"model-artifacts", job>>

(* Two mutants: one key for every run, and a key among the training jobs'. *)
Shared_InferenceKey(run) ==
  <<"inference-artifacts", CHOOSE r \in RunIds : TRUE>>

AtTraining_InferenceKey(run) ==
  TrainingKey(CHOOSE j \in Jobs : RunIdOf[j] = run)

InferenceKey(run) == <<"inference-artifacts", run>>

PromotedKey(run) == <<"promoted-artifacts", run>>

Keys ==
  {TrainingKey(j) : j \in Jobs}
    \cup {InferenceKey(r) : r \in RunIds} \cup {PromotedKey(r) : r \in RunIds}

Raw == 0   \* no code/ directory: the output of a training job

Artifacts == [job : Jobs, code : Nat]

Origins == [env : Envs, version : Nat \ {0}]

Endpoints == [version : Nat \ {0}, artifact : Artifacts]

ASSUME NoneAssumption == None \notin Artifacts \cup Origins \cup Endpoints

Images == {"training", "inference"}

Approvals == {"PendingManualApproval", "Approved", "Rejected"}

(* card stands for the BLEU and chrF parsed from the model card, run for   *)
(* the run identifiers, from for the two promoted_from_ fields.            *)
Packages ==
  [image : Images, url : Keys, approval : Approvals, card : Jobs,
   run : RunIds, from : Origins \cup {None}]

Idle == [at |-> "idle"]

(* A running script: the call it makes next, the environment it registers  *)
(* in, the artifact in its temporary directory, the package it prepares.   *)
Running(at, env, data, pkg) ==
  [at |-> at, env |-> env, data |-> data, pkg |-> pkg]

RunningScripts ==
  [at : {"wait", "card", "build", "fetch", "upload", "create"}, env : Envs,
   data : Artifacts \cup {None}, pkg : Packages]

Init ==
  /\ revision = 1
  /\ jobs = [j \in Jobs |-> "new"]
  /\ objects = [e \in Envs |-> [k \in Keys |-> None]]
  /\ packages = [e \in Envs |-> <<>>]
  /\ script = [s \in Scripts |-> Idle]
  /\ commands = 0
  /\ endpoint = [e \in Envs |-> None]
  /\ wasApproved = [e \in Envs |-> {}]

Start(s) ==
  /\ script[s] = Idle
  /\ commands < MaxCommands
  /\ commands' = commands + 1

-----------------------------------------------------------------------------
(* submit_job.py *)

(* --approval-status has its default here and in Deploy: another value is  *)
(* the default and a Review at once.                                       *)
TrainingPackage(job) ==
  [image |-> "training", url |-> TrainingKey(job),
   approval |-> "PendingManualApproval", card |-> job, run |-> RunIdOf[job],
   from |-> None]

(* With --no-wait or --no-register the script is done once the job is      *)
(* created.                                                                *)
Submit(s, job, register) ==
  /\ Start(s)
  /\ jobs[job] = "new"
  /\ jobs' = [jobs EXCEPT ![job] = "running"]
  /\ script' = IF register
       THEN [script EXCEPT ![s] = Running("wait", TrainingEnv, None,
                                          TrainingPackage(job))]
       ELSE script
  /\ UNCHANGED <<revision, objects, packages, endpoint, wasApproved>>

(* train(wait=True) returns when the job completes and raises when it      *)
(* fails.                                                                  *)
AwaitTraining(s) ==
  /\ script[s].at = "wait"
  /\ \/ /\ jobs[script[s].pkg.card] = "completed"
        /\ script' = [script EXCEPT ![s].at = "card"]
     \/ /\ jobs[script[s].pkg.card] = "failed"
        /\ script' = [script EXCEPT ![s] = Idle]
  /\ UNCHANGED <<revision, jobs, objects, packages, commands, endpoint, wasApproved>>

(* --register-existing: any completed job, registered before or not.       *)
RegisterExisting(s, job) ==
  /\ Start(s)
  /\ jobs[job] = "completed"
  /\ script' = [script EXCEPT ![s] = Running("card", TrainingEnv, None,
                                             TrainingPackage(job))]
  /\ UNCHANGED <<revision, jobs, objects, packages, endpoint, wasApproved>>

FetchModelCard(s) ==
  /\ script[s].at = "card"
  /\ LET artifact == objects[script[s].env][script[s].pkg.url]
     IN script' = [script EXCEPT ![s].at = "create",
                                 ![s].pkg.card = artifact.job]
  /\ UNCHANGED <<revision, jobs, objects, packages, commands, endpoint, wasApproved>>

-----------------------------------------------------------------------------
(* deploy.py *)

(* Download the artifact, read its card.  The run id is the card's.        *)
Deploy(s, env, key) ==
  /\ Start(s)
  /\ objects[env][key] # None
  /\ LET artifact == objects[env][key]
         run == RunIdOf[artifact.job]
         pkg == [image |-> "inference", url |-> InferenceKey(run),
                 approval |-> "Approved", card |-> artifact.job, run |-> run,
                 from |-> None]
     IN script' = [script EXCEPT ![s] = Running("build", env, artifact, pkg)]
  /\ UNCHANGED <<revision, jobs, objects, packages, endpoint, wasApproved>>

(* Add the working tree's inference code as code/.  copytree refuses an    *)
(* artifact that already has one.                                          *)
Repackage(s) ==
  /\ script[s].at = "build"
  /\ script' = IF script[s].data.code = Raw
       THEN [script EXCEPT ![s].at = "upload", ![s].data.code = revision]
       ELSE [script EXCEPT ![s] = Idle]
  /\ UNCHANGED <<revision, jobs, objects, packages, commands, endpoint, wasApproved>>

-----------------------------------------------------------------------------
(* promote_model.py *)

(* Mutant: ensure_approved is not called.                                  *)
Unreviewed_Promote(s, source, version, target) ==
  /\ Start(s)
  /\ LET pkg == [packages[source][version] EXCEPT
                   !.from = [env |-> source, version |-> version]]
     IN script' = [script EXCEPT ![s] =
                     Running("fetch", target, None, pkg)]
  /\ UNCHANGED <<revision, jobs, objects, packages, endpoint, wasApproved>>

(* DescribeModelPackage and ensure_approved; any other status ends the     *)
(* script with nothing done.                                               *)
Promote(s, source, version, target) ==
  /\ Start(s)
  /\ packages[source][version].approval = "Approved"
  /\ LET pkg == [packages[source][version] EXCEPT
                   !.from = [env |-> source, version |-> version]]
     IN script' = [script EXCEPT ![s] =
                     Running("fetch", target, None, pkg)]
  /\ UNCHANGED <<revision, jobs, objects, packages, endpoint, wasApproved>>

(* Download from the source's ModelDataUrl; what follows names the copy.   *)
DownloadSource(s) ==
  /\ script[s].at = "fetch"
  /\ LET pkg == script[s].pkg
     IN script' = [script EXCEPT
                     ![s].at = "upload",
                     ![s].data = objects[pkg.from.env][pkg.url],
                     ![s].pkg.url = PromotedKey(pkg.run)]
  /\ UNCHANGED <<revision, jobs, objects, packages, commands, endpoint, wasApproved>>

-----------------------------------------------------------------------------
(* The last calls of the three scripts, and a script that dies *)

(* Mutant: an upload that fails is only logged.                            *)
Logged_Upload(s) ==
  /\ script[s].at = "upload"
  /\ \/ objects' = [objects EXCEPT ![script[s].env][script[s].pkg.url] =
                                     script[s].data]
     \/ UNCHANGED objects
  /\ script' = [script EXCEPT ![s].at = "create"]
  /\ UNCHANGED <<revision, jobs, packages, commands, endpoint, wasApproved>>

(* upload_file puts the object over whatever the key held.                 *)
Upload(s) ==
  /\ script[s].at = "upload"
  /\ objects' = [objects EXCEPT ![script[s].env][script[s].pkg.url] =
                                  script[s].data]
  /\ script' = [script EXCEPT ![s].at = "create"]
  /\ UNCHANGED <<revision, jobs, packages, commands, endpoint, wasApproved>>

NoteApproval(env, version, approval) ==
  wasApproved' = IF approval = "Approved"
                   THEN [wasApproved EXCEPT ![env] = @ \cup {version}]
                   ELSE wasApproved

CreateModelPackage(s) ==
  /\ script[s].at = "create"
  /\ LET env == script[s].env
         pkg == script[s].pkg
     IN /\ packages' = [packages EXCEPT ![env] = Append(@, pkg)]
        /\ NoteApproval(env, Len(packages[env]) + 1, pkg.approval)
  /\ script' = [script EXCEPT ![s] = Idle]
  /\ UNCHANGED <<revision, jobs, objects, commands, endpoint>>

(* Ctrl-C, an expired session, a failed call: no script can be resumed.    *)
Die(s) ==
  /\ script[s] # Idle
  /\ script' = [script EXCEPT ![s] = Idle]
  /\ UNCHANGED <<revision, jobs, objects, packages, commands, endpoint, wasApproved>>

-----------------------------------------------------------------------------
(* SageMaker, the pipeline and the people *)

(* Mutant: the status in SageMaker's own spelling, which nothing expects.  *)
Capital_TrainingEnds(job) ==
  /\ jobs[job] = "running"
  /\ jobs' = [jobs EXCEPT ![job] = "Completed"]
  /\ objects' = [objects EXCEPT ![TrainingEnv][TrainingKey(job)] =
                                  [job |-> job, code |-> Raw]]
  /\ UNCHANGED <<revision, packages, script, commands, endpoint, wasApproved>>

TrainingEnds(job) ==
  /\ jobs[job] = "running"
  /\ \/ /\ jobs' = [jobs EXCEPT ![job] = "completed"]
        /\ objects' = [objects EXCEPT ![TrainingEnv][TrainingKey(job)] =
                                        [job |-> job, code |-> Raw]]
     \/ /\ jobs' = [jobs EXCEPT ![job] = "failed"]
        /\ UNCHANGED objects
  /\ UNCHANGED <<revision, packages, script, commands, endpoint, wasApproved>>

(* A reviewer changes the status of a registered version.                  *)
Review(env, version, approval) ==
  /\ packages[env][version].approval # approval
  /\ packages' = [packages EXCEPT ![env][version].approval = approval]
  /\ NoteApproval(env, version, approval)
  /\ UNCHANGED <<revision, jobs, objects, script, commands, endpoint>>

EditInferenceCode ==
  /\ revision < MaxRevision
  /\ revision' = revision + 1
  /\ UNCHANGED <<jobs, objects, packages, script, commands, endpoint, wasApproved>>

(* MODEL_PACKAGE_VERSION_BY_ENVIRONMENT is set and the stack deployed.     *)
(* CloudFormation rolls back to what ran before unless the version is      *)
(* Approved and its image an inference image.                              *)
Host(env, version) ==
  /\ packages[env][version].approval = "Approved"
  /\ packages[env][version].image = "inference"
  /\ endpoint' = [endpoint EXCEPT ![env] =
                    [version |-> version,
                     artifact |-> objects[env][packages[env][version].url]]]
  /\ UNCHANGED <<revision, jobs, objects, packages, script, commands, wasApproved>>

(* The serverless endpoint reads ModelDataUrl again at every cold start.   *)
ColdStart(env) ==
  /\ endpoint[env] # None
  /\ LET url == packages[env][endpoint[env].version].url
     IN endpoint' = [endpoint EXCEPT ![env].artifact = objects[env][url]]
  /\ UNCHANGED <<revision, jobs, objects, packages, script, commands, wasApproved>>

-----------------------------------------------------------------------------

ScriptStep(s) ==
  \/ \E job \in Jobs :
       \/ \E register \in BOOLEAN : Submit(s, job, register)
       \/ RegisterExisting(s, job)
  \/ AwaitTraining(s)
  \/ FetchModelCard(s)
  \/ \E env \in Envs, key \in Keys : Deploy(s, env, key)
  \/ Repackage(s)
  \/ \E source, target \in Envs : \E version \in DOMAIN packages[source] :
       Promote(s, source, version, target)
  \/ DownloadSource(s)
  \/ Upload(s)
  \/ CreateModelPackage(s)
  \/ Die(s)

Next ==
  \/ \E s \in Scripts : ScriptStep(s)
  \/ \E job \in Jobs : TrainingEnds(job)
  \/ EditInferenceCode
  \/ \E env \in Envs : ColdStart(env)
  \/ \E env \in Envs : \E version \in DOMAIN packages[env] :
       \/ \E approval \in {"Approved", "Rejected"} :
            Review(env, version, approval)
       \/ Host(env, version)

Spec == Init /\ [][Next]_vars

-----------------------------------------------------------------------------

(* Every variable has its type; the bounds are respected. *)
TypeOK ==
  /\ revision \in 1 .. MaxRevision
  /\ jobs \in [Jobs -> {"new", "running", "completed", "failed"}]
  /\ objects \in [Envs -> [Keys -> Artifacts \cup {None}]]
  /\ packages \in [Envs -> Seq(Packages)]
  /\ script \in [Scripts -> RunningScripts \cup {Idle}]
  /\ commands \in 0 .. MaxCommands
  /\ endpoint \in [Envs -> Endpoints \cup {None}]
  /\ wasApproved \in [Envs -> SUBSET (Nat \ {0})]

RunIdsDistinct == \A j, k \in Jobs : RunIdOf[j] = RunIdOf[k] => j = k

(* Whatever runs at the same time and dies, the object a registered        *)
(* version points at exists and is of the run its metadata names; when no  *)
(* run id was used twice, it is the very weights whose BLEU and chrF the   *)
(* version carries (uploads before registrations in the three scripts,     *)
(* and keys built from the run id).                                        *)
MetadataDescribesArtifact ==
  \A env \in Envs : \A version \in DOMAIN packages[env] :
    LET pkg == packages[env][version]
        artifact == objects[env][pkg.url]
    IN /\ artifact # None
       /\ RunIdOf[artifact.job] = pkg.run
       /\ RunIdsDistinct => artifact.job = pkg.card

(* A promoted version names where it came from: that version exists, has   *)
(* the same image and metadata, and was Approved at some time, although    *)
(* its status may have changed since ensure_approved read it.              *)
ProvenanceIsTrue ==
  \A env \in Envs : \A version \in DOMAIN packages[env] :
    LET pkg == packages[env][version]
    IN pkg.from # None =>
         /\ pkg.from.version \in wasApproved[pkg.from.env]
         /\ LET origin == packages[pkg.from.env][pkg.from.version]
            IN /\ origin.image = pkg.image
               /\ origin.card = pkg.card
               /\ origin.run = pkg.run

(* However often deploy.py and promote_model.py replace objects, what an   *)
(* endpoint has loaded is of the run its version's metadata names.         *)
EndpointRunsItsVersion ==
  \A env \in Envs :
    endpoint[env] # None =>
      /\ endpoint[env].version \in wasApproved[env]
      /\ LET pkg == packages[env][endpoint[env].version]
         IN RunIdOf[endpoint[env].artifact.job] = pkg.run

(* The artifact of a training job is never modified: the other scripts     *)
(* write under prefixes of their own (build_inference_artifact_key).       *)
TrainingArtifactsAreKept ==
  [][\A job \in Jobs :
       LET kept == objects[TrainingEnv][TrainingKey(job)]
       IN kept # None =>
            objects'[TrainingEnv][TrainingKey(job)] = kept]_vars

(* The rollback runbook: the registry keeps every promoted version, a      *)
(* promotion overwrites none, and pinning the previous version again       *)
(* brings the previous model back.                                         *)
PromotionsAreKept ==
  [][\A env \in Envs : \A version \in DOMAIN packages[env] :
       LET pkg == packages[env][version]
       IN pkg.from # None =>
            objects'[env][pkg.url] = objects[env][pkg.url]]_vars
=============================================================================
