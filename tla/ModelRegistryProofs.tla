------------------------ MODULE ModelRegistryProofs ------------------------
(***************************************************************************)
(* Proofs about ModelRegistry, for any number of environments, training    *)
(* jobs, scripts at once, commands and code revisions, and for any run     *)
(* ids, also one that names several jobs.                                  *)
(***************************************************************************)
EXTENDS ModelRegistry, SequenceTheorems, TLAPS

(* The run a key of a bucket belongs to. *)
RunOfKey(key) ==
  IF key[1] = "model-artifacts" THEN RunIdOf[key[2]] ELSE key[2]

(* The keys of the three scripts are keys, belong to the run they are      *)
(* built from, and a training job's is no other script's.                  *)
LEMMA KeyFacts ==
  /\ \A j \in Jobs : /\ TrainingKey(j) \in Keys
                     /\ RunIdOf[j] \in RunIds
                     /\ RunOfKey(TrainingKey(j)) = RunIdOf[j]
  /\ \A r \in RunIds : /\ InferenceKey(r) \in Keys
                       /\ PromotedKey(r) \in Keys
                       /\ RunOfKey(InferenceKey(r)) = r
                       /\ RunOfKey(PromotedKey(r)) = r
  /\ \A j \in Jobs, r \in RunIds : /\ TrainingKey(j) # InferenceKey(r)
                                   /\ TrainingKey(j) # PromotedKey(r)
<1>1. \A j \in Jobs : TrainingKey(j)[1] = "model-artifacts" /\ TrainingKey(j)[2] = j
  BY DEF TrainingKey
<1>2. \A r \in RunIds : /\ InferenceKey(r)[1] = "inference-artifacts"
                        /\ InferenceKey(r)[2] = r
                        /\ PromotedKey(r)[1] = "promoted-artifacts"
                        /\ PromotedKey(r)[2] = r
  BY DEF InferenceKey, PromotedKey
<1>3. "inference-artifacts" # "model-artifacts" /\ "promoted-artifacts" # "model-artifacts"
  OBVIOUS
<1>4. \A j \in Jobs : TrainingKey(j) \in Keys /\ RunIdOf[j] \in RunIds
  BY DEF Keys, RunIds
<1>5. \A r \in RunIds : InferenceKey(r) \in Keys /\ PromotedKey(r) \in Keys
  BY DEF Keys
<1> QED
  BY <1>1, <1>2, <1>3, <1>4, <1>5 DEF RunOfKey

-----------------------------------------------------------------------------
(* The inductive invariant.                                                *)

(* An object is of the run its key belongs to. *)
ObjectsOfTheirRun ==
  \A env \in Envs, key \in Keys :
    objects[env][key] # None => RunIdOf[objects[env][key].job] = RunOfKey(key)

(* Completed jobs, and no others, have their artifact. *)
CompletedJobsHaveArtifacts ==
  \A job \in Jobs :
    jobs[job] = "completed" <=> objects[TrainingEnv][TrainingKey(job)] # None

(* What a package says of itself is of one run. *)
Sound(pkg) ==
  /\ pkg.run = RunIdOf[pkg.card]
  /\ RunOfKey(pkg.url) = pkg.run

(* A promoted package agrees with the version it comes from. *)
HasOrigin(pkg, registry, approved) ==
  pkg.from # None =>
    /\ pkg.from.version \in DOMAIN registry[pkg.from.env]
    /\ pkg.from.version \in approved[pkg.from.env]
    /\ registry[pkg.from.env][pkg.from.version].image = pkg.image
    /\ registry[pkg.from.env][pkg.from.version].card = pkg.card
    /\ registry[pkg.from.env][pkg.from.version].run = pkg.run

(* Every registered version is sound, its artifact exists, its origin is   *)
(* true, and an approval has been noted.                                   *)
PackagesInv ==
  \A env \in Envs : \A version \in DOMAIN packages[env] :
    LET pkg == packages[env][version]
    IN /\ Sound(pkg)
       /\ objects[env][pkg.url] # None
       /\ HasOrigin(pkg, packages, wasApproved)
       /\ pkg.approval = "Approved" => version \in wasApproved[env]

(* What a running script carries from one call to the next agrees with the *)
(* buckets and registries.                                                 *)
Carries(run, store, registry, approved) ==
  /\ Sound(run.pkg)
  /\ HasOrigin(run.pkg, registry, approved)
  /\ run.at = "wait" => /\ run.env = TrainingEnv
                        /\ run.pkg.url = TrainingKey(run.pkg.card)
  /\ run.at \in {"wait", "card"} => run.pkg.from = None
  /\ run.at \in {"card", "create"} => store[run.env][run.pkg.url] # None
  /\ run.at \in {"build", "upload"} =>
       /\ run.data # None /\ RunIdOf[run.data.job] = run.pkg.run
       /\ \A job \in Jobs : run.pkg.url # TrainingKey(job)
  /\ run.at = "fetch" =>
       run.pkg.from # None /\ store[run.pkg.from.env][run.pkg.url] # None

(* It stays so although others run in between. *)
ScriptsInv ==
  \A s \in Scripts :
    script[s] # Idle => Carries(script[s], objects, packages, wasApproved)

(* An endpoint runs an artifact of the run of the version it hosts. *)
EndpointsInv ==
  \A env \in Envs :
    endpoint[env] # None =>
      /\ endpoint[env].version \in DOMAIN packages[env]
      /\ endpoint[env].version \in wasApproved[env]
      /\ RunIdOf[endpoint[env].artifact.job] =
           packages[env][endpoint[env].version].run

Inv ==
  /\ TypeOK
  /\ ObjectsOfTheirRun
  /\ CompletedJobsHaveArtifacts
  /\ PackagesInv
  /\ ScriptsInv
  /\ EndpointsInv

(* The initial state has the invariant. *)
LEMMA InvInit == Init => Inv
<1> SUFFICES ASSUME Init PROVE Inv
  OBVIOUS
<1> USE DEF Init
<1>1. TypeOK
  BY BoundsAssumption DEF TypeOK
<1>2. ObjectsOfTheirRun /\ CompletedJobsHaveArtifacts /\ EndpointsInv
  BY TrainingEnvAssumption, KeyFacts
     DEF ObjectsOfTheirRun, CompletedJobsHaveArtifacts, EndpointsInv
<1>3. PackagesInv /\ ScriptsInv
  BY DEF PackagesInv, ScriptsInv
<1> QED
  BY <1>1, <1>2, <1>3 DEF Inv

-----------------------------------------------------------------------------
(* Every step keeps the types.                                             *)

(* A version of a registry is a package. *)
LEMMA VersionFacts ==
  ASSUME TypeOK, NEW env \in Envs
  PROVE  /\ packages[env] \in Seq(Packages)
         /\ DOMAIN packages[env] = 1 .. Len(packages[env])
         /\ Len(packages[env]) \in Nat
         /\ \A version \in DOMAIN packages[env] :
              packages[env][version] \in Packages /\ version \in Nat \ {0}
BY DEF TypeOK

(* The artifact of a version is one. *)
LEMMA VersionArtifact ==
  ASSUME TypeOK, PackagesInv, NEW env \in Envs, NEW version \in DOMAIN packages[env]
  PROVE  /\ packages[env][version].url \in Keys
         /\ objects[env][packages[env][version].url] \in Artifacts
<1>1. packages[env][version].url \in Keys
  BY VersionFacts DEF Packages
<1>2. objects[env][packages[env][version].url] # None
  BY DEF PackagesInv
<1> QED
  BY <1>1, <1>2 DEF TypeOK

(* A running script is a record of its own kind. *)
LEMMA RunningFacts ==
  ASSUME TypeOK, NEW s \in Scripts, script[s] # Idle
  PROVE  script[s] \in RunningScripts
BY DEF TypeOK

(* What a review leaves of a package. *)
SameButStatus(pkg, later) ==
  /\ later.image = pkg.image /\ later.url = pkg.url /\ later.card = pkg.card
  /\ later.run = pkg.run /\ later.from = pkg.from

(* Reviewing a version leaves everything of it but its status. *)
LEMMA ReviewEffect ==
  ASSUME TypeOK, NEW env \in Envs, NEW version \in DOMAIN packages[env],
         NEW approval \in {"Approved", "Rejected"}, Review(env, version, approval)
  PROVE  /\ packages'[env] \in Seq(Packages)
         /\ DOMAIN packages'[env] = DOMAIN packages[env]
         /\ packages' \in [Envs -> Seq(Packages)]
         /\ \A e \in Envs : e # env => packages'[e] = packages[e]
         /\ \A v \in DOMAIN packages[env] :
              v # version => packages'[env][v] = packages[env][v]
         /\ SameButStatus(packages[env][version], packages'[env][version])
         /\ packages'[env][version].approval = approval
<1> DEFINE new == [packages[env][version] EXCEPT !.approval = approval]
<1>1. /\ new \in Packages
      /\ SameButStatus(packages[env][version], new)
      /\ new.approval = approval
  BY VersionFacts DEF Packages, Approvals, SameButStatus
<1>2. packages' = [packages EXCEPT ![env] = [packages[env] EXCEPT ![version] = new]]
  BY DEF Review
<1>3. packages'[env] = [packages[env] EXCEPT ![version] = new]
  BY <1>2 DEF TypeOK
<1> HIDE DEF new
<1>4. /\ packages'[env] \in Seq(Packages)
      /\ DOMAIN packages'[env] = DOMAIN packages[env]
      /\ packages'[env][version] = new
      /\ \A v \in DOMAIN packages[env] :
           v # version => packages'[env][v] = packages[env][v]
  <2>1. version \in 1 .. Len(packages[env]) /\ packages[env] \in Seq(Packages)
    BY VersionFacts
  <2> QED
    BY <1>1, <1>3, <2>1, ExceptSeq, VersionFacts
<1>5. \A e \in Envs : e # env => packages'[e] = packages[e]
  BY <1>2 DEF TypeOK
<1>6. packages' \in [Envs -> Seq(Packages)]
  BY <1>2, <1>3, <1>4 DEF TypeOK
<1> QED
  BY <1>1, <1>4, <1>5, <1>6

(* Registering appends the prepared package. *)
LEMMA CreateEffect ==
  ASSUME TypeOK, NEW s \in Scripts, CreateModelPackage(s)
  PROVE  LET env == script[s].env
             last == Len(packages[env]) + 1
         IN /\ script[s] \in RunningScripts
            /\ env \in Envs
            /\ last \in Nat \ {0}
            /\ packages' \in [Envs -> Seq(Packages)]
            /\ DOMAIN packages'[env] = DOMAIN packages[env] \cup {last}
            /\ packages'[env][last] = script[s].pkg
            /\ \A v \in DOMAIN packages[env] : packages'[env][v] = packages[env][v]
            /\ \A e \in Envs : e # env => packages'[e] = packages[e]
<1> DEFINE env == script[s].env
           pkg == script[s].pkg
<1>1. script[s] \in RunningScripts
  BY RunningFacts DEF CreateModelPackage, Idle
<1>2. env \in Envs /\ pkg \in Packages
  BY <1>1 DEF RunningScripts
<1>3. packages' = [packages EXCEPT ![env] = Append(packages[env], pkg)]
  BY DEF CreateModelPackage
<1>4. packages[env] \in Seq(Packages)
  BY <1>2, VersionFacts
<1>5. packages'[env] = Append(packages[env], pkg)
  BY <1>2, <1>3 DEF TypeOK
<1> HIDE DEF env, pkg
<1>6. /\ Append(packages[env], pkg) \in Seq(Packages)
      /\ DOMAIN Append(packages[env], pkg) = DOMAIN packages[env] \cup {Len(packages[env]) + 1}
      /\ Append(packages[env], pkg)[Len(packages[env]) + 1] = pkg
      /\ \A v \in DOMAIN packages[env] : Append(packages[env], pkg)[v] = packages[env][v]
  BY <1>2, <1>4
<1>7. packages' \in [Envs -> Seq(Packages)] /\ \A e \in Envs : e # env => packages'[e] = packages[e]
  BY <1>2, <1>3, <1>6 DEF TypeOK
<1> QED
  BY <1>1, <1>2, <1>4, <1>5, <1>6, <1>7 DEF env, pkg

(* The package a script starts with. *)
LEMMA TrainingPackageFacts ==
  \A job \in Jobs :
    LET pkg == TrainingPackage(job)
    IN /\ pkg \in Packages
       /\ Sound(pkg)
       /\ pkg.url = TrainingKey(job) /\ pkg.card = job /\ pkg.from = None
BY KeyFacts DEF TrainingPackage, Packages, Images, Approvals, Sound

(* NoteApproval keeps the type of the history and only adds to it. *)
LEMMA NoteApprovalEffect ==
  ASSUME TypeOK, NEW env \in Envs, NEW version \in Nat \ {0}, NEW approval,
         NoteApproval(env, version, approval)
  PROVE  /\ wasApproved' \in [Envs -> SUBSET (Nat \ {0})]
         /\ \A e \in Envs : wasApproved[e] \subseteq wasApproved'[e]
         /\ approval = "Approved" => version \in wasApproved'[env]
BY DEF TypeOK, NoteApproval

(* What Deploy prepares. *)
DeployPackage(artifact) ==
  [image |-> "inference", url |-> InferenceKey(RunIdOf[artifact.job]),
   approval |-> "Approved", card |-> artifact.job,
   run |-> RunIdOf[artifact.job], from |-> None]

LEMMA DeployEffect ==
  ASSUME TypeOK, NEW s \in Scripts, NEW env \in Envs, NEW key \in Keys,
         Deploy(s, env, key)
  PROVE  LET artifact == objects[env][key]
         IN /\ artifact \in Artifacts
            /\ DeployPackage(artifact) \in Packages
            /\ Sound(DeployPackage(artifact))
            /\ script' = [script EXCEPT ![s] = Running("build", env, artifact,
                                                       DeployPackage(artifact))]
<1>1. objects[env][key] \in Artifacts
  BY DEF Deploy, TypeOK
<1>2. script' = [script EXCEPT ![s] = Running("build", env, objects[env][key],
                                             DeployPackage(objects[env][key]))]
  BY DEF Deploy, DeployPackage
<1>3. objects[env][key].job \in Jobs
  BY <1>1 DEF Artifacts
<1>4. \A job \in Jobs :
        LET pkg == [image |-> "inference", url |-> InferenceKey(RunIdOf[job]),
                    approval |-> "Approved", card |-> job,
                    run |-> RunIdOf[job], from |-> None]
        IN pkg \in Packages /\ Sound(pkg)
  BY KeyFacts DEF Packages, Images, Approvals, Sound
<1> QED
  BY <1>1, <1>2, <1>3, <1>4 DEF DeployPackage

(* What Promote prepares: the source's package with its origin. *)
LEMMA PromoteEffect ==
  ASSUME TypeOK, PackagesInv, NEW s \in Scripts, NEW source \in Envs,
         NEW target \in Envs, NEW version \in DOMAIN packages[source],
         Promote(s, source, version, target)
  PROVE  \E pkg \in Packages :
           /\ Sound(pkg)
           /\ HasOrigin(pkg, packages, wasApproved)
           /\ pkg.from # None
           /\ objects[pkg.from.env][pkg.url] # None
           /\ script' = [script EXCEPT ![s] = Running("fetch", target, None, pkg)]
<1> DEFINE origin == [env |-> source, version |-> version]
           old == packages[source][version]
           pkg == [old EXCEPT !.from = origin]
<1>1. old \in Packages /\ version \in Nat \ {0}
  BY VersionFacts
<1>2. origin \in Origins /\ origin # None
  BY <1>1, NoneAssumption DEF Origins
<1>3. /\ pkg \in Packages
      /\ pkg.from = origin /\ pkg.url = old.url /\ pkg.image = old.image
      /\ pkg.card = old.card /\ pkg.run = old.run
  BY <1>1, <1>2 DEF Packages
<1>4. /\ Sound(old)
      /\ objects[source][old.url] # None
      /\ version \in wasApproved[source]
  BY DEF Promote, PackagesInv
<1>5. Sound(pkg) /\ HasOrigin(pkg, packages, wasApproved)
  BY <1>3, <1>4 DEF Sound, HasOrigin
<1>6. script' = [script EXCEPT ![s] = Running("fetch", target, None, pkg)]
  BY DEF Promote
<1>7. pkg.from # None /\ objects[pkg.from.env][pkg.url] # None
  BY <1>2, <1>3, <1>4
<1> HIDE DEF pkg
<1> QED
  BY <1>3, <1>5, <1>6, <1>7

(* Every step keeps the types. *)
LEMMA TypeStep == Inv /\ [Next]_vars => TypeOK'
<1> SUFFICES ASSUME Inv, [Next]_vars PROVE TypeOK'
  OBVIOUS
<1>t. TypeOK /\ PackagesInv /\ ScriptsInv /\ CompletedJobsHaveArtifacts
  BY DEF Inv
<1> USE <1>t
<1>1. ASSUME NEW s \in Scripts, NEW job \in Jobs, NEW register \in BOOLEAN,
             Submit(s, job, register)
      PROVE  TypeOK'
  <2>1. Running("wait", TrainingEnv, None, TrainingPackage(job)) \in RunningScripts
    BY TrainingPackageFacts, TrainingEnvAssumption DEF Running, RunningScripts
  <2> QED
    BY <1>1, <2>1, BoundsAssumption DEF Submit, Start, TypeOK
<1>2. ASSUME NEW s \in Scripts, NEW job \in Jobs, RegisterExisting(s, job)
      PROVE  TypeOK'
  <2>1. Running("card", TrainingEnv, None, TrainingPackage(job)) \in RunningScripts
    BY TrainingPackageFacts, TrainingEnvAssumption DEF Running, RunningScripts
  <2> QED
    BY <1>2, <2>1, BoundsAssumption DEF RegisterExisting, Start, TypeOK
<1>3. ASSUME NEW s \in Scripts, AwaitTraining(s)
      PROVE  TypeOK'
  <2>1. script[s] \in RunningScripts
    BY <1>3, RunningFacts DEF AwaitTraining, Idle
  <2>2. [script[s] EXCEPT !.at = "card"] \in RunningScripts
    BY <2>1 DEF RunningScripts
  <2>3. script' \in [Scripts -> RunningScripts \cup {Idle}]
    BY <1>3, <2>2 DEF AwaitTraining, TypeOK
  <2> QED
    BY <1>3, <2>3 DEF AwaitTraining, TypeOK
<1>4. ASSUME NEW s \in Scripts, FetchModelCard(s)
      PROVE  TypeOK'
  <2>1. script[s] \in RunningScripts /\ script[s] # Idle
    BY <1>4, RunningFacts DEF FetchModelCard, Idle
  <2>2. objects[script[s].env][script[s].pkg.url] # None
    BY <1>4, <2>1 DEF FetchModelCard, ScriptsInv, Carries
  <2>3. objects[script[s].env][script[s].pkg.url] \in Artifacts
    BY <2>1, <2>2 DEF TypeOK, RunningScripts, Packages
  <2>4. [script[s] EXCEPT !.at = "create",
           !.pkg.card = objects[script[s].env][script[s].pkg.url].job] \in RunningScripts
    BY <2>1, <2>3 DEF RunningScripts, Packages, Artifacts
  <2>5. script' \in [Scripts -> RunningScripts \cup {Idle}]
    BY <1>4, <2>4 DEF FetchModelCard, TypeOK
  <2> QED
    BY <1>4, <2>5 DEF FetchModelCard, TypeOK
<1>5. ASSUME NEW s \in Scripts, NEW env \in Envs, NEW key \in Keys, Deploy(s, env, key)
      PROVE  TypeOK'
  <2>1. Running("build", env, objects[env][key], DeployPackage(objects[env][key]))
          \in RunningScripts
    BY <1>5, DeployEffect DEF Running, RunningScripts
  <2>2. script' = [script EXCEPT ![s] = Running("build", env, objects[env][key],
                                               DeployPackage(objects[env][key]))]
    BY <1>5, DeployEffect
  <2>3. script' \in [Scripts -> RunningScripts \cup {Idle}]
    BY <2>1, <2>2 DEF TypeOK
  <2> QED
    BY <1>5, <2>3, BoundsAssumption DEF Deploy, Start, TypeOK
<1>6. ASSUME NEW s \in Scripts, Repackage(s)
      PROVE  TypeOK'
  <2>1. script[s] \in RunningScripts /\ script[s] # Idle
    BY <1>6, RunningFacts DEF Repackage, Idle
  <2>2. script[s].data \in Artifacts
    BY <1>6, <2>1 DEF Repackage, ScriptsInv, Carries, RunningScripts
  <2>3. [script[s] EXCEPT !.at = "upload", !.data.code = revision] \in RunningScripts
    <3>1. [script[s].data EXCEPT !.code = revision] \in Artifacts
      BY <2>2, BoundsAssumption DEF Artifacts, TypeOK
    <3> QED
      BY <2>1, <3>1 DEF RunningScripts
  <2>4. script' \in [Scripts -> RunningScripts \cup {Idle}]
    BY <1>6, <2>3 DEF Repackage, TypeOK
  <2> QED
    BY <1>6, <2>4 DEF Repackage, TypeOK
<1>7. ASSUME NEW s \in Scripts, NEW source \in Envs, NEW target \in Envs,
             NEW version \in DOMAIN packages[source],
             Promote(s, source, version, target)
      PROVE  TypeOK'
  <2>1. \A pkg \in Packages : Running("fetch", target, None, pkg) \in RunningScripts
    BY DEF Running, RunningScripts
  <2>2. PICK pkg \in Packages :
          script' = [script EXCEPT ![s] = Running("fetch", target, None, pkg)]
    BY <1>7, PromoteEffect
  <2>3. script' \in [Scripts -> RunningScripts \cup {Idle}]
    BY <2>1, <2>2 DEF TypeOK
  <2> QED
    BY <1>7, <2>3, BoundsAssumption DEF Promote, Start, TypeOK
<1>8. ASSUME NEW s \in Scripts, DownloadSource(s)
      PROVE  TypeOK'
  <2>1. script[s] \in RunningScripts /\ script[s] # Idle
    BY <1>8, RunningFacts DEF DownloadSource, Idle
  <2>2. script[s].pkg.from \in Origins /\ script[s].pkg \in Packages
    BY <1>8, <2>1 DEF DownloadSource, ScriptsInv, Carries, RunningScripts, Packages
  <2>3. objects[script[s].pkg.from.env][script[s].pkg.url] \in Artifacts \cup {None}
    BY <2>2 DEF TypeOK, Packages, Origins
  <2>4. PromotedKey(script[s].pkg.run) \in Keys
    BY <2>2, KeyFacts DEF Packages
  <2>5. [script[s] EXCEPT !.at = "upload",
           !.data = objects[script[s].pkg.from.env][script[s].pkg.url],
           !.pkg.url = PromotedKey(script[s].pkg.run)] \in RunningScripts
    BY <2>1, <2>2, <2>3, <2>4 DEF RunningScripts, Packages
  <2>6. script' \in [Scripts -> RunningScripts \cup {Idle}]
    BY <1>8, <2>5 DEF DownloadSource, TypeOK
  <2> QED
    BY <1>8, <2>6 DEF DownloadSource, TypeOK
<1>9. ASSUME NEW s \in Scripts, Upload(s)
      PROVE  TypeOK'
  <2>1. script[s] \in RunningScripts
    BY <1>9, RunningFacts DEF Upload, Idle
  <2>2. objects' \in [Envs -> [Keys -> Artifacts \cup {None}]]
    BY <1>9, <2>1 DEF Upload, TypeOK, RunningScripts, Packages
  <2>3. [script[s] EXCEPT !.at = "create"] \in RunningScripts
    BY <2>1 DEF RunningScripts
  <2>4. script' \in [Scripts -> RunningScripts \cup {Idle}]
    BY <1>9, <2>3 DEF Upload, TypeOK
  <2> QED
    BY <1>9, <2>2, <2>4 DEF Upload, TypeOK
<1>10. ASSUME NEW s \in Scripts, CreateModelPackage(s)
       PROVE  TypeOK'
  <2>1. packages' \in [Envs -> Seq(Packages)]
    BY <1>10, CreateEffect
  <2>2. wasApproved' \in [Envs -> SUBSET (Nat \ {0})]
    BY <1>10, CreateEffect, NoteApprovalEffect DEF CreateModelPackage
  <2> QED
    BY <1>10, <2>1, <2>2 DEF CreateModelPackage, TypeOK
<1>11. ASSUME NEW s \in Scripts, Die(s)
       PROVE  TypeOK'
  BY <1>11 DEF Die, TypeOK
<1>12. ASSUME NEW job \in Jobs, TrainingEnds(job)
       PROVE  TypeOK'
  <2>1. [job |-> job, code |-> Raw] \in Artifacts
    BY DEF Artifacts, Raw
  <2>2. objects' \in [Envs -> [Keys -> Artifacts \cup {None}]]
    <3>1. CASE UNCHANGED objects
      BY <3>1 DEF TypeOK
    <3>2. CASE objects' = [objects EXCEPT ![TrainingEnv][TrainingKey(job)] =
                                            [job |-> job, code |-> Raw]]
      BY <2>1, <3>2 DEF TypeOK
    <3> QED
      BY <1>12, <3>1, <3>2 DEF TrainingEnds
  <2> QED
    BY <1>12, <2>2 DEF TrainingEnds, TypeOK
<1>13. CASE EditInferenceCode
  BY <1>13, BoundsAssumption DEF EditInferenceCode, TypeOK
<1>14. ASSUME NEW env \in Envs, ColdStart(env)
       PROVE  TypeOK'
  <2>1. endpoint' \in [Envs -> Endpoints \cup {None}]
    <3>1. endpoint[env] \in Endpoints
      BY <1>14 DEF ColdStart, TypeOK
    <3>2. endpoint[env].version \in DOMAIN packages[env]
      BY <1>14 DEF ColdStart, Inv, EndpointsInv
    <3>3. objects[env][packages[env][endpoint[env].version].url] \in Artifacts
      BY <3>2, VersionArtifact
    <3> QED
      BY <1>14, <3>1, <3>3 DEF ColdStart, TypeOK, Endpoints
  <2> QED
    BY <1>14, <2>1 DEF ColdStart, TypeOK
<1>15. ASSUME NEW env \in Envs, NEW version \in DOMAIN packages[env],
              NEW approval \in {"Approved", "Rejected"}, Review(env, version, approval)
       PROVE  TypeOK'
  <2>1. packages' \in [Envs -> Seq(Packages)]
    BY <1>15, ReviewEffect
  <2>2. wasApproved' \in [Envs -> SUBSET (Nat \ {0})]
    BY <1>15, VersionFacts, NoteApprovalEffect DEF Review
  <2> QED
    BY <1>15, <2>1, <2>2 DEF Review, TypeOK
<1>16. ASSUME NEW env \in Envs, NEW version \in DOMAIN packages[env], Host(env, version)
       PROVE  TypeOK'
  <2>1. objects[env][packages[env][version].url] \in Artifacts /\ version \in Nat \ {0}
    BY VersionArtifact, VersionFacts
  <2>2. endpoint' \in [Envs -> Endpoints \cup {None}]
    BY <1>16, <2>1 DEF Host, TypeOK, Endpoints
  <2> QED
    BY <1>16, <2>2 DEF Host, TypeOK
<1>17. CASE UNCHANGED vars
  BY <1>17 DEF vars, TypeOK
<1> QED
  BY <1>1, <1>2, <1>3, <1>4, <1>5, <1>6, <1>7, <1>8, <1>9, <1>10, <1>11, <1>12,
     <1>13, <1>14, <1>15, <1>16, <1>17 DEF Next, ScriptStep

-----------------------------------------------------------------------------
(* What no step takes back.                                                *)

(* All but five actions leave the buckets, registries and endpoints alone. *)
LEMMA StepKinds ==
  [Next]_vars =>
    \/ \E s \in Scripts : Upload(s) \/ CreateModelPackage(s)
    \/ \E job \in Jobs : TrainingEnds(job)
    \/ \E env \in Envs : \E version \in DOMAIN packages[env] :
         \E approval \in {"Approved", "Rejected"} : Review(env, version, approval)
    \/ \E env \in Envs :
         ColdStart(env) \/ \E version \in DOMAIN packages[env] : Host(env, version)
    \/ UNCHANGED <<objects, packages, endpoint, wasApproved>>
<1> SUFFICES ASSUME [Next]_vars, \A s \in Scripts : ~ Upload(s) /\ ~ CreateModelPackage(s)
             PROVE  \/ \E job \in Jobs : TrainingEnds(job)
                    \/ \E env \in Envs : \E version \in DOMAIN packages[env] :
                         \E approval \in {"Approved", "Rejected"} :
                           Review(env, version, approval)
                    \/ \E env \in Envs :
                         \/ ColdStart(env)
                         \/ \E version \in DOMAIN packages[env] : Host(env, version)
                    \/ UNCHANGED <<objects, packages, endpoint, wasApproved>>
  OBVIOUS
<1>1. ASSUME NEW s \in Scripts, ScriptStep(s)
      PROVE  UNCHANGED <<objects, packages, endpoint, wasApproved>>
  BY <1>1 DEF ScriptStep, Submit, RegisterExisting, AwaitTraining, FetchModelCard,
              Deploy, Repackage, Promote, DownloadSource, Die
<1>2. CASE EditInferenceCode \/ UNCHANGED vars
  BY <1>2 DEF EditInferenceCode, vars
<1> QED
  BY <1>1, <1>2 DEF Next

(* Objects stay, though not with the same bytes; versions stay with all    *)
(* but their status; noted approvals stay.                                 *)
Grows ==
  /\ \A env \in Envs, key \in Keys :
       objects[env][key] # None => objects'[env][key] # None
  /\ \A env \in Envs : \A version \in DOMAIN packages[env] :
       /\ version \in DOMAIN packages'[env]
       /\ SameButStatus(packages[env][version], packages'[env][version])
  /\ \A env \in Envs : wasApproved[env] \subseteq wasApproved'[env]

(* Every step grows. *)
LEMMA GrowsStep == Inv /\ [Next]_vars => Grows
<1> SUFFICES ASSUME Inv, [Next]_vars PROVE Grows
  OBVIOUS
<1>t. TypeOK /\ ScriptsInv
  BY DEF Inv
<1>1. ASSUME NEW s \in Scripts, Upload(s)
      PROVE  Grows
  <2>1. script[s] \in RunningScripts /\ script[s].data # None
    BY <1>t, <1>1, RunningFacts DEF Upload, Idle, ScriptsInv, Carries
  <2>2. UNCHANGED <<packages, wasApproved>>
    BY <1>1 DEF Upload
  <2>3. objects' = [objects EXCEPT ![script[s].env][script[s].pkg.url] = script[s].data]
    BY <1>1 DEF Upload
  <2>4. \A env \in Envs, key \in Keys :
          objects[env][key] # None => objects'[env][key] # None
    BY <1>t, <2>1, <2>3 DEF TypeOK
  <2> QED
    BY <2>2, <2>4 DEF Grows, SameButStatus
<1>2. ASSUME NEW s \in Scripts, CreateModelPackage(s)
      PROVE  Grows
  <2>1. \A env \in Envs : \A version \in DOMAIN packages[env] :
          version \in DOMAIN packages'[env] /\ packages'[env][version] = packages[env][version]
    BY <1>t, <1>2, CreateEffect
  <2>2. \A env \in Envs : wasApproved[env] \subseteq wasApproved'[env]
    BY <1>t, <1>2, CreateEffect, NoteApprovalEffect DEF CreateModelPackage
  <2>3. UNCHANGED objects
    BY <1>2 DEF CreateModelPackage
  <2> QED
    BY <2>1, <2>2, <2>3 DEF Grows, SameButStatus
<1>3. ASSUME NEW job \in Jobs, TrainingEnds(job)
      PROVE  Grows
  <2>1. [job |-> job, code |-> Raw] # None
    BY NoneAssumption DEF Artifacts, Raw
  <2>2. \A env \in Envs, key \in Keys :
          objects[env][key] # None => objects'[env][key] # None
    <3>1. CASE UNCHANGED objects
      BY <3>1
    <3>2. CASE objects' = [objects EXCEPT ![TrainingEnv][TrainingKey(job)] =
                                            [job |-> job, code |-> Raw]]
      BY <1>t, <2>1, <3>2 DEF TypeOK
    <3> QED
      BY <1>3, <3>1, <3>2 DEF TrainingEnds
  <2> QED
    BY <1>3, <2>2 DEF TrainingEnds, Grows, SameButStatus
<1>4. ASSUME NEW env \in Envs, NEW version \in DOMAIN packages[env],
             NEW approval \in {"Approved", "Rejected"}, Review(env, version, approval)
      PROVE  Grows
  <2>1. SameButStatus(packages[env][version], packages'[env][version])
    BY <1>t, <1>4, ReviewEffect
  <2>2. \A e \in Envs : \A v \in DOMAIN packages[e] :
          /\ v \in DOMAIN packages'[e]
          /\ e # env \/ v # version => packages'[e][v] = packages[e][v]
    BY <1>t, <1>4, ReviewEffect
  <2>3. \A e \in Envs : wasApproved[e] \subseteq wasApproved'[e]
    BY <1>t, <1>4, VersionFacts, NoteApprovalEffect DEF Review
  <2>4. UNCHANGED objects
    BY <1>4 DEF Review
  <2>5. \A e \in Envs : \A v \in DOMAIN packages[e] :
          SameButStatus(packages[e][v], packages'[e][v])
    BY <2>1, <2>2 DEF SameButStatus
  <2> QED
    BY <2>2, <2>3, <2>4, <2>5 DEF Grows
<1>5. CASE UNCHANGED <<objects, packages, wasApproved>>
  BY <1>5 DEF Grows, SameButStatus
<1>6. ASSUME NEW env \in Envs, ColdStart(env) \/ \E version \in DOMAIN packages[env] : Host(env, version)
      PROVE  Grows
  BY <1>5, <1>6 DEF ColdStart, Host
<1> QED
  BY <1>1, <1>2, <1>3, <1>4, <1>5, <1>6, StepKinds

(* So an origin once true stays true, and so does what a script carries.   *)
LEMMA CarriesKept ==
  ASSUME TypeOK, Grows
  PROVE  /\ \A pkg \in Packages : HasOrigin(pkg, packages, wasApproved)
                                 => HasOrigin(pkg, packages', wasApproved')
         /\ \A run \in RunningScripts : Carries(run, objects, packages, wasApproved)
                                 => Carries(run, objects', packages', wasApproved')
<1>1. ASSUME NEW pkg \in Packages, HasOrigin(pkg, packages, wasApproved)
      PROVE  HasOrigin(pkg, packages', wasApproved')
  <2>1. CASE pkg.from = None
    BY <2>1 DEF HasOrigin
  <2>2. CASE pkg.from # None
    <3>1. pkg.from.env \in Envs
      BY <2>2 DEF Packages, Origins
    <3> QED
      BY <1>1, <2>2, <3>1 DEF HasOrigin, Grows, SameButStatus
  <2> QED
    BY <2>1, <2>2
<1>2. ASSUME NEW run \in RunningScripts, Carries(run, objects, packages, wasApproved)
      PROVE  Carries(run, objects', packages', wasApproved')
  <2>1. run.env \in Envs /\ run.pkg \in Packages /\ run.pkg.url \in Keys
    BY DEF RunningScripts, Packages
  <2>2. run.pkg.from # None => run.pkg.from.env \in Envs
    BY <2>1 DEF Packages, Origins
  <2>3. HasOrigin(run.pkg, packages', wasApproved')
    BY <1>1, <1>2, <2>1 DEF Carries
  <2> QED
    BY <1>2, <2>1, <2>2, <2>3 DEF Carries, Grows
<1> QED
  BY <1>1, <1>2

-----------------------------------------------------------------------------
(* Every step keeps the rest of the invariant.                             *)

(* Uploads go under keys of the run they carry. *)
LEMMA ObjectsStep == Inv /\ [Next]_vars => ObjectsOfTheirRun'
<1> SUFFICES ASSUME Inv, [Next]_vars PROVE ObjectsOfTheirRun'
  OBVIOUS
<1>t. TypeOK /\ ScriptsInv /\ ObjectsOfTheirRun
  BY DEF Inv
<1>1. ASSUME NEW s \in Scripts, Upload(s)
      PROVE  ObjectsOfTheirRun'
  <2>1. script[s] \in RunningScripts
    BY <1>t, <1>1, RunningFacts DEF Upload, Idle
  <2>2. /\ script[s].data # None
        /\ RunIdOf[script[s].data.job] = RunOfKey(script[s].pkg.url)
    BY <1>t, <1>1, <2>1 DEF Upload, Idle, ScriptsInv, Carries, Sound
  <2>3. objects' = [objects EXCEPT ![script[s].env][script[s].pkg.url] = script[s].data]
    BY <1>1 DEF Upload
  <2>4. script[s].env \in Envs /\ script[s].pkg.url \in Keys
    BY <2>1 DEF RunningScripts, Packages
  <2>5. \A env \in Envs, key \in Keys :
          objects'[env][key] = IF env = script[s].env /\ key = script[s].pkg.url
                                 THEN script[s].data ELSE objects[env][key]
    BY <1>t, <2>3, <2>4 DEF TypeOK
  <2> QED
    BY <1>t, <2>2, <2>5 DEF ObjectsOfTheirRun
<1>2. ASSUME NEW job \in Jobs, TrainingEnds(job)
      PROVE  ObjectsOfTheirRun'
  <2>1. CASE UNCHANGED objects
    BY <1>t, <2>1 DEF ObjectsOfTheirRun
  <2>2. CASE objects' = [objects EXCEPT ![TrainingEnv][TrainingKey(job)] =
                                          [job |-> job, code |-> Raw]]
    <3>1. \A env \in Envs, key \in Keys :
            objects'[env][key] = IF env = TrainingEnv /\ key = TrainingKey(job)
                                   THEN [job |-> job, code |-> Raw] ELSE objects[env][key]
      BY <1>t, <2>2, KeyFacts, TrainingEnvAssumption DEF TypeOK
    <3> QED
      BY <1>t, <3>1, KeyFacts DEF ObjectsOfTheirRun
  <2> QED
    BY <1>2, <2>1, <2>2 DEF TrainingEnds
<1>3. CASE UNCHANGED objects
  BY <1>t, <1>3 DEF ObjectsOfTheirRun
<1> QED
  BY <1>1, <1>2, <1>3, StepKinds DEF CreateModelPackage, Review, ColdStart, Host

(* Only the end of its training writes a training job's artifact. *)
LEMMA TrainingArtifactsStay ==
  ASSUME Inv, [Next]_vars, \A k \in Jobs : ~ TrainingEnds(k), NEW job \in Jobs
  PROVE  objects'[TrainingEnv][TrainingKey(job)] = objects[TrainingEnv][TrainingKey(job)]
<1>1. ASSUME NEW s \in Scripts, Upload(s)
      PROVE  objects'[TrainingEnv][TrainingKey(job)] = objects[TrainingEnv][TrainingKey(job)]
  <2>1. script[s] \in RunningScripts /\ script[s] # Idle
    BY <1>1, RunningFacts DEF Inv, Upload, Idle
  <2>2. Carries(script[s], objects, packages, wasApproved)
    BY <2>1 DEF Inv, ScriptsInv
  <2>3. script[s].pkg.url # TrainingKey(job)
    BY <1>1, <2>2 DEF Carries, Upload
  <2>4. script[s].env \in Envs /\ script[s].pkg.url \in Keys
    BY <2>1 DEF RunningScripts, Packages
  <2> QED
    BY <1>1, <2>3, <2>4, KeyFacts, TrainingEnvAssumption DEF Inv, TypeOK, Upload
<1> QED
  BY <1>1, StepKinds DEF CreateModelPackage, Review, ColdStart, Host

(* A job completes together with its artifact. *)
LEMMA JobsStep == Inv /\ [Next]_vars => CompletedJobsHaveArtifacts'
<1> SUFFICES ASSUME Inv, [Next]_vars PROVE CompletedJobsHaveArtifacts'
  OBVIOUS
<1>t. TypeOK /\ CompletedJobsHaveArtifacts
  BY DEF Inv
<1>1. ASSUME NEW job \in Jobs, TrainingEnds(job)
      PROVE  CompletedJobsHaveArtifacts'
  <2>1. ASSUME jobs' = [jobs EXCEPT ![job] = "completed"],
               objects' = [objects EXCEPT ![TrainingEnv][TrainingKey(job)] =
                                            [job |-> job, code |-> Raw]]
        PROVE  CompletedJobsHaveArtifacts'
    <3>1. objects'[TrainingEnv][TrainingKey(job)] # None
      BY <1>t, <2>1, KeyFacts, TrainingEnvAssumption, NoneAssumption
         DEF TypeOK, Artifacts, Raw
    <3>2. ASSUME NEW k \in Jobs, k # job
          PROVE  objects'[TrainingEnv][TrainingKey(k)] = objects[TrainingEnv][TrainingKey(k)]
      <4>1. TrainingKey(k) # TrainingKey(job)
        BY <3>2 DEF TrainingKey
      <4> QED
        BY <1>t, <2>1, <4>1, KeyFacts, TrainingEnvAssumption DEF TypeOK
    <3> QED
      BY <1>t, <2>1, <3>1, <3>2 DEF CompletedJobsHaveArtifacts, TypeOK
  <2>2. CASE jobs' = [jobs EXCEPT ![job] = "failed"] /\ UNCHANGED objects
    BY <1>t, <1>1, <2>2 DEF CompletedJobsHaveArtifacts, TypeOK, TrainingEnds
  <2> QED
    BY <1>1, <2>1, <2>2 DEF TrainingEnds
<1>2. ASSUME \A k \in Jobs : ~ TrainingEnds(k)
      PROVE  CompletedJobsHaveArtifacts'
  <2>1. \A job \in Jobs : objects'[TrainingEnv][TrainingKey(job)]
                           = objects[TrainingEnv][TrainingKey(job)]
    BY <1>2, TrainingArtifactsStay
  <2>2. ASSUME NEW s \in Scripts, NEW job \in Jobs, NEW register \in BOOLEAN,
               Submit(s, job, register)
        PROVE  CompletedJobsHaveArtifacts'
    BY <1>t, <2>1, <2>2 DEF Submit, CompletedJobsHaveArtifacts, TypeOK
  <2>3. CASE UNCHANGED jobs
    BY <1>t, <2>1, <2>3 DEF CompletedJobsHaveArtifacts
  <2>4. ASSUME NEW s \in Scripts, ScriptStep(s)
        PROVE  CompletedJobsHaveArtifacts'
    BY <2>2, <2>3, <2>4 DEF ScriptStep, RegisterExisting, AwaitTraining, FetchModelCard,
       Deploy, Repackage, Promote, DownloadSource, Upload, CreateModelPackage, Die
  <2> QED
    BY <1>2, <2>3, <2>4 DEF Next, vars, EditInferenceCode, ColdStart, Review, Host
<1> QED
  BY <1>1, <1>2

(* A version is registered after its upload, or after its job completed.   *)
LEMMA PackagesStep == Inv /\ [Next]_vars => PackagesInv'
<1> SUFFICES ASSUME Inv, [Next]_vars PROVE PackagesInv'
  OBVIOUS
<1>t. TypeOK /\ ScriptsInv /\ PackagesInv /\ Grows
  BY GrowsStep DEF Inv
<1> DEFINE Right(env, version, pkg) ==
             /\ Sound(pkg)
             /\ objects'[env][pkg.url] # None
             /\ HasOrigin(pkg, packages', wasApproved')
             /\ pkg.approval = "Approved" => version \in wasApproved'[env]
<1>1. ASSUME NEW env \in Envs, NEW version \in DOMAIN packages[env]
      PROVE  Right(env, version, packages[env][version])
  <2>1. packages[env][version] \in Packages /\ packages[env][version].url \in Keys
    BY <1>t, VersionFacts DEF Packages
  <2>2. HasOrigin(packages[env][version], packages', wasApproved')
    BY <1>t, <2>1, CarriesKept DEF PackagesInv
  <2>3. /\ Sound(packages[env][version])
        /\ objects[env][packages[env][version].url] # None
        /\ packages[env][version].approval = "Approved" => version \in wasApproved[env]
    BY <1>t DEF PackagesInv
  <2> QED
    BY <1>t, <2>1, <2>2, <2>3 DEF Grows
<1>2. ASSUME NEW s \in Scripts, CreateModelPackage(s)
      PROVE  PackagesInv'
  <2> DEFINE env == script[s].env
             pkg == script[s].pkg
             last == Len(packages[env]) + 1
  <2>1. script[s] \in RunningScripts /\ script[s] # Idle /\ env \in Envs /\ pkg \in Packages
    BY <1>t, <1>2, RunningFacts DEF CreateModelPackage, Idle, RunningScripts
  <2>2. Carries(script[s], objects', packages', wasApproved')
    BY <1>t, <2>1, CarriesKept DEF ScriptsInv
  <2>3. pkg.approval = "Approved" => last \in wasApproved'[env]
    BY <1>t, <1>2, <2>1, CreateEffect, NoteApprovalEffect DEF CreateModelPackage
  <2>4. Right(env, last, pkg)
    BY <1>2, <2>2, <2>3 DEF Carries, CreateModelPackage
  <2>5. /\ DOMAIN packages'[env] = DOMAIN packages[env] \cup {last}
        /\ packages'[env][last] = pkg
        /\ \A v \in DOMAIN packages[env] : packages'[env][v] = packages[env][v]
        /\ \A e \in Envs : e # env => packages'[e] = packages[e]
    BY <1>t, <1>2, CreateEffect
  <2> HIDE DEF env, pkg, last, Right
  <2>6. \A e \in Envs : \A v \in DOMAIN packages'[e] : Right(e, v, packages'[e][v])
    BY <1>1, <2>1, <2>4, <2>5
  <2> QED
    BY <2>6 DEF Right, PackagesInv
<1>3. ASSUME NEW env \in Envs, NEW version \in DOMAIN packages[env],
             NEW approval \in {"Approved", "Rejected"}, Review(env, version, approval)
      PROVE  PackagesInv'
  <2>1. /\ \A e \in Envs : DOMAIN packages'[e] = DOMAIN packages[e]
        /\ \A e \in Envs : \A v \in DOMAIN packages[e] :
             e # env \/ v # version => packages'[e][v] = packages[e][v]
        /\ SameButStatus(packages[env][version], packages'[env][version])
        /\ packages'[env][version].approval = approval
    BY <1>t, <1>3, ReviewEffect
  <2>2. approval = "Approved" => version \in wasApproved'[env]
    BY <1>t, <1>3, VersionFacts, NoteApprovalEffect DEF Review
  <2>3. Right(env, version, packages'[env][version])
    <3> DEFINE old == packages[env][version]
               new == packages'[env][version]
    <3>1. Sound(old) /\ objects'[env][old.url] # None
          /\ HasOrigin(old, packages', wasApproved')
      BY <1>1
    <3>2. /\ new.image = old.image /\ new.url = old.url /\ new.card = old.card
          /\ new.run = old.run /\ new.from = old.from /\ new.approval = approval
      BY <2>1 DEF SameButStatus
    <3> HIDE DEF old, new
    <3>3. Sound(new) /\ objects'[env][new.url] # None
      BY <3>1, <3>2 DEF Sound
    <3>4. HasOrigin(new, packages', wasApproved')
      BY <3>1, <3>2 DEF HasOrigin
    <3> QED
      BY <2>2, <3>2, <3>3, <3>4 DEF new
  <2> HIDE DEF Right
  <2>4. \A e \in Envs : \A v \in DOMAIN packages'[e] : Right(e, v, packages'[e][v])
    BY <1>1, <2>1, <2>3
  <2> QED
    BY <2>4 DEF Right, PackagesInv
<1>4. CASE UNCHANGED packages
  <2>1. \A e \in Envs : \A v \in DOMAIN packages'[e] : Right(e, v, packages'[e][v])
    BY <1>1, <1>4
  <2> QED
    BY <2>1 DEF PackagesInv
<1> QED
  BY <1>2, <1>3, <1>4, StepKinds DEF Upload, TrainingEnds, ColdStart, Host

(* What a script has read stays good enough for its next call, and each    *)
(* call leaves what the one after it relies on.                            *)
LEMMA ScriptsStep == Inv /\ [Next]_vars => ScriptsInv'
<1> SUFFICES ASSUME Inv, [Next]_vars PROVE ScriptsInv'
  OBVIOUS
<1>t. TypeOK /\ ScriptsInv /\ PackagesInv /\ ObjectsOfTheirRun /\ CompletedJobsHaveArtifacts /\ Grows
  BY GrowsStep DEF Inv
<1> DEFINE Good(run) == Carries(run, objects', packages', wasApproved')
<1>k. \A s \in Scripts : script[s] # Idle =>
        script[s] \in RunningScripts /\ Good(script[s])
  BY <1>t, RunningFacts, CarriesKept DEF ScriptsInv
<1>m. ASSUME NEW s \in Scripts, NEW run, run = Idle \/ Good(run),
             script' = [script EXCEPT ![s] = run]
      PROVE  ScriptsInv'
  BY <1>t, <1>k, <1>m DEF ScriptsInv, TypeOK
<1>n. CASE UNCHANGED script
  BY <1>k, <1>n DEF ScriptsInv
<1> HIDE DEF Good
<1>s. ASSUME NEW job \in Jobs
      PROVE  /\ Good(Running("wait", TrainingEnv, None, TrainingPackage(job)))
             /\ jobs[job] = "completed" =>
                  Good(Running("card", TrainingEnv, None, TrainingPackage(job)))
  <2>1. jobs[job] = "completed" => objects'[TrainingEnv][TrainingKey(job)] # None
    BY <1>t, KeyFacts, TrainingEnvAssumption DEF CompletedJobsHaveArtifacts, Grows
  <2> QED
    BY <2>1, TrainingPackageFacts DEF Good, Carries, Running, HasOrigin
<1>1. ASSUME NEW s \in Scripts, NEW job \in Jobs, NEW register \in BOOLEAN,
             Submit(s, job, register)
      PROVE  ScriptsInv'
  BY <1>1, <1>m, <1>n, <1>s DEF Submit
<1>2. ASSUME NEW s \in Scripts, NEW job \in Jobs, RegisterExisting(s, job)
      PROVE  ScriptsInv'
  BY <1>2, <1>m, <1>s DEF RegisterExisting
<1>3. ASSUME NEW s \in Scripts, AwaitTraining(s)
      PROVE  ScriptsInv'
  <2> DEFINE run == [script[s] EXCEPT !.at = "card"]
  <2>1. script[s] \in RunningScripts /\ Good(script[s])
    BY <1>3, <1>k DEF AwaitTraining, Idle
  <2>2. CASE jobs[script[s].pkg.card] = "completed" /\ script' = [script EXCEPT ![s].at = "card"]
    <3>1. /\ run.at = "card" /\ run.env = script[s].env /\ run.data = script[s].data
          /\ run.pkg = script[s].pkg
      BY <2>1 DEF RunningScripts
    <3>2. script[s].pkg.card \in Jobs
      BY <2>1 DEF RunningScripts, Packages
    <3>3. run.env = TrainingEnv /\ run.pkg.url = TrainingKey(run.pkg.card)
      BY <1>3, <2>1, <3>1 DEF AwaitTraining, Good, Carries
    <3>4. objects'[run.env][run.pkg.url] # None
      BY <1>t, <2>2, <3>1, <3>2, <3>3, KeyFacts, TrainingEnvAssumption
         DEF CompletedJobsHaveArtifacts, Grows
    <3>5. script[s].pkg.from = None
      BY <1>3, <2>1 DEF AwaitTraining, Good, Carries
    <3>6. Good(run)
      BY <2>1, <3>1, <3>4, <3>5 DEF Good, Carries
    <3>7. script' = [script EXCEPT ![s] = run]
      BY <2>2
    <3> QED
      BY <1>m, <3>6, <3>7
  <2> QED
    BY <1>3, <1>m, <2>2 DEF AwaitTraining
<1>4. ASSUME NEW s \in Scripts, FetchModelCard(s)
      PROVE  ScriptsInv'
  <2> DEFINE artifact == objects[script[s].env][script[s].pkg.url]
             run == [script[s] EXCEPT !.at = "create", !.pkg.card = artifact.job]
  <2>1. script[s] \in RunningScripts /\ Good(script[s])
    BY <1>4, <1>k DEF FetchModelCard, Idle
  <2>2. script[s].env \in Envs /\ script[s].pkg \in Packages /\ script[s].pkg.url \in Keys
    BY <2>1 DEF RunningScripts, Packages
  <2>3. artifact # None
    BY <1>4, <1>t, <2>1 DEF FetchModelCard, ScriptsInv, Carries, Idle
  <2>4. RunIdOf[artifact.job] = RunOfKey(script[s].pkg.url)
    BY <1>t, <2>2, <2>3 DEF ObjectsOfTheirRun
  <2>5. UNCHANGED <<objects, packages, wasApproved>>
    BY <1>4 DEF FetchModelCard
  <2>6. /\ run.at = "create" /\ run.env = script[s].env
        /\ run.pkg.card = artifact.job /\ run.pkg.run = script[s].pkg.run
        /\ run.pkg.url = script[s].pkg.url /\ run.pkg.from = script[s].pkg.from
        /\ run.pkg.image = script[s].pkg.image
    BY <2>1, <2>2 DEF RunningScripts, Packages
  <2>7. script[s].pkg.from = None
    BY <1>4, <1>t, <2>1 DEF FetchModelCard, ScriptsInv, Carries, Idle
  <2>8. Good(run)
    BY <2>1, <2>3, <2>4, <2>5, <2>6, <2>7 DEF Good, Carries, Sound, HasOrigin
  <2>9. script' = [script EXCEPT ![s] = run]
    BY <1>4 DEF FetchModelCard
  <2> QED
    BY <1>m, <2>8, <2>9
<1>5. ASSUME NEW s \in Scripts, NEW env \in Envs, NEW key \in Keys, Deploy(s, env, key)
      PROVE  ScriptsInv'
  <2> DEFINE artifact == objects[env][key]
             run == Running("build", env, artifact, DeployPackage(artifact))
  <2>1. /\ artifact \in Artifacts /\ artifact # None
        /\ Sound(DeployPackage(artifact))
        /\ script' = [script EXCEPT ![s] = run]
    BY <1>t, <1>5, DeployEffect DEF Deploy
  <2>2. artifact.job \in Jobs
    BY <2>1 DEF Artifacts
  <2>3. /\ DeployPackage(artifact).from = None
        /\ DeployPackage(artifact).run = RunIdOf[artifact.job]
        /\ \A job \in Jobs : DeployPackage(artifact).url # TrainingKey(job)
    BY <2>2, KeyFacts DEF DeployPackage
  <2> HIDE DEF artifact
  <2>4. Good(run)
    BY <2>1, <2>3 DEF Good, Carries, Running, HasOrigin
  <2> QED
    BY <1>m, <2>1, <2>4
<1>6. ASSUME NEW s \in Scripts, Repackage(s)
      PROVE  ScriptsInv'
  <2> DEFINE run == [script[s] EXCEPT !.at = "upload", !.data.code = revision]
  <2>1. script[s] \in RunningScripts /\ Good(script[s])
    BY <1>6, <1>k DEF Repackage, Idle
  <2>2. script[s].data \in Artifacts
    <3>1. script[s].at = "build"
      BY <1>6 DEF Repackage
    <3>2. script[s].data # None
      BY <2>1, <3>1 DEF Good, Carries
    <3>3. script[s].data \in Artifacts \cup {None}
      BY <2>1 DEF RunningScripts
    <3> QED
      BY <3>2, <3>3
  <2>3. [script[s].data EXCEPT !.code = revision] \in Artifacts
    <3>1. revision \in Nat
      BY <1>t, BoundsAssumption DEF TypeOK
    <3> QED
      BY <2>2, <3>1 DEF Artifacts
  <2>4. /\ run.at = "upload" /\ run.env = script[s].env /\ run.pkg = script[s].pkg
        /\ run.data = [script[s].data EXCEPT !.code = revision]
    BY <2>1 DEF RunningScripts
  <2>5. run.data # None /\ run.data.job = script[s].data.job
    BY <2>2, <2>3, <2>4, NoneAssumption DEF Artifacts
  <2>6. Good(run)
    BY <1>6, <2>1, <2>4, <2>5 DEF Good, Carries, Repackage
  <2>7. script' = [script EXCEPT ![s] = run] \/ script' = [script EXCEPT ![s] = Idle]
    BY <1>6 DEF Repackage
  <2> QED
    BY <1>m, <2>6, <2>7
<1>7. ASSUME NEW s \in Scripts, NEW source \in Envs, NEW target \in Envs,
             NEW version \in DOMAIN packages[source],
             Promote(s, source, version, target)
      PROVE  ScriptsInv'
  <2>1. PICK pkg \in Packages :
          /\ Sound(pkg)
          /\ HasOrigin(pkg, packages, wasApproved)
          /\ pkg.from # None
          /\ objects[pkg.from.env][pkg.url] # None
          /\ script' = [script EXCEPT ![s] = Running("fetch", target, None, pkg)]
    BY <1>t, <1>7, PromoteEffect
  <2>2. UNCHANGED <<objects, packages, wasApproved>>
    BY <1>7 DEF Promote
  <2>3. Good(Running("fetch", target, None, pkg))
    BY <2>1, <2>2 DEF Good, Carries, Running
  <2> QED
    BY <1>m, <2>1, <2>3
<1>8. ASSUME NEW s \in Scripts, DownloadSource(s)
      PROVE  ScriptsInv'
  <2> DEFINE pkg == script[s].pkg
             artifact == objects[pkg.from.env][pkg.url]
             run == [script[s] EXCEPT !.at = "upload", !.data = artifact,
                                      !.pkg.url = PromotedKey(pkg.run)]
  <2>1. /\ script[s] \in RunningScripts /\ Good(script[s])
        /\ Carries(script[s], objects, packages, wasApproved)
    BY <1>8, <1>k, <1>t DEF DownloadSource, Idle, ScriptsInv
  <2>2. pkg \in Packages /\ pkg.from # None /\ artifact # None
    BY <1>8, <2>1 DEF DownloadSource, Carries, RunningScripts
  <2>3. pkg.from.env \in Envs /\ pkg.url \in Keys /\ pkg.run \in RunIds
    BY <2>2 DEF Packages, Origins
  <2>4. RunIdOf[artifact.job] = pkg.run
    BY <1>t, <2>1, <2>2, <2>3 DEF ObjectsOfTheirRun, Carries, Sound
  <2>5. /\ run.at = "upload" /\ run.env = script[s].env /\ run.data = artifact
        /\ run.pkg.card = pkg.card /\ run.pkg.run = pkg.run
        /\ run.pkg.url = PromotedKey(pkg.run) /\ run.pkg.from = pkg.from
        /\ run.pkg.image = pkg.image
    BY <2>1, <2>2 DEF RunningScripts, Packages
  <2>6. Sound(run.pkg) /\ \A job \in Jobs : run.pkg.url # TrainingKey(job)
    BY <2>1, <2>3, <2>5, KeyFacts DEF Carries, Sound
  <2>7. HasOrigin(run.pkg, packages', wasApproved')
    BY <2>1, <2>5 DEF Good, Carries, HasOrigin
  <2>8. Good(run)
    BY <2>2, <2>4, <2>5, <2>6, <2>7 DEF Good, Carries
  <2>9. script' = [script EXCEPT ![s] = run]
    BY <1>8 DEF DownloadSource
  <2> QED
    BY <1>m, <2>8, <2>9
<1>9. ASSUME NEW s \in Scripts, Upload(s)
      PROVE  ScriptsInv'
  <2> DEFINE run == [script[s] EXCEPT !.at = "create"]
  <2>1. script[s] \in RunningScripts /\ Good(script[s])
    BY <1>9, <1>k DEF Upload, Idle
  <2>2. script[s].env \in Envs /\ script[s].pkg.url \in Keys
    BY <2>1 DEF RunningScripts, Packages
  <2>3. objects'[script[s].env][script[s].pkg.url] = script[s].data
    BY <1>9, <1>t, <2>2 DEF Upload, TypeOK
  <2>4. run.at = "create" /\ run.env = script[s].env /\ run.pkg = script[s].pkg
    BY <2>1 DEF RunningScripts
  <2>5. Good(run)
    BY <1>9, <2>1, <2>3, <2>4 DEF Good, Carries, Upload
  <2>6. script' = [script EXCEPT ![s] = run]
    BY <1>9 DEF Upload
  <2> QED
    BY <1>m, <2>5, <2>6
<1>10. ASSUME NEW s \in Scripts, CreateModelPackage(s) \/ Die(s)
       PROVE  ScriptsInv'
  BY <1>10, <1>m DEF CreateModelPackage, Die
<1>11. ASSUME NEW s \in Scripts, ScriptStep(s)
       PROVE  ScriptsInv'
  BY <1>1, <1>2, <1>3, <1>4, <1>5, <1>6, <1>7, <1>8, <1>9, <1>10, <1>11 DEF ScriptStep
<1> QED
  BY <1>11, <1>n DEF Next, vars, TrainingEnds, EditInferenceCode, ColdStart, Review, Host

(* An endpoint loads what its version points at. *)
LEMMA EndpointsStep == Inv /\ [Next]_vars => EndpointsInv'
<1> SUFFICES ASSUME Inv, [Next]_vars PROVE EndpointsInv'
  OBVIOUS
<1>t. TypeOK /\ PackagesInv /\ ObjectsOfTheirRun /\ EndpointsInv /\ Grows
  BY GrowsStep DEF Inv
<1>a. ASSUME NEW env \in Envs, NEW version \in DOMAIN packages[env]
      PROVE  RunIdOf[objects[env][packages[env][version].url].job] = packages[env][version].run
  <2>1. packages[env][version].url \in Keys
    BY <1>t, VersionArtifact
  <2> QED
    BY <1>t, <2>1 DEF PackagesInv, ObjectsOfTheirRun, Sound
<1>1. CASE UNCHANGED endpoint
  BY <1>t, <1>1 DEF EndpointsInv, Grows, SameButStatus
<1>2. ASSUME NEW env \in Envs, NEW version \in DOMAIN packages[env], Host(env, version)
      PROVE  EndpointsInv'
  <2> DEFINE loaded == [version |-> version,
                        artifact |-> objects[env][packages[env][version].url]]
  <2>1. endpoint' = [endpoint EXCEPT ![env] = loaded] /\ UNCHANGED <<packages, wasApproved>>
    BY <1>2 DEF Host
  <2>2. version \in wasApproved[env]
    BY <1>t, <1>2 DEF Host, PackagesInv
  <2>3. RunIdOf[loaded.artifact.job] = packages[env][version].run
    BY <1>a
  <2> HIDE DEF loaded
  <2>4. loaded.version = version
    BY DEF loaded
  <2> QED
    BY <1>t, <2>1, <2>2, <2>3, <2>4 DEF EndpointsInv, TypeOK
<1>3. ASSUME NEW env \in Envs, ColdStart(env)
      PROVE  EndpointsInv'
  <2> DEFINE version == endpoint[env].version
             artifact == objects[env][packages[env][version].url]
  <2>1. endpoint[env] \in Endpoints /\ endpoint[env] # None
    BY <1>t, <1>3 DEF ColdStart, TypeOK
  <2>2. version \in DOMAIN packages[env] /\ version \in wasApproved[env]
    BY <1>t, <2>1 DEF EndpointsInv
  <2>3. RunIdOf[artifact.job] = packages[env][version].run
    BY <1>a, <2>2
  <2>4. /\ endpoint' = [endpoint EXCEPT ![env] = [endpoint[env] EXCEPT !.artifact = artifact]]
        /\ UNCHANGED <<packages, wasApproved>>
    BY <1>3 DEF ColdStart
  <2>5. endpoint'[env].version = version /\ endpoint'[env].artifact = artifact
    BY <1>t, <2>1, <2>4 DEF TypeOK, Endpoints
  <2> QED
    BY <1>t, <2>2, <2>3, <2>4, <2>5 DEF EndpointsInv, TypeOK
<1> QED
  BY <1>1, <1>2, <1>3, StepKinds DEF Upload, CreateModelPackage, TrainingEnds, Review

-----------------------------------------------------------------------------
(* The theorems.                                                           *)

(* The invariant is inductive. *)
LEMMA InvHolds == Spec => []Inv
<1>1. Inv /\ [Next]_vars => Inv'
  BY TypeStep, ObjectsStep, JobsStep, PackagesStep, ScriptsStep, EndpointsStep DEF Inv
<1> QED
  BY InvInit, <1>1, PTL DEF Spec

(* Type correctness of the three scripts, the registries and endpoints.    *)
THEOREM TypeCorrect == Spec => []TypeOK
<1>1. Inv => TypeOK
  BY DEF Inv
<1> QED
  BY InvHolds, <1>1, PTL

(* However the scripts interleave and die, a registered version's artifact *)
(* exists and is of the run its metadata names; of the very job when no    *)
(* two jobs share a run id.                                                *)
THEOREM MetadataDescribesArtifactHolds == Spec => []MetadataDescribesArtifact
<1>1. Inv => MetadataDescribesArtifact
  <2> SUFFICES ASSUME Inv, NEW env \in Envs, NEW version \in DOMAIN packages[env]
               PROVE  LET pkg == packages[env][version]
                          artifact == objects[env][pkg.url]
                      IN /\ artifact # None
                         /\ RunIdOf[artifact.job] = pkg.run
                         /\ RunIdsDistinct => artifact.job = pkg.card
    BY DEF MetadataDescribesArtifact
  <2> DEFINE pkg == packages[env][version]
             artifact == objects[env][pkg.url]
  <2>1. pkg \in Packages /\ pkg.url \in Keys /\ artifact \in Artifacts
    BY VersionFacts, VersionArtifact DEF Inv
  <2>2. artifact # None /\ pkg.run = RunIdOf[pkg.card] /\ RunOfKey(pkg.url) = pkg.run
    BY DEF Inv, PackagesInv, Sound
  <2>3. RunIdOf[artifact.job] = pkg.run
    BY <2>1, <2>2 DEF Inv, ObjectsOfTheirRun
  <2>4. artifact.job \in Jobs /\ pkg.card \in Jobs
    BY <2>1 DEF Artifacts, Packages
  <2> QED
    BY <2>2, <2>3, <2>4 DEF RunIdsDistinct
<1> QED
  BY InvHolds, <1>1, PTL

(* A promoted version's source exists, has its metadata, and was Approved. *)
THEOREM ProvenanceIsTrueHolds == Spec => []ProvenanceIsTrue
<1>1. Inv => ProvenanceIsTrue
  BY DEF Inv, PackagesInv, HasOrigin, ProvenanceIsTrue
<1> QED
  BY InvHolds, <1>1, PTL

(* An endpoint runs an artifact of its version's run, although cold starts *)
(* read the object again.                                                  *)
THEOREM EndpointRunsItsVersionHolds == Spec => []EndpointRunsItsVersion
<1>1. Inv => EndpointRunsItsVersion
  BY DEF Inv, EndpointsInv, EndpointRunsItsVersion
<1> QED
  BY InvHolds, <1>1, PTL

(* No script overwrites the artifact of a training job.                    *)
THEOREM TrainingArtifactsAreKeptHolds == Spec => TrainingArtifactsAreKept
<1> DEFINE Kept == \A job \in Jobs :
             LET kept == objects[TrainingEnv][TrainingKey(job)]
             IN kept # None =>
                  objects'[TrainingEnv][TrainingKey(job)] = kept
<1>1. Inv /\ [Next]_vars => [Kept]_vars
  <2> SUFFICES ASSUME Inv, [Next]_vars, NEW job \in Jobs,
                      objects[TrainingEnv][TrainingKey(job)] # None
               PROVE  objects'[TrainingEnv][TrainingKey(job)]
                        = objects[TrainingEnv][TrainingKey(job)]
    OBVIOUS
  <2>1. ASSUME NEW k \in Jobs, TrainingEnds(k)
        PROVE  objects'[TrainingEnv][TrainingKey(job)]
                 = objects[TrainingEnv][TrainingKey(job)]
    <3>1. jobs[job] = "completed" /\ jobs[k] = "running"
      BY <2>1 DEF Inv, CompletedJobsHaveArtifacts, TrainingEnds
    <3>2. TrainingKey(k) # TrainingKey(job)
      BY <3>1 DEF TrainingKey
    <3> QED
      BY <2>1, <3>2, KeyFacts, TrainingEnvAssumption DEF Inv, TypeOK, TrainingEnds
  <2> QED
    BY <2>1, TrainingArtifactsStay
<1> QED
  BY InvHolds, <1>1, PTL DEF Spec, TrainingArtifactsAreKept

=============================================================================
