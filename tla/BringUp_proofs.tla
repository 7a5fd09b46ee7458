---------------------------- MODULE BringUp_proofs ----------------------------
(***************************************************************************)
(* Proofs about what brings the plant up: the deployment of the bundles    *)
(* implements the rollout it promises and its attempts end, the HMI is     *)
(* provisioned only with its password rotated, the script's runs end and   *)
(* their end vouches for what they made, and the checks of the logic add   *)
(* up.                                                                     *)
(***************************************************************************)
EXTENDS PlcBootstrap, ScadaProvision, LogicBaseline, TLAPS

-----------------------------------------------------------------------------
(***************************************************************************)
(* Deployment.                                                             *)
(***************************************************************************)

\* Concluding the loop's controller moves the head of the loop past it.
LEMMA ConcludeKeeps ==
    ASSUME BootInv, step # "down", plc \in Plc,
           NEW r \in {"RUNNING", "SKIP", "FAILED"}, Conclude(r)
    PROVE  /\ step' = "next" /\ plc' \in 1 .. N + 1
           /\ results' \in [Plc -> {"pending", "RUNNING", "SKIP", "FAILED"}]
           /\ { p \in Plc : results'[p] # "pending" } = 1 .. plc' - 1
           /\ sent' = sent /\ sentinel' = sentinel
<1>1. results \in [Plc -> {"pending", "RUNNING", "SKIP", "FAILED"}]
      /\ { p \in Plc : results[p] # "pending" } = 1 .. plc - 1
  BY DEF BootInv
<1>2. results' = [results EXCEPT ![plc] = r] /\ plc' = plc + 1 /\ step' = "next"
      /\ sent' = sent /\ sentinel' = sentinel
  BY DEF Conclude
<1>3. \A p \in Plc : results'[p] = IF p = plc THEN r ELSE results[p]
  BY <1>1, <1>2
<1>4. 1 .. plc' - 1 = (1 .. plc - 1) \cup {plc}
  BY <1>2, BootstrapAssumption DEF Plc
<1>5. { p \in Plc : results'[p] # "pending" } = (1 .. plc - 1) \cup {plc}
  BY <1>1, <1>3
<1>6. plc' \in 1 .. N + 1
  BY <1>2, BootstrapAssumption DEF Plc
<1> QED BY <1>1, <1>2, <1>4, <1>5, <1>6

\* The steps of the deployer that do not start or end an attempt.
LEMMA DeployerKeepsInv == BootInv /\ DeployerStep => BootInv'
<1> SUFFICES ASSUME BootInv, DeployerStep PROVE BootInv'
  OBVIOUS
<1> USE DEF GoOn, runtimeVars
<1>1. CASE LoopOn
  <2>1. CASE bundle[plc] = "none"
    BY <1>1, <2>1, ConcludeKeeps DEF LoopOn, BootInv
  <2>2. CASE bundle[plc] # "none"
    BY <1>1, <2>2 DEF LoopOn, BootInv
  <2> QED BY <2>1, <2>2
<1>2. CASE Finish
  BY <1>2 DEF Finish, BootInv
<1>3. CASE WaitReady
  <2>1. CASE up[plc]
    BY <1>3, <2>1 DEF WaitReady, BootInv
  <2>2. CASE ~up[plc]
    BY <1>3, <2>2, ConcludeKeeps DEF WaitReady, BootInv
  <2> QED BY <2>1, <2>2
<1>4. CASE CreateUser
  BY <1>4 DEF CreateUser, BootInv
<1>5. CASE Login
  BY <1>5 DEF Login, BootInv
<1>6. CASE Upload
  <2>1. CASE Accept(plc)
    BY <1>6, <2>1 DEF Upload, Accept, BootInv
  <2>2. CASE Reject(plc)
    BY <1>6, <2>2, ConcludeKeeps DEF Upload, Reject, BootInv
  <2> QED BY <1>6, <2>1, <2>2 DEF Upload
<1>7. CASE PollCompilation
  <2>1. CASE build[plc] = "SUCCESS"
    BY <1>7, <2>1 DEF PollCompilation, Compiled, BootInv
  <2>2. CASE build[plc] # "SUCCESS"
    BY <1>7, <2>2, ConcludeKeeps DEF PollCompilation, Compiled, BootInv
  <2> QED BY <2>1, <2>2
<1>8. CASE StartPlc
  BY <1>8 DEF StartPlc, BootInv
<1>9. CASE PollStatus
  <2>1. CASE loaded[plc] # "none"
    BY <1>9, <2>1, ConcludeKeeps DEF PollStatus, BootInv
  <2>2. CASE loaded[plc] = "none"
    BY <1>9, <2>2, ConcludeKeeps DEF PollStatus, BootInv
  <2> QED BY <2>1, <2>2
<1>10. CASE Raise
  BY <1>10 DEF Raise, BootInv
<1> QED BY <1>1, <1>2, <1>3, <1>4, <1>5, <1>6, <1>7, <1>8, <1>9, <1>10
       DEF DeployerStep

\* The steps of the runtimes, and the faults.
LEMMA EnvironmentKeepsInv ==
    ASSUME BootInv,
           \/ \E p \in Plc :
                \/ RuntimeStarts(p) \/ CompilationSucceeds(p)
                \/ RuntimeDies(p) \/ CompilationFails(p)
                \/ \E v \in Versions \cup {"none"} : BundleChanges(p, v)
           \/ CompilationTimesOut \/ StartRefused \/ UploadRefused \/ DeployerDies
    PROVE  BootInv'
<1> USE DEF deployerVars, runtimeVars
<1>0. Fault => faults' \in 0 .. MaxFaults
  BY BootstrapAssumption DEF Fault, BootInv
<1>1. ASSUME NEW p \in Plc, RuntimeStarts(p) PROVE BootInv'
  BY <1>1 DEF RuntimeStarts, BootInv
<1>2. ASSUME NEW p \in Plc, CompilationSucceeds(p) PROVE BootInv'
  BY <1>2 DEF CompilationSucceeds, CompilationEnds, BootInv
<1>3. ASSUME NEW p \in Plc, RuntimeDies(p) PROVE BootInv'
  BY <1>0, <1>3 DEF RuntimeDies, BootInv
<1>4. ASSUME NEW p \in Plc, CompilationFails(p) PROVE BootInv'
  BY <1>0, <1>4 DEF CompilationFails, CompilationEnds, BootInv
<1>5. ASSUME NEW p \in Plc, NEW v \in Versions \cup {"none"}, BundleChanges(p, v)
      PROVE  BootInv'
  BY <1>0, <1>5 DEF BundleChanges, BootInv
<1>6. CASE CompilationTimesOut
  BY <1>0, <1>6, ConcludeKeeps DEF CompilationTimesOut, BootInv
<1>7. CASE StartRefused
  BY <1>0, <1>7 DEF StartRefused, GoOn, BootInv
<1>9. CASE UploadRefused
  BY <1>0, <1>9 DEF UploadRefused, GoOn, BootInv
<1>8. CASE DeployerDies
  BY <1>0, <1>8 DEF DeployerDies, GoOn, BootInv
<1> QED BY <1>1, <1>2, <1>3, <1>4, <1>5, <1>6, <1>7, <1>8, <1>9

\* The invariant of the deployment, for any number of controllers, versions
\* and faults: the loop concludes controllers in order (deploy.py:142-168).
THEOREM BootInvariant == BootSpec => []BootInv
<1>1. BootInit => BootInv
  <2> SUFFICES ASSUME BootInit PROVE BootInv
    OBVIOUS
  <2>1. step = "down" /\ plc \in 1 .. N + 1 /\ faults \in 0 .. MaxFaults
    BY BootstrapAssumption DEF BootInit
  <2>2. up \in [Plc -> BOOLEAN]
    BY DEF BootInit
  <2>3. image \in [Plc -> Versions \cup {"none", "old"}]
    BY DEF BootInit
  <2> QED BY <2>1, <2>2, <2>3 DEF BootInit, BootInv
<1>2. BootInv /\ [BootNext]_bootVars => BootInv'
  <2> SUFFICES ASSUME BootInv, [BootNext]_bootVars PROVE BootInv'
    OBVIOUS
  <2>1. CASE Begin
    BY <2>1, BootstrapAssumption DEF Begin, BootInv, runtimeVars, Plc
  <2>2. CASE DeployerStep
    BY <2>2, DeployerKeepsInv
  <2>3. CASE UNCHANGED bootVars
    BY <2>3 DEF bootVars, deployerVars, runtimeVars, BootInv
  <2> QED BY <2>1, <2>2, <2>3, EnvironmentKeepsInv DEF BootNext
<1> QED BY <1>1, <1>2, PTL DEF BootSpec

\* A step that moves nothing of the mapped state stutters.
LEMMA Stutters ==
    ASSUME Attempt' = Attempt, results' = results, sentinel' = sentinel
    PROVE  [RO!RolloutNext]_(RO!rolloutVars)
BY DEF RO!rolloutVars

\* Concluding a controller is a ConcludeOne of the rollout.
LEMMA ConcludeRefines ==
    ASSUME BootInv, step \notin {"down", "done"}, plc \in Plc,
           NEW r \in {"RUNNING", "SKIP", "FAILED"}, Conclude(r)
    PROVE  [RO!RolloutNext]_(RO!rolloutVars)
<1>1. Attempt = "going" /\ Attempt' = "going"
  BY DEF Conclude, Attempt
<1>2. RO!Concluded = 1 .. plc - 1
  BY DEF RO!Concluded, BootInv, Plc
<1>3. RO!ConcludeOne(plc, r)
  BY <1>1, <1>2 DEF RO!ConcludeOne, Conclude
<1>4. r \in RO!Outcomes \ {"pending"} /\ plc \in 1 .. N
  BY DEF RO!Outcomes, Plc
<1> QED BY <1>3, <1>4 DEF RO!RolloutNext

\* Going on, to the next request or to the end of the process.
LEMMA GoOnRefines ==
    ASSUME step # "down", NEW next, next # "done", GoOn(next),
           step # "done" \/ next = "down"
    PROVE  [RO!RolloutNext]_(RO!rolloutVars)
<1>1. CASE next = "down"
  BY <1>1 DEF GoOn, Attempt, RO!RolloutNext, RO!Abandon
<1>2. CASE next # "down"
  <2>1. Attempt = "going" /\ Attempt' = "going"
    BY <1>2 DEF GoOn, Attempt
  <2> QED BY <2>1, Stutters DEF GoOn
<1> QED BY <1>1, <1>2

\* An attempt that ends does so as the rollout allows.
LEMMA FinishRefines ==
    ASSUME BootInv, Finish PROVE [RO!RolloutNext]_(RO!rolloutVars)
<1>1. Attempt = "going" /\ results' = results
  BY DEF Finish, Attempt
<1>2. CASE Failed
  BY <1>1, <1>2 DEF Finish, Attempt, BootInv, RO!RolloutNext, RO!Abandon
<1>3. CASE ~Failed
  <2>1. plc = N + 1
    BY BootstrapAssumption DEF Finish, BootInv, Plc
  <2>2. { p \in Plc : results[p] # "pending" } = Plc
    BY <2>1, BootstrapAssumption DEF Finish, BootInv, Plc
  <2>3. \A p \in 1 .. N : results[p] \in {"RUNNING", "SKIP"}
    BY <1>3, <2>2 DEF Failed, BootInv, Plc
  <2>4. Attempt' = "done" /\ sentinel' = TRUE
    BY <1>3 DEF Finish, Attempt
  <2> QED BY <1>1, <2>3, <2>4 DEF RO!RolloutNext, RO!Succeed
<1> QED BY <1>2, <1>3

\* Every other step of the deployer concludes a controller or goes on.
LEMMA DeployerRefines ==
    ASSUME BootInv, DeployerStep PROVE [RO!RolloutNext]_(RO!rolloutVars)
<1>1. CASE LoopOn
  BY <1>1, ConcludeRefines, GoOnRefines DEF LoopOn
<1>2. CASE Finish
  BY <1>2, FinishRefines
<1>3. CASE WaitReady
  BY <1>3, ConcludeRefines, GoOnRefines DEF WaitReady, BootInv
<1>4. CASE CreateUser
  BY <1>4, GoOnRefines DEF CreateUser
<1>5. CASE Login
  BY <1>5, GoOnRefines DEF Login
<1>6. CASE Upload
  <2>1. CASE Accept(plc)
    <3>1. Attempt = "going" /\ Attempt' = "going"
      BY <1>6, <2>1 DEF Upload, Accept, Attempt
    <3> QED BY <2>1, <3>1, Stutters DEF Accept
  <2>2. CASE Reject(plc)
    BY <1>6, <2>2, ConcludeRefines DEF Upload, Reject, BootInv
  <2> QED BY <1>6, <2>1, <2>2 DEF Upload
<1>7. CASE PollCompilation
  BY <1>7, ConcludeRefines, GoOnRefines DEF PollCompilation, Compiled, BootInv
<1>8. CASE StartPlc
  BY <1>8, GoOnRefines DEF StartPlc
<1>9. CASE PollStatus
  BY <1>9, ConcludeRefines DEF PollStatus, BootInv
<1>10. CASE Raise
  BY <1>10, GoOnRefines DEF Raise
<1> QED BY <1>1, <1>2, <1>3, <1>4, <1>5, <1>6, <1>7, <1>8, <1>9, <1>10
       DEF DeployerStep

\* The runtimes are not part of the promise; the end of the process abandons.
LEMMA EnvironmentRefines ==
    ASSUME BootInv,
           \/ \E p \in Plc :
                \/ RuntimeStarts(p) \/ CompilationSucceeds(p)
                \/ RuntimeDies(p) \/ CompilationFails(p)
                \/ \E v \in Versions \cup {"none"} : BundleChanges(p, v)
           \/ CompilationTimesOut \/ StartRefused \/ UploadRefused \/ DeployerDies
    PROVE  [RO!RolloutNext]_(RO!rolloutVars)
<1>1. ASSUME UNCHANGED deployerVars PROVE [RO!RolloutNext]_(RO!rolloutVars)
  BY <1>1, Stutters DEF deployerVars, Attempt
<1>2. CASE CompilationTimesOut
  BY <1>2, ConcludeRefines DEF CompilationTimesOut, BootInv
<1>3. CASE StartRefused
  BY <1>3, GoOnRefines DEF StartRefused
<1>5. CASE UploadRefused
  BY <1>5, GoOnRefines DEF UploadRefused
<1>4. CASE DeployerDies
  BY <1>4, GoOnRefines DEF DeployerDies
<1> QED BY <1>1, <1>2, <1>3, <1>4, <1>5
       DEF RuntimeStarts, CompilationSucceeds, CompilationEnds, RuntimeDies,
           CompilationFails, BundleChanges

\* deploy.py implements the rollout, whatever runtimes and bundles do and
\* wherever it is interrupted (deploy.py:142-168).
THEOREM DeploymentIsARollout == BootSpec => ImplementsRollout
<1>1. BootInit => RO!RolloutInit
  BY DEF BootInit, RO!RolloutInit, Attempt, Plc
<1>2. BootInv /\ [BootNext]_bootVars => [RO!RolloutNext]_(RO!rolloutVars)
  <2> SUFFICES ASSUME BootInv, [BootNext]_bootVars
               PROVE  [RO!RolloutNext]_(RO!rolloutVars)
    OBVIOUS
  <2>1. CASE Begin
    BY <2>1 DEF Begin, Attempt, Plc, RO!RolloutNext, RO!BeginAttempt
  <2>2. CASE DeployerStep
    BY <2>2, DeployerRefines
  <2>3. CASE UNCHANGED bootVars
    BY <2>3, Stutters DEF bootVars, deployerVars, Attempt
  <2> QED BY <2>1, <2>2, <2>3, EnvironmentRefines DEF BootNext
<1> QED BY <1>1, <1>2, BootInvariant, PTL
       DEF BootSpec, ImplementsRollout, RO!RolloutSpec

-----------------------------------------------------------------------------
\* What stands behind RUNNING: a runtime that gives up its program for a
\* compilation has only the uploaded one to run, from the upload on.
UploadInv ==
    ~keepsRunning =>
        \A p \in Plc :
            \/ results[p] = "RUNNING"
            \/ p = plc /\ step \in {"compilation-status", "start-plc", "status"}
            => image[p] = sent[p] /\ loaded[p] \in {"none", sent[p]}

\* The deployer's steps: only the upload and start-plc touch a runtime, and
\* both that of the loop's controller, which is not concluded yet.
LEMMA DeployerKeepsUpload ==
    ASSUME BootInv, UploadInv, ~keepsRunning, DeployerStep PROVE UploadInv'
<1> USE DEF GoOn, runtimeVars
<1>0. plc \in Plc /\ step # "down" => results[plc] # "RUNNING"
  <2> SUFFICES ASSUME plc \in Plc, step # "down" PROVE results[plc] = "pending"
    OBVIOUS
  <2>1. plc \notin 1 .. plc - 1
    BY BootstrapAssumption DEF Plc
  <2> QED BY <2>1 DEF BootInv
<1>1. ASSUME NEW r \in {"SKIP", "FAILED"}, Conclude(r), UNCHANGED runtimeVars,
             UNCHANGED keepsRunning
      PROVE  UploadInv'
  BY <1>1 DEF Conclude, BootInv, UploadInv
<1>2. CASE LoopOn
  BY <1>1, <1>2 DEF LoopOn, UploadInv
<1>3. CASE Finish
  BY <1>3 DEF Finish, UploadInv
<1>4. CASE WaitReady
  BY <1>1, <1>4 DEF WaitReady, UploadInv
<1>5. CASE CreateUser
  BY <1>5 DEF CreateUser, UploadInv
<1>6. CASE Login
  BY <1>6 DEF Login, UploadInv
<1>7. CASE Upload
  <2>1. CASE Accept(plc)
    BY <1>0, <1>7, <2>1 DEF Upload, Accept, BootInv, UploadInv
  <2>2. CASE Reject(plc)
    BY <1>1, <1>7, <2>2 DEF Upload, Reject
  <2> QED BY <1>7, <2>1, <2>2 DEF Upload
<1>8. CASE PollCompilation
  BY <1>1, <1>8 DEF PollCompilation, Compiled, UploadInv
<1>9. CASE StartPlc
  BY <1>9 DEF StartPlc, BootInv, UploadInv
<1>10. CASE PollStatus
  <2>1. CASE loaded[plc] # "none"
    BY <1>10, <2>1 DEF PollStatus, Conclude, BootInv, UploadInv
  <2>2. CASE loaded[plc] = "none"
    BY <1>1, <1>10, <2>2 DEF PollStatus
  <2> QED BY <2>1, <2>2
<1>11. CASE Raise
  BY <1>11 DEF Raise, UploadInv
<1> QED BY <1>2, <1>3, <1>4, <1>5, <1>6, <1>7, <1>8, <1>9, <1>10, <1>11
       DEF DeployerStep

\* The runtimes' steps: a runtime starts what it had, what it has compiled, or
\* nothing.
LEMMA EnvironmentKeepsUpload ==
    ASSUME BootInv, UploadInv, ~keepsRunning,
           \/ \E p \in Plc :
                \/ RuntimeStarts(p) \/ CompilationSucceeds(p)
                \/ RuntimeDies(p) \/ CompilationFails(p)
                \/ \E v \in Versions \cup {"none"} : BundleChanges(p, v)
           \/ CompilationTimesOut \/ StartRefused \/ UploadRefused \/ DeployerDies
    PROVE  UploadInv'
<1> USE DEF deployerVars, runtimeVars
<1>1. ASSUME NEW p \in Plc, RuntimeStarts(p) PROVE UploadInv'
  BY <1>1 DEF RuntimeStarts, BootInv, UploadInv
<1>2. ASSUME UNCHANGED <<step, plc, results, sent, image, loaded, keepsRunning>>
      PROVE  UploadInv'
  BY <1>2 DEF UploadInv
<1>3. CASE CompilationTimesOut
  BY <1>3 DEF CompilationTimesOut, Conclude, BootInv, UploadInv
<1>4. CASE StartRefused
  BY <1>4 DEF StartRefused, GoOn, UploadInv
<1>6. CASE UploadRefused
  BY <1>6 DEF UploadRefused, GoOn, UploadInv
<1>5. CASE DeployerDies
  BY <1>5 DEF DeployerDies, GoOn, UploadInv
<1> QED BY <1>1, <1>2, <1>3, <1>4, <1>5, <1>6
       DEF CompilationSucceeds, CompilationEnds, RuntimeDies, CompilationFails,
           BundleChanges

\* A controller reported RUNNING runs what this attempt uploaded or nothing, if
\* runtimes give up their program to compile (deploy.py:128-136).
THEOREM RunningIsOurs == BootSpec => []RunningIsUploaded
<1>1. BootInit => UploadInv
  BY DEF BootInit, UploadInv
<1>2. BootInv /\ UploadInv /\ [BootNext]_bootVars => UploadInv'
  <2> SUFFICES ASSUME BootInv, UploadInv, [BootNext]_bootVars PROVE UploadInv'
    OBVIOUS
  <2>1. keepsRunning' = keepsRunning
    BY DEF BootNext, bootVars, Begin, DeployerStep, LoopOn, Finish, WaitReady,
       CreateUser, Login, Upload, PollCompilation, StartPlc, PollStatus, Raise,
       RuntimeStarts, CompilationSucceeds, CompilationEnds, RuntimeDies,
       CompilationFails, BundleChanges, CompilationTimesOut, StartRefused,
       UploadRefused, DeployerDies
  <2>2. CASE keepsRunning
    BY <2>1, <2>2 DEF UploadInv
  <2>3. CASE ~keepsRunning
    <3>1. CASE Begin
      BY <3>1 DEF Begin, runtimeVars, UploadInv
    <3>2. CASE DeployerStep
      BY <2>3, <3>2, DeployerKeepsUpload
    <3>3. CASE UNCHANGED bootVars
      BY <3>3 DEF bootVars, deployerVars, runtimeVars, UploadInv
    <3> QED BY <2>3, <3>1, <3>2, <3>3, EnvironmentKeepsUpload DEF BootNext
  <2> QED BY <2>2, <2>3
<1>3. UploadInv => RunningIsUploaded
  BY DEF UploadInv, RunningIsUploaded
<1> QED BY <1>1, <1>2, <1>3, BootInvariant, PTL DEF BootSpec

-----------------------------------------------------------------------------
\* The steps an attempt has left, at most: one for each request deploy() may
\* still send for the controller at hand, and eight, the head of the loop among
\* them, for each one behind it and for the end of the loop.
ForThisOne(s) ==
    CASE s = "next" -> 8
      [] s = "version" -> 7
      [] s = "create-user" -> 6
      [] s = "login" -> 5
      [] s = "upload" -> 4
      [] s = "compilation-status" -> 3
      [] s = "start-plc" -> 2
      [] s = "status" -> 1
      [] OTHER -> 0

StepsLeft ==
    IF step \in {"down", "done"} THEN 0
    ELSE 8 * (N + 1 - plc) + ForThisOne(step)

LEMMA StepsAreCounted ==
    BootInv => StepsLeft \in 0 .. 8 * N + 8
<1> SUFFICES ASSUME BootInv PROVE StepsLeft \in 0 .. 8 * N + 8
  OBVIOUS
<1>1. plc \in 1 .. N + 1 /\ N \in Nat /\ (step \notin {"next", "down", "done"} => plc <= N)
  BY BootstrapAssumption DEF BootInv, Plc
<1>2. ForThisOne(step) \in 0 .. 8
  BY DEF BootInv, ForThisOne
<1> QED BY <1>1, <1>2 DEF StepsLeft

\* Concluding a controller, going on to a later request and giving up all take
\* from what is left.
LEMMA ConcludeSpends ==
    ASSUME BootInv, step \notin {"down", "done", "next"} \/ plc \in Plc,
           step \notin {"down", "done"}, NEW r, Conclude(r)
    PROVE  StepsLeft' < StepsLeft
<1>1. plc \in Nat /\ N \in Nat /\ plc' = plc + 1 /\ step' = "next"
  BY BootstrapAssumption DEF Conclude, BootInv
<1>2. plc <= N /\ ForThisOne(step) \in 1 .. 8
  BY DEF BootInv, Plc, ForThisOne
<1>3. ForThisOne(step') = 8
  BY <1>1 DEF ForThisOne
<1> QED BY <1>1, <1>2, <1>3 DEF StepsLeft

LEMMA GoOnSpends ==
    ASSUME BootInv, step \notin {"down", "done"}, NEW next, GoOn(next),
           next = "down" \/ ForThisOne(next) < ForThisOne(step),
           ForThisOne(next) \in Nat, next # "done"
    PROVE  StepsLeft' < StepsLeft
<1>1. plc \in Nat /\ N \in Nat /\ plc <= N + 1 /\ plc' = plc /\ step' = next
  BY BootstrapAssumption DEF GoOn, BootInv
<1>2. ForThisOne(step) \in 1 .. 8
  BY DEF BootInv, ForThisOne
<1> QED BY <1>1, <1>2 DEF StepsLeft

LEMMA DeployerSpends ==
    ASSUME BootInv, DeployerStep PROVE StepsLeft' < StepsLeft
<1> USE DEF ForThisOne
<1>1. CASE LoopOn
  BY <1>1, ConcludeSpends, GoOnSpends DEF LoopOn
<1>2. CASE Finish
  <2>1. plc \in Nat /\ N \in Nat /\ plc <= N + 1
    BY BootstrapAssumption DEF BootInv
  <2> QED BY <1>2, <2>1 DEF Finish, StepsLeft
<1>3. CASE WaitReady
  BY <1>3, ConcludeSpends, GoOnSpends DEF WaitReady
<1>4. CASE CreateUser
  BY <1>4, GoOnSpends DEF CreateUser
<1>5. CASE Login
  BY <1>5, GoOnSpends DEF Login
<1>6. CASE Upload
  <2>1. CASE Accept(plc)
    <3>1. GoOn("compilation-status") \/ (step' = "compilation-status" /\ plc' = plc)
      BY <2>1 DEF Accept
    <3>2. plc \in Nat /\ N \in Nat /\ plc <= N + 1
      BY BootstrapAssumption DEF BootInv
    <3> QED BY <1>6, <2>1, <3>2 DEF Upload, Accept, StepsLeft
  <2>2. CASE Reject(plc)
    BY <1>6, <2>2, ConcludeSpends DEF Upload, Reject
  <2> QED BY <1>6, <2>1, <2>2 DEF Upload
<1>7. CASE PollCompilation
  BY <1>7, ConcludeSpends, GoOnSpends DEF PollCompilation, Compiled
<1>8. CASE StartPlc
  BY <1>8, GoOnSpends DEF StartPlc
<1>9. CASE PollStatus
  BY <1>9, ConcludeSpends DEF PollStatus
<1>10. CASE Raise
  BY <1>10, GoOnSpends DEF Raise
<1> QED BY <1>1, <1>2, <1>3, <1>4, <1>5, <1>6, <1>7, <1>8, <1>9, <1>10
       DEF DeployerStep

\* An attempt ends: it begins with eight steps for each controller and eight for
\* the loop's end, each step of deploy.py takes at least one of them, and nothing
\* a runtime, a fault or a changed bundle does gives one back.  Only the
\* container's next start does (deploy.py:142-168, every poll with its deadline).
THEOREM AttemptsEnd ==
    BootSpec => /\ [](StepsLeft \in 0 .. 8 * N + 8)
                /\ [][ /\ DeployerStep => StepsLeft' < StepsLeft
                       /\ ~Begin => StepsLeft' <= StepsLeft ]_bootVars
<1>1. BootInv => StepsLeft \in 0 .. 8 * N + 8
  BY StepsAreCounted
<1>2. BootInv /\ (StepsLeft \in 0 .. 8 * N + 8)' /\ [BootNext]_bootVars
          => [/\ DeployerStep => StepsLeft' < StepsLeft
              /\ ~Begin => StepsLeft' <= StepsLeft]_bootVars
  <2> SUFFICES ASSUME BootInv, (StepsLeft \in 0 .. 8 * N + 8)', BootNext
               PROVE  /\ DeployerStep => StepsLeft' < StepsLeft
                      /\ ~Begin => StepsLeft' <= StepsLeft
    BY DEF bootVars
  <2>1. StepsLeft \in Nat
    BY <1>1, BootstrapAssumption
  <2>2. ASSUME UNCHANGED <<step, plc>> PROVE StepsLeft' <= StepsLeft
    BY <2>1, <2>2 DEF StepsLeft
  <2>3. ASSUME NEW p \in Plc,
               \/ RuntimeStarts(p) \/ CompilationSucceeds(p)
               \/ RuntimeDies(p) \/ CompilationFails(p)
               \/ \E v \in Versions \cup {"none"} : BundleChanges(p, v)
        PROVE  UNCHANGED <<step, plc>>
    BY <2>3 DEF RuntimeStarts, CompilationSucceeds, CompilationEnds, RuntimeDies,
       CompilationFails, BundleChanges, deployerVars
  <2>4. StepsLeft' < StepsLeft => StepsLeft' <= StepsLeft
    BY <2>1, BootstrapAssumption
  <2>5. ASSUME CompilationTimesOut PROVE StepsLeft' <= StepsLeft
    BY <2>4, <2>5, ConcludeSpends DEF CompilationTimesOut
  <2>6. ASSUME StartRefused PROVE StepsLeft' <= StepsLeft
    BY <2>4, <2>6, GoOnSpends DEF StartRefused, ForThisOne
  <2>10. ASSUME UploadRefused PROVE StepsLeft' <= StepsLeft
    BY <2>4, <2>10, GoOnSpends DEF UploadRefused, ForThisOne
  <2>7. ASSUME DeployerDies PROVE StepsLeft' <= StepsLeft
    <3>1. step = "done" => UNCHANGED plc /\ StepsLeft' <= StepsLeft
      BY <2>1, <2>7 DEF DeployerDies, GoOn, StepsLeft
    <3>2. CASE step # "done"
      <4>1. step # "down" /\ GoOn("down")
        BY <2>7 DEF DeployerDies
      <4>2. ForThisOne("down") \in Nat
        BY DEF ForThisOne
      <4>3. StepsLeft' < StepsLeft
        BY <3>2, <4>1, <4>2, GoOnSpends
      <4> QED BY <2>4, <4>3
    <3> QED BY <3>1, <3>2
  <2>8. DeployerStep => StepsLeft' < StepsLeft
    BY DeployerSpends
  <2>9. ASSUME ~Begin, ~DeployerStep PROVE StepsLeft' <= StepsLeft
    <3>1. CASE CompilationTimesOut \/ StartRefused \/ UploadRefused \/ DeployerDies
      BY <2>5, <2>6, <2>7, <2>10, <3>1
    <3>2. CASE \E p \in Plc :
                  \/ RuntimeStarts(p) \/ CompilationSucceeds(p)
                  \/ RuntimeDies(p) \/ CompilationFails(p)
                  \/ \E v \in Versions \cup {"none"} : BundleChanges(p, v)
      <4>1. UNCHANGED <<step, plc>>
        BY <2>3, <3>2
      <4> QED BY <2>2, <4>1
    <3> QED BY <2>9, <3>1, <3>2 DEF BootNext
  <2> QED BY <2>4, <2>8, <2>9
<1> QED BY <1>1, <1>2, BootInvariant, PTL DEF BootSpec

-----------------------------------------------------------------------------
(***************************************************************************)
(* Provisioning.                                                           *)
(***************************************************************************)

\* Where the script is: before its loops the first target is at hand, in them
\* some target, whose datasource exists once its requests come to the points.
Start == Logins \cup {"user-id", "others-password", "password"}
OfSource == {"list", "update", "create"}
OfPoint == {"point", "add-point", "point-id", "history"}
Last == {"view", "add-view", "touch", "done"}

ProvInv ==
    /\ line \in Start \cup OfSource \cup OfPoint \cup Last \cup {"exit"}
    /\ ProvisionedIsRotated
    /\ source \in [Sources -> {"none", "stale", "right"}]
    /\ line \in Start \cup OfSource \cup OfPoint => ds \in Sources
    /\ line \in Start => ds = 1
    /\ line \in OfSource \cup OfPoint => \A d \in 1 .. ds - 1 : source[d] # "none"
    /\ line = "update" \/ line \in OfPoint => source[ds] # "none"
    /\ SourcesExist

\* Targets are numbered from one, and there is one.
LEMMA SourcesAreNumbered ==
    Len(Points) \in Nat /\ Sources = 1 .. Len(Points) /\ 1 \in Sources
<1>1. Points \in Seq(Nat \ {0}) /\ Points # <<>>
  BY ProvisionAssumption
<1>2. Len(Points) \in Nat /\ Sources = 1 .. Len(Points)
  BY <1>1 DEF Sources
<1> QED BY <1>1, <1>2

\* The next register, the next target, or the end of the loops.
LEMMA NextPointKeepsInv ==
    ASSUME ProvInv, line \in OfPoint, NextPoint, password' = password,
           source' = source
    PROVE  ProvInv'
<1>1. Len(Points) \in Nat /\ Sources = 1 .. Len(Points)
  BY SourcesAreNumbered
<1>2. ds \in 1 .. Len(Points) /\ \A d \in 1 .. ds : source[d] # "none"
  <2>1. /\ ds \in 1 .. Len(Points) /\ source[ds] # "none"
        /\ \A d \in 1 .. ds - 1 : source[d] # "none"
    BY <1>1 DEF ProvInv
  <2>2. \A d \in 1 .. ds : d = ds \/ d \in 1 .. ds - 1
    BY <2>1
  <2> QED BY <2>1, <2>2
<1>3. password = "ours" /\ provisioned' = provisioned
  BY DEF ProvInv, ProvisionedIsRotated, NextPoint, OfPoint, Logins
<1>4. CASE offset < Points[ds]
  BY <1>1, <1>2, <1>3, <1>4 DEF NextPoint, ProvInv, ProvisionedIsRotated,
     SourcesExist, Start, OfSource, OfPoint, Last, Logins
<1>5. CASE ~(offset < Points[ds]) /\ ds = Len(Points)
  BY <1>1, <1>2, <1>3, <1>5 DEF NextPoint, ProvInv, ProvisionedIsRotated,
     SourcesExist, Start, OfSource, OfPoint, Last, Logins
<1>6. CASE ~(offset < Points[ds]) /\ ds # Len(Points)
  <2>1. line' = "list" /\ ds' = ds + 1 /\ ds' \in Sources
    BY <1>1, <1>2, <1>6 DEF NextPoint
  <2>2. \A d \in 1 .. ds' - 1 : source[d] # "none"
    BY <1>2, <2>1
  <2> QED BY <1>1, <1>3, <2>1, <2>2 DEF ProvInv, ProvisionedIsRotated,
     SourcesExist, Start, OfSource, OfPoint, Last, Logins
<1> QED BY <1>4, <1>5, <1>6

\* The requests of the login.
LEMMA LoginKeepsInv ==
    ASSUME ProvInv, NEW a \in Answers,
           \/ LoginOurs(a) \/ LoginDefault(a) \/ LookUpAdmin(a)
           \/ RotateOther(a) \/ Rotate(a) \/ LoginAgain(a)
    PROVE  ProvInv'
<1>1. source' = source /\ ds' = ds /\ provisioned' = provisioned
      /\ line \in Start /\ line' \in Start \cup {"list", "exit"}
      /\ (password' = password \/ password' = "ours")
      /\ (line' = "list" => password' = "ours")
  BY DEF LoginOurs, LoginDefault, LookUpAdmin, RotateOther, Rotate, LoginAgain,
     Request, To, Retry,
     scadaVars, Start, Logins
<1>2. ds' = 1 /\ ds' \in Sources /\ \A d \in 1 .. ds' - 1 : FALSE
  BY <1>1 DEF ProvInv
<1>3. (line' \notin Start \cup {"exit"} \/ provisioned' => password' = "ours")
      /\ (line' \in Start \cup {"list", "exit"})
  BY <1>1 DEF ProvInv, ProvisionedIsRotated, Start
<1> QED BY <1>1, <1>2, <1>3 DEF ProvInv, ProvisionedIsRotated, SourcesExist,
       Start, OfSource, OfPoint, Last, Logins

\* The requests of the loops and of the view.
LEMMA LoopKeepsInv ==
    ASSUME ProvInv, NEW a \in Answers,
           \/ ListSources(a) \/ UpdateSource(a) \/ CreateSource(a)
           \/ LookUpPoint(a) \/ AddPoint(a) \/ PointId(a) \/ EnableHistory(a)
           \/ LookUpView(a) \/ AddView(a)
    PROVE  ProvInv'
<1>0. Sources = 1 .. Len(Points) /\ Len(Points) \in Nat
  BY SourcesAreNumbered
<1> USE DEF ProvInv, ProvisionedIsRotated, SourcesExist, Request, To, scadaVars,
        Start, OfSource, OfPoint, Last, Logins
<1>1. CASE ListSources(a)
  BY <1>1 DEF ListSources, Exists
<1>2. CASE UpdateSource(a)
  BY <1>0, <1>2 DEF UpdateSource
<1>3. CASE CreateSource(a)
  BY <1>0, <1>3 DEF CreateSource, Created, Obeyed
<1>4. CASE LookUpPoint(a)
  BY <1>4 DEF LookUpPoint
<1>5. CASE AddPoint(a)
  BY <1>5 DEF AddPoint
<1>6. CASE PointId(a)
  BY <1>6, NextPointKeepsInv DEF PointId
<1>7. CASE EnableHistory(a)
  BY <1>7, NextPointKeepsInv DEF EnableHistory
<1>8. CASE LookUpView(a)
  BY <1>8 DEF LookUpView
<1>9. CASE AddView(a)
  BY <1>9 DEF AddView
<1> QED BY <1>1, <1>2, <1>3, <1>4, <1>5, <1>6, <1>7, <1>8, <1>9

\* The invariant of the provisioning, for any targets, faults and logins.
LEMMA ProvInvariant == ProvSpec => []ProvInv
<1>1. ProvInit => ProvInv
  BY ProvisionAssumption DEF ProvInit, ProvInv, ProvisionedIsRotated,
     SourcesExist, Start, OfSource, OfPoint, Last, Logins
<1>2. ProvInv /\ [ProvNext]_provVars => ProvInv'
  <2> SUFFICES ASSUME ProvInv, [ProvNext]_provVars PROVE ProvInv'
    OBVIOUS
  <2>1. CASE ScriptStep
    <3>1. CASE Touch
      BY <3>1 DEF Touch, scadaVars, ProvInv, ProvisionedIsRotated,
         SourcesExist, Start, OfSource, OfPoint, Last, Logins
    <3> QED BY <2>1, <3>1, LoginKeepsInv, LoopKeepsInv DEF ScriptStep
  <2>2. CASE RunScript
    BY <2>2, SourcesAreNumbered DEF RunScript, scadaVars, ProvInv,
       ProvisionedIsRotated, SourcesExist, Start, OfSource, OfPoint, Last, Logins
  <2>3. ASSUME UNCHANGED <<line, ds, provisioned, password, source>>
        PROVE  ProvInv'
    BY <2>3 DEF ProvInv, ProvisionedIsRotated, SourcesExist, Start, OfSource,
       OfPoint, Last, Logins
  <2>4. ASSUME line' = "exit", UNCHANGED <<ds, provisioned, password, source>>
        PROVE  ProvInv'
    BY <2>4 DEF ProvInv, ProvisionedIsRotated, SourcesExist, Start, OfSource,
       OfPoint, Last, Logins
  <2>5. CASE ScadaStarts \/ UNCHANGED provVars
    BY <2>3, <2>5 DEF ScadaStarts, provVars, scriptVars, scadaVars
  <2>6. CASE ScadaFault
    BY <2>3, <2>4, <2>6 DEF ScadaFault, To, scriptVars, scadaVars
  <2> QED BY <2>1, <2>2, <2>5, <2>6 DEF ProvNext
<1> QED BY <1>1, <1>2, PTL DEF ProvSpec

\* Nothing is provisioned, and no container healthy, with another password
\* than the rotated one (provision.sh:41-57).
THEOREM ProvisionedWithOurs == ProvSpec => []ProvisionedIsRotated
<1>1. ProvInv => ProvisionedIsRotated
  BY DEF ProvInv
<1> QED BY <1>1, ProvInvariant, PTL

\* A run that ends well has all its datasources, whatever answers it got
\* (provision.sh:72-107).
THEOREM DatasourcesExist == ProvSpec => []SourcesExist
<1>1. ProvInv => SourcesExist
  BY DEF ProvInv
<1> QED BY <1>1, ProvInvariant, PTL

\* The targets whose datasource, and the registers whose point, the script has
\* dealt with.
Reached(d) == line \in Last \/ d < ds \/ (d = ds /\ line \in OfPoint)
Behind(d, k) == line \in Last \/ d < ds \/ (d = ds /\ k < offset)

\* The register at hand is one of the target at hand.
Placed ==
    /\ line \in Start \cup OfSource => offset = 1
    /\ line \in OfPoint => offset \in 1 .. Points[ds]
    /\ points \subseteq AllPoints /\ logged \subseteq AllPoints

\* What the run has done so far, if nothing worse happened to it than refused
\* connections.
Found ==
    mishaps \subseteq Broken =>
        /\ \A d \in Sources : Reached(d) => source[d] = "right"
        /\ \A d \in Sources : \A k \in 1 .. Points[d] : Behind(d, k) => <<d, k>> \in points
        /\ line \in {"point-id", "history"} => Point \in points
        /\ line \in {"touch", "done"} => view

\* And if nothing at all did.
Recorded ==
    mishaps = {} =>
        \A d \in Sources : \A k \in 1 .. Points[d] : Behind(d, k) => <<d, k>> \in logged

VouchInv == Placed /\ (line # "exit" => Found /\ Recorded)

\* Where the script's lines are.
LEMMA Lines ==
    /\ \A l \in Start \cup OfSource : l \notin OfPoint /\ l \notin Last /\ l # "exit"
    /\ \A l \in OfPoint : l \notin Last /\ l \notin Start \cup OfSource /\ l # "exit"
    /\ \A l \in Last : l \notin OfPoint /\ l \notin Start \cup OfSource /\ l # "exit"
  BY DEF Start, OfSource, OfPoint, Last, Logins

\* What NextPoint leaves behind: the register at hand, and nothing new but it.
LEMMA NextPointPasses ==
    ASSUME ProvInv, Placed, line \in OfPoint, NextPoint
    PROVE  /\ line' \in {"point", "list", "view"} /\ ds \in Sources
           /\ offset \in 1 .. Points[ds]
           /\ line' \in Start \cup OfSource => offset' = 1
           /\ line' \in OfPoint => offset' \in 1 .. Points[ds']
           /\ \A d \in Sources : Reached(d)' => Reached(d)
           /\ \A d \in Sources : \A k \in 1 .. Points[d] :
                 Behind(d, k)' => Behind(d, k) \/ (d = ds /\ k = offset)
<1>1. /\ Len(Points) \in Nat /\ Sources = 1 .. Len(Points) /\ ds \in 1 .. Len(Points)
      /\ offset \in 1 .. Points[ds]
  BY SourcesAreNumbered DEF ProvInv, Placed
<1>2. \A d \in Sources : Points[d] \in Nat \ {0}
  BY ProvisionAssumption DEF Sources
<1>3. PICK L, m : L = Len(Points) /\ m = Points[ds]
  OBVIOUS
<1>4. L \in Nat /\ Sources = 1 .. L /\ ds \in 1 .. L /\ m \in Nat \ {0} /\ offset \in 1 .. m
  BY <1>1, <1>2, <1>3
<1>5. line \notin Last
  BY Lines
<1>6. CASE offset < m
  <2>1. line' = "point" /\ ds' = ds /\ offset' = offset + 1
    BY <1>3, <1>6 DEF NextPoint
  <2>2. line' \in OfPoint
    BY <2>1 DEF OfPoint
  <2>3. line' \notin Last /\ line' \notin Start \cup OfSource
    BY <2>2, Lines
  <2>4. offset' \in 1 .. Points[ds']
    BY <1>3, <1>4, <1>6, <2>1
  <2>5. \A d \in Sources : Reached(d)' => Reached(d)
    BY <2>1, <2>3 DEF Reached
  <2>6. ASSUME NEW d \in Sources, NEW k \in 1 .. Points[d], Behind(d, k)'
        PROVE  Behind(d, k) \/ (d = ds /\ k = offset)
    <3>1. k \in Nat
      BY <1>2
    <3>2. d < ds \/ (d = ds /\ k < offset + 1)
      BY <2>1, <2>3, <2>6 DEF Behind
    <3>3. d < ds \/ (d = ds /\ k < offset) \/ (d = ds /\ k = offset)
      BY <1>4, <3>1, <3>2
    <3> QED BY <3>3 DEF Behind
  <2> QED BY <1>1, <2>1, <2>3, <2>4, <2>5, <2>6
<1>7. CASE ~(offset < m)
  <2>1. offset = m
    BY <1>4, <1>7
  <2>2. line' = (IF ds = L THEN "view" ELSE "list") /\ offset' = 1 /\ ds' = ds + 1
    BY <1>3, <1>7 DEF NextPoint
  <2>3. "list" \in OfSource /\ "view" \in Last
    BY DEF OfSource, Last
  <2>4. line' \notin OfPoint /\ (line' \in Last => ds = L)
    BY <2>2, <2>3, Lines
  <2>5. ASSUME NEW d \in Sources, Reached(d)' PROVE d < ds \/ d = ds
    <3>1. ds = L \/ d < ds + 1
      BY <2>2, <2>4, <2>5 DEF Reached
    <3> QED BY <1>4, <3>1
  <2>6. ASSUME NEW d \in Sources, NEW k \in 1 .. Points[d], Behind(d, k)'
        PROVE  Behind(d, k) \/ (d = ds /\ k = offset)
    <3>1. k \in Nat /\ k <= Points[d]
      BY <1>2
    <3>2. ds = L \/ d < ds + 1 \/ (d = ds + 1 /\ k < 1)
      BY <2>2, <2>4, <2>6 DEF Behind
    <3>3. k >= 1
      BY <1>2
    <3>4. d < ds \/ d = ds
      BY <1>4, <3>1, <3>2, <3>3
    <3>5. d = ds => k < offset \/ k = offset
      BY <1>3, <1>4, <2>1, <3>1
    <3> QED BY <3>4, <3>5 DEF Behind
  <2>7. \A d \in Sources : Reached(d)' => Reached(d)
    BY <2>5 DEF Reached
  <2>8. line' \in {"point", "list", "view"}
    BY <2>2
  <2> QED BY <1>1, <2>2, <2>4, <2>6, <2>7, <2>8
<1> QED BY <1>6, <1>7

\* The register at hand is dealt with.
LEMMA NextPointVouches ==
    ASSUME ProvInv, VouchInv, line \in {"point-id", "history"}, NextPoint,
           mishaps \subseteq mishaps', source' = source, points' = points, view' = view,
           logged \subseteq logged', logged' \subseteq logged \cup {Point},
           mishaps' = {} => Point \in logged'
    PROVE  VouchInv'
<1>1. /\ line \in OfPoint /\ line # "exit"
  BY DEF OfPoint
<1>2. Placed /\ Found /\ Recorded
  BY <1>1 DEF VouchInv
<1>3. /\ line' \in {"point", "list", "view"} /\ ds \in Sources
      /\ offset \in 1 .. Points[ds]
      /\ line' \in Start \cup OfSource => offset' = 1
      /\ line' \in OfPoint => offset' \in 1 .. Points[ds']
      /\ \A d \in Sources : Reached(d)' => Reached(d)
      /\ \A d \in Sources : \A k \in 1 .. Points[d] :
            Behind(d, k)' => Behind(d, k) \/ (d = ds /\ k = offset)
  BY <1>1, <1>2, NextPointPasses
<1>4. Point \in AllPoints
  <2>1. <<ds, offset>> \in {ds} \X (1 .. Points[ds])
    BY <1>3
  <2> QED BY <1>3, <2>1 DEF AllPoints, Point
<1>5. Placed'
  BY <1>2, <1>3, <1>4 DEF Placed
<1>6. Found'
  <2> SUFFICES ASSUME mishaps' \subseteq Broken PROVE Found'
    BY DEF Found
  <2>1. /\ \A d \in Sources : Reached(d) => source[d] = "right"
        /\ \A d \in Sources : \A k \in 1 .. Points[d] : Behind(d, k) => <<d, k>> \in points
        /\ Point \in points
    BY <1>2 DEF Found
  <2>2. \A d \in Sources : Reached(d)' => source'[d] = "right"
    BY <1>3, <2>1
  <2>3. \A d \in Sources : \A k \in 1 .. Points[d] : Behind(d, k)' => <<d, k>> \in points'
    BY <1>3, <2>1 DEF Point
  <2>4. line' \notin {"point-id", "history"} /\ line' \notin {"touch", "done"}
    BY <1>3
  <2> QED BY <2>2, <2>3, <2>4 DEF Found
<1>7. Recorded'
  <2> SUFFICES ASSUME mishaps' = {} PROVE Recorded'
    BY DEF Recorded
  <2>1. \A d \in Sources : \A k \in 1 .. Points[d] : Behind(d, k) => <<d, k>> \in logged
    BY <1>2 DEF Recorded
  <2>2. \A d \in Sources : \A k \in 1 .. Points[d] : Behind(d, k)' => <<d, k>> \in logged'
    BY <1>3, <2>1 DEF Point
  <2> QED BY <2>2 DEF Recorded
<1> QED BY <1>5, <1>6, <1>7 DEF VouchInv

\* A request that stays at the register at hand.
LEMMA StayVouches ==
    ASSUME ProvInv, VouchInv, line # "exit", Placed',
           mishaps \subseteq mishaps', ds' = ds, offset' = offset,
           points \subseteq points', logged \subseteq logged', view => view',
           \A d \in Sources : source[d] = "right" => source'[d] = "right",
           line' \in Last => line \in Last,
           line' \in OfPoint => line \in OfPoint
                   \/ (mishaps' \subseteq Broken => source'[ds] = "right"),
           line' \in {"point-id", "history"} =>
                (mishaps' \subseteq Broken => Point \in points'),
           line' \in {"touch", "done"} =>
                (mishaps' \subseteq Broken => view')
    PROVE  VouchInv'
<1>1. Found /\ Recorded
  BY DEF VouchInv
<1>2. \A d, k : Behind(d, k)' => Behind(d, k)
  BY DEF Behind
<1>3. Found'
  <2> SUFFICES ASSUME mishaps' \subseteq Broken PROVE Found'
    BY DEF Found
  <2>1. /\ \A d \in Sources : Reached(d) => source[d] = "right"
        /\ \A d \in Sources : \A k \in 1 .. Points[d] : Behind(d, k) => <<d, k>> \in points
    BY <1>1 DEF Found
  <2>2. ASSUME NEW d \in Sources, Reached(d)' PROVE source'[d] = "right"
    <3>1. line \in Last \/ d < ds \/ (d = ds /\ line' \in OfPoint)
      BY <2>2 DEF Reached
    <3>2. CASE Reached(d)
      BY <2>1, <3>2
    <3>3. CASE ~Reached(d)
      BY <3>1, <3>3 DEF Reached
    <3> QED BY <3>2, <3>3
  <2>3. \A d \in Sources : \A k \in 1 .. Points[d] : Behind(d, k)' => <<d, k>> \in points'
    BY <1>2, <2>1
  <2>4. line' \in {"point-id", "history"} => Point' \in points'
    BY DEF Point
  <2> QED BY <2>2, <2>3, <2>4 DEF Found
<1>4. Recorded'
  BY <1>1, <1>2 DEF Recorded
<1> QED BY <1>3, <1>4 DEF VouchInv

\* The requests of the login.
LEMMA LoginVouches ==
    ASSUME ProvInv, VouchInv, NEW a \in Answers,
           \/ LoginOurs(a) \/ LoginDefault(a) \/ LookUpAdmin(a)
           \/ RotateOther(a) \/ Rotate(a) \/ LoginAgain(a)
    PROVE  VouchInv'
<1>1. /\ line \in Start /\ line' \in Start \cup {"list", "exit"}
      /\ ds' = ds /\ offset' = offset /\ mishaps \subseteq mishaps'
      /\ source' = source /\ points' = points /\ logged' = logged /\ view' = view
  BY DEF LoginOurs, LoginDefault, LookUpAdmin, RotateOther, Rotate, LoginAgain,
     Request, To, Retry, Answered,
     scadaVars, Start, Logins
<1>2. /\ line # "exit" /\ line' \notin OfPoint /\ line' \notin Last
      /\ line' \in Start \cup OfSource => line \in Start \cup OfSource
      /\ line' \notin {"point-id", "history"} /\ line' \notin {"touch", "done"}
  BY <1>1 DEF Start, OfSource, OfPoint, Last, Logins
<1>3. Placed'
  BY <1>1, <1>2 DEF VouchInv, Placed
<1> QED BY <1>1, <1>2, <1>3, StayVouches

\* The requests for the datasource at hand.
LEMMA SourceVouches ==
    ASSUME ProvInv, VouchInv, NEW a \in Answers,
           ListSources(a) \/ UpdateSource(a) \/ CreateSource(a)
    PROVE  VouchInv'
<1>1. /\ line \in OfSource /\ line' \in {"update", "create", "point", "exit"}
      /\ ds' = ds /\ offset' = offset /\ mishaps' = mishaps \cup ({a} \ {"ok"})
      /\ points' = points /\ logged' = logged /\ view' = view
  BY DEF ListSources, UpdateSource, CreateSource, Request, To, Answered, scadaVars, OfSource
<1>2. ds \in Sources /\ source \in [Sources -> {"none", "stale", "right"}]
  BY <1>1 DEF ProvInv
<1>3. \A d \in Sources : source[d] = "right" => source'[d] = "right"
  BY <1>2 DEF ListSources, UpdateSource, CreateSource, scadaVars
<1>4. line' = "point" /\ mishaps' \subseteq Broken => source'[ds] = "right"
  <2> SUFFICES ASSUME line' = "point", mishaps' \subseteq Broken
               PROVE  source'[ds] = "right"
    OBVIOUS
  <2>1. a \in {"ok"} \cup Broken
    BY <1>1
  <2>2. CASE ListSources(a)
    BY <2>2 DEF ListSources, To
  <2>3. CASE UpdateSource(a)
    BY <1>2, <2>1, <2>3 DEF UpdateSource, To, Obeyed
  <2>4. CASE CreateSource(a)
    BY <1>2, <2>4 DEF CreateSource, To, Created, Obeyed
  <2> QED BY <2>2, <2>3, <2>4
<1>5. offset = 1 /\ points \subseteq AllPoints /\ logged \subseteq AllPoints
  BY <1>1 DEF VouchInv, Placed
<1>6. 1 \in 1 .. Points[ds]
  <2>1. Points[ds] \in Nat \ {0}
    BY <1>2, ProvisionAssumption DEF Sources
  <2> QED BY <2>1
<1>7. /\ line # "exit" /\ line' \notin Last /\ (line' \in OfPoint => line' = "point")
      /\ line' \notin {"point-id", "history"} /\ line' \notin {"touch", "done"}
  BY <1>1 DEF OfSource, OfPoint, Last
<1>8. Placed'
  BY <1>1, <1>5, <1>6 DEF Placed
<1>9. mishaps \subseteq mishaps'
  BY <1>1
<1> QED BY <1>1, <1>3, <1>4, <1>7, <1>8, <1>9, StayVouches

\* The requests for the register at hand.
LEMMA PointVouches ==
    ASSUME ProvInv, VouchInv, NEW a \in Answers,
           LookUpPoint(a) \/ AddPoint(a) \/ PointId(a) \/ EnableHistory(a)
    PROVE  VouchInv'
<1>1. /\ line \in OfPoint /\ line # "exit" /\ source' = source /\ view' = view
      /\ mishaps' = mishaps \cup ({a} \ {"ok"}) /\ mishaps \subseteq mishaps'
  BY DEF LookUpPoint, AddPoint, PointId, EnableHistory, Request, Answered, scadaVars, OfPoint
<1>2. /\ ds \in Sources /\ offset \in 1 .. Points[ds]
      /\ points \subseteq AllPoints /\ logged \subseteq AllPoints
  BY <1>1 DEF ProvInv, VouchInv, Placed
<1>3. Point \in AllPoints
  <2>1. <<ds, offset>> \in {ds} \X (1 .. Points[ds])
    BY <1>2
  <2> QED BY <1>2, <2>1 DEF AllPoints, Point
<1>4. ASSUME line' \in OfPoint \cup {"exit"}, ds' = ds, offset' = offset,
             points' \in {points, points \cup {Point}},
             logged' \in {logged, logged \cup {Point}},
             line' \in {"point-id", "history"} =>
                 (mishaps' \subseteq Broken => Point \in points')
      PROVE  VouchInv'
  <2>1. Placed'
    <3>1. line' \notin Start \cup OfSource
      BY <1>4 DEF OfPoint, Start, OfSource, Logins
    <3>2. points' \subseteq AllPoints /\ logged' \subseteq AllPoints
      BY <1>2, <1>3, <1>4
    <3>3. offset' \in 1 .. Points[ds']
      BY <1>2, <1>4
    <3> QED BY <3>1, <3>2, <3>3 DEF Placed
  <2>2. line' \notin Last /\ line' \notin {"touch", "done"}
    BY <1>4 DEF OfPoint, Last
  <2>3. points \subseteq points' /\ logged \subseteq logged'
    BY <1>4
  <2> QED BY <1>1, <1>4, <2>1, <2>2, <2>3, StayVouches
<1>5. mishaps' \subseteq Broken => a \in {"ok"} \cup Broken
  BY <1>1
<1>6. CASE LookUpPoint(a)
  <2>1. /\ line' = (IF a = "ok" /\ Point \in points THEN "point-id" ELSE "add-point")
        /\ ds' = ds /\ offset' = offset /\ points' = points /\ logged' = logged
    BY <1>6 DEF LookUpPoint, To, scadaVars
  <2> QED BY <1>4, <2>1 DEF OfPoint
<1>7. CASE AddPoint(a)
  <2>1. /\ line' = (IF a \in Broken THEN "exit" ELSE "point-id")
        /\ points' = (IF a \in Obeyed THEN points \cup {Point} ELSE points)
        /\ ds' = ds /\ offset' = offset /\ logged' = logged
    BY <1>7 DEF AddPoint, To
  <2>2. line' \in {"point-id", "history"} =>
            (mishaps' \subseteq Broken => Point \in points')
    BY <1>5, <2>1 DEF Obeyed
  <2>3. points' \in {points, points \cup {Point}}
    BY <2>1
  <2> QED BY <1>4, <2>1, <2>2, <2>3 DEF OfPoint
<1>8. CASE PointId(a)
  <2>1. line = "point-id" /\ points' = points /\ logged' = logged
    BY <1>8 DEF PointId, Request, scadaVars
  <2>2. CASE a = "ok" /\ Point \in points
    <3>1. line' = "history" /\ ds' = ds /\ offset' = offset
      BY <1>8, <2>2 DEF PointId, To
    <3> QED BY <1>4, <2>1, <2>2, <3>1 DEF OfPoint
  <2>3. CASE ~(a = "ok" /\ Point \in points) /\ a = "page"
    <3>1. line' = "exit" /\ ds' = ds /\ offset' = offset
      BY <1>8, <2>3 DEF PointId, To
    <3> QED BY <1>4, <2>1, <3>1
  <2>4. CASE ~(a = "ok" /\ Point \in points) /\ a # "page"
    <3>1. NextPoint
      BY <1>8, <2>4 DEF PointId
    <3>2. mishaps' # {}
      <4> SUFFICES ASSUME mishaps' = {} PROVE FALSE
        OBVIOUS
      <4>1. a = "ok" /\ mishaps \subseteq Broken
        BY <1>1
      <4>2. Point \in points
        BY <1>1, <2>1, <4>1 DEF VouchInv, Found
      <4> QED BY <2>4, <4>1, <4>2
    <3> QED BY <1>1, <2>1, <3>1, <3>2, NextPointVouches
  <2> QED BY <2>2, <2>3, <2>4
<1>9. CASE EnableHistory(a)
  <2>1. /\ line = "history" /\ points' = points
        /\ logged' = (IF a \in Obeyed THEN logged \cup {Point} ELSE logged)
    BY <1>9 DEF EnableHistory, Request
  <2>2. CASE a \in Broken
    <3>1. line' = "exit" /\ ds' = ds /\ offset' = offset /\ logged' \in {logged, logged \cup {Point}}
      BY <1>9, <2>1, <2>2 DEF EnableHistory, To
    <3> QED BY <1>4, <2>1, <3>1
  <2>3. CASE a \notin Broken
    <3>1. NextPoint
      BY <1>9, <2>3 DEF EnableHistory
    <3>2. mishaps' = {} => Point \in logged'
      BY <1>1, <2>1 DEF Obeyed
    <3>3. logged \subseteq logged' /\ logged' \subseteq logged \cup {Point}
      BY <2>1
    <3> QED BY <1>1, <2>1, <3>1, <3>2, <3>3, NextPointVouches
  <2> QED BY <2>2, <2>3
<1> QED BY <1>6, <1>7, <1>8, <1>9

\* The requests for the view, and the mark the script leaves.
LEMMA ViewVouches ==
    ASSUME ProvInv, VouchInv,
           \/ \E a \in Answers : LookUpView(a) \/ AddView(a)
           \/ Touch
    PROVE  VouchInv'
<1> DEFINE Moved ==
             /\ line \in Last /\ line' \in Last \cup {"exit"} /\ ds' = ds /\ offset' = offset
             /\ mishaps \subseteq mishaps' /\ source' = source /\ points' = points
             /\ logged' = logged
<1>1. Moved
  <2>1. ASSUME NEW a \in Answers, LookUpView(a) PROVE Moved
    BY <2>1 DEF LookUpView, Request, To, Answered, scadaVars, Last
  <2>2. ASSUME NEW a \in Answers, AddView(a) PROVE Moved
    BY <2>2 DEF AddView, Request, To, Answered, Last
  <2>3. CASE Touch
    BY <2>3 DEF Touch, scadaVars, Last
  <2> HIDE DEF Moved
  <2> QED BY <2>1, <2>2, <2>3
<1>2. /\ line # "exit" /\ line' \notin OfPoint /\ line' \notin Start \cup OfSource
      /\ line' \notin {"point-id", "history"}
  BY <1>1 DEF Start, OfSource, OfPoint, Last, Logins
<1>3. line' \in {"touch", "done"} => (mishaps' \subseteq Broken => view')
  <2> SUFFICES ASSUME line' \in {"touch", "done"}, mishaps' \subseteq Broken
               PROVE  view'
    OBVIOUS
  <2>1. ASSUME NEW a \in Answers, LookUpView(a) PROVE view'
    BY <2>1 DEF LookUpView, To, scadaVars
  <2>2. ASSUME NEW a \in Answers, AddView(a) PROVE view'
    <3>1. mishaps' = mishaps \cup ({a} \ {"ok"})
      BY <2>2 DEF AddView, Request, Answered
    <3>2. a \in {"ok"} \cup Broken
      BY <3>1
    <3> QED BY <2>2, <3>2 DEF AddView, To, Obeyed
  <2>3. CASE Touch
    <3>1. line = "touch" /\ view' = view /\ mishaps' = mishaps
      BY <2>3 DEF Touch, scadaVars
    <3> QED BY <1>2, <3>1 DEF VouchInv, Found
  <2> QED BY <2>1, <2>2, <2>3
<1>4. Placed'
  BY <1>1, <1>2 DEF VouchInv, Placed
<1>5. view => view'
  BY Zenon DEF LookUpView, AddView, Touch, scadaVars
<1> QED BY <1>1, <1>2, <1>3, <1>4, <1>5, Zenon, StayVouches

LEMMA VouchStep ==
    ASSUME ProvInv, VouchInv, [ProvNext]_provVars
    PROVE  VouchInv'
<1>1. CASE ScriptStep
  <2>1. CASE Touch
    BY <2>1, ViewVouches
  <2>2. ASSUME NEW a \in Answers,
               \/ LoginOurs(a) \/ LoginDefault(a) \/ LookUpAdmin(a)
               \/ RotateOther(a) \/ Rotate(a) \/ LoginAgain(a)
               \/ ListSources(a) \/ UpdateSource(a) \/ CreateSource(a)
               \/ LookUpPoint(a) \/ AddPoint(a) \/ PointId(a) \/ EnableHistory(a)
               \/ LookUpView(a) \/ AddView(a)
        PROVE  VouchInv'
    BY <2>2, LoginVouches, SourceVouches, PointVouches, ViewVouches
  <2> QED BY <1>1, <2>1, <2>2 DEF ScriptStep
<1>2. CASE RunScript
  <2>1. /\ line' = "auth" /\ ds' = 1 /\ offset' = 1 /\ points' = points /\ logged' = logged
    BY <1>2 DEF RunScript, scadaVars
  <2>2. /\ line' \notin OfPoint /\ line' \notin Last
        /\ line' \notin {"point-id", "history"} /\ line' \notin {"touch", "done"}
    BY <2>1 DEF OfPoint, Last
  <2>3. \A d \in Sources : ~Reached(d)'
    <3>1. \A d \in Sources : ~(d < 1)
      BY SourcesAreNumbered
    <3> QED BY <2>1, <2>2, <3>1 DEF Reached
  <2>4. ASSUME NEW d \in Sources, NEW k \in 1 .. Points[d] PROVE ~Behind(d, k)'
    <3>1. ~(d < 1) /\ ~(k < 1)
      <4>1. Points[d] \in Nat
        BY ProvisionAssumption DEF Sources
      <4> QED BY <4>1, SourcesAreNumbered
    <3> QED BY <2>1, <2>2, <3>1 DEF Behind
  <2>5. Placed'
    BY <2>1, <2>2 DEF VouchInv, Placed
  <2>6. Found' /\ Recorded'
    BY <2>2, <2>3, <2>4 DEF Found, Recorded
  <2> QED BY <2>5, <2>6 DEF VouchInv
<1>3. CASE UNCHANGED <<line, ds, offset, mishaps, source, points, logged, view>>
  BY <1>3 DEF VouchInv, Placed, Found, Recorded, Reached, Behind, Point
<1>4. CASE line' = "exit" /\ UNCHANGED <<points, logged>>
  <2>1. line' \notin Start \cup OfSource /\ line' \notin OfPoint
    BY <1>4 DEF Start, OfSource, OfPoint, Logins
  <2> QED BY <1>4, <2>1 DEF VouchInv, Placed
<1>5. CASE ScadaStarts \/ UNCHANGED provVars
  BY <1>3, <1>5 DEF ScadaStarts, provVars, scriptVars, scadaVars
<1>6. CASE ScadaFault
  BY <1>3, <1>4, <1>6 DEF ScadaFault, To, scriptVars, scadaVars
<1> QED BY <1>1, <1>2, <1>5, <1>6 DEF ProvNext

LEMMA VouchInvariant == ProvSpec => []VouchInv
<1>1. ProvInit => VouchInv
  <2> SUFFICES ASSUME ProvInit PROVE VouchInv
    OBVIOUS
  <2>1. line = "exit" /\ points \in {{}, AllPoints} /\ logged = {}
    BY DEF ProvInit
  <2>2. line \notin Start \cup OfSource /\ line \notin OfPoint
    BY <2>1 DEF Start, OfSource, OfPoint, Logins
  <2> QED BY <2>1, <2>2 DEF VouchInv, Placed
<1> QED BY <1>1, VouchStep, ProvInvariant, PTL DEF ProvSpec

\* What the end of the script vouches for, by the worst that happened to the
\* run, for any targets, registers and faults (provision.sh:72-196).
THEOREM ProvisioningVouches == ProvSpec => []CompletionVouches
<1>1. ProvInv /\ VouchInv => CompletionVouches
  <2> SUFFICES ASSUME ProvInv, VouchInv, line = "done" PROVE CompletionVouches
    BY DEF CompletionVouches
  <2>1. line \in Last /\ line # "exit" /\ line \in {"touch", "done"}
    BY DEF Last
  <2>2. password = "ours" /\ \A d \in Sources : source[d] # "none"
    BY DEF ProvInv, ProvisionedIsRotated, SourcesExist, Logins
  <2>3. Placed /\ Found /\ Recorded
    BY <2>1 DEF VouchInv
  <2>4. ASSUME NEW S, S \subseteq AllPoints,
               \A d \in Sources : \A k \in 1 .. Points[d] : <<d, k>> \in S
        PROVE  S = AllPoints
    BY <2>4 DEF AllPoints
  <2>5. \A d \in Sources : Reached(d)
    BY <2>1 DEF Reached
  <2>6. \A d, k : Behind(d, k)
    BY <2>1 DEF Behind
  <2>7. mishaps \subseteq Broken =>
            (\A d \in Sources : source[d] = "right") /\ points = AllPoints /\ view
    BY <2>1, <2>3, <2>4, <2>5, <2>6 DEF Found, Placed
  <2>8. mishaps = {} => logged = AllPoints
    BY <2>3, <2>4, <2>6 DEF Recorded, Placed
  <2> QED BY <2>2, <2>7, <2>8 DEF CompletionVouches
<1> QED BY <1>1, VouchInvariant, ProvInvariant, PTL

\* The order of the script's requests within a pass of its loops.
Place(l) ==
    IF l = "auth" THEN 1 ELSE IF l = "default" THEN 2
    ELSE IF l = "user-id" THEN 3
    ELSE IF l \in {"password", "others-password"} THEN 4
    ELSE IF l = "again" THEN 5
    ELSE IF l = "list" THEN 6 ELSE IF l \in {"update", "create"} THEN 7
    ELSE IF l = "point" THEN 8 ELSE IF l = "add-point" THEN 9
    ELSE IF l = "point-id" THEN 10 ELSE IF l = "history" THEN 11
    ELSE IF l = "view" THEN 12 ELSE IF l = "add-view" THEN 13
    ELSE IF l = "touch" THEN 14 ELSE IF l = "done" THEN 15 ELSE 16

\* A step further: by another login, else another target, else another register
\* of it, else a later request.
Further ==
    \/ tries' > tries
    \/ tries' = tries /\ ds' > ds
    \/ UNCHANGED <<tries, ds>> /\ offset' > offset
    \/ UNCHANGED <<tries, ds, offset>> /\ Place(line') > Place(line)

\* None of the four can grow without end.
InBounds ==
    /\ tries \in 0 .. MaxTries + 1
    /\ ds \in 1 .. Len(Points) + 1
    /\ offset \in IF ds \in Sources THEN 1 .. Points[ds] ELSE {1}
    /\ Place(line) \in 1 .. 16

LEMMA NextPointGoesOn ==
    ASSUME ProvInv, VouchInv, line \in OfPoint, NextPoint PROVE Further
<1>1. Len(Points) \in Nat /\ ds \in 1 .. Len(Points)
  BY SourcesAreNumbered DEF ProvInv
<1>2. Points[ds] \in Nat /\ offset \in 1 .. Points[ds]
  BY <1>1, ProvisionAssumption DEF VouchInv, Placed
<1>3. UNCHANGED tries /\ (ds' = ds + 1 \/ (ds' = ds /\ offset' = offset + 1))
  BY DEF NextPoint
<1> QED BY <1>1, <1>2, <1>3 DEF Further

LEMMA ScriptGoesOn ==
    ASSUME ProvInv, VouchInv, tries \in Nat, ScriptStep PROVE Further
<1>1. ASSUME Retry PROVE Further
  BY <1>1 DEF Retry, Further
<1>2. ASSUME NEW a \in Answers, LoginOurs(a) PROVE Further
  BY <1>2 DEF LoginOurs, Request, To, Further, Place
<1>3. ASSUME NEW a \in Answers, LoginDefault(a) PROVE Further
  BY <1>1, <1>3 DEF LoginDefault, Request, To, Further, Place
<1>4. ASSUME NEW a \in Answers, LookUpAdmin(a) \/ RotateOther(a) \/ Rotate(a)
      PROVE  Further
  BY <1>4 DEF LookUpAdmin, RotateOther, Rotate, Request, To, Further, Place
<1>5. ASSUME NEW a \in Answers, LoginAgain(a) PROVE Further
  BY <1>1, <1>5 DEF LoginAgain, Request, To, Further, Place
<1>6. ASSUME NEW a \in Answers, ListSources(a) PROVE Further
  BY <1>6 DEF ListSources, Request, To, Further, Place
<1>7. ASSUME NEW a \in Answers, UpdateSource(a) PROVE Further
  BY <1>7 DEF UpdateSource, Request, To, Further, Place
<1>8. ASSUME NEW a \in Answers, CreateSource(a) PROVE Further
  BY <1>8 DEF CreateSource, Request, To, Further, Place
<1>9. ASSUME NEW a \in Answers, LookUpPoint(a) PROVE Further
  BY <1>9 DEF LookUpPoint, Request, To, Further, Place
<1>10. ASSUME NEW a \in Answers, AddPoint(a) PROVE Further
  BY <1>10 DEF AddPoint, Request, To, Further, Place
<1>11. ASSUME NEW a \in Answers, PointId(a) \/ EnableHistory(a) PROVE Further
  <2>1. line \in {"point-id", "history"} /\ line \in OfPoint
    BY <1>11 DEF PointId, EnableHistory, Request, OfPoint
  <2>2. NextPoint \/ (To("history") /\ line = "point-id") \/ To("exit")
    BY <1>11 DEF PointId, EnableHistory, Request
  <2>3. CASE NextPoint
    BY <2>1, <2>3, NextPointGoesOn
  <2>4. CASE (To("history") /\ line = "point-id") \/ To("exit")
    BY <2>1, <2>4 DEF To, Further, Place
  <2> QED BY <2>2, <2>3, <2>4
<1>12. ASSUME NEW a \in Answers, LookUpView(a) PROVE Further
  BY <1>12 DEF LookUpView, Request, To, Further, Place
<1>13. ASSUME NEW a \in Answers, AddView(a) PROVE Further
  BY <1>13 DEF AddView, Request, To, Further, Place
<1>14. CASE Touch
  BY <1>14 DEF Touch, Further, Place
<1> QED BY <1>2, <1>3, <1>4, <1>5, <1>6, <1>7, <1>8, <1>9, <1>10, <1>11, <1>12,
           <1>13, <1>14 DEF ScriptStep

\* Only failed logins count, and as many as the script allows; the loops stay
\* within their targets and registers.
Counted == InBounds /\ (line # "exit" => tries <= MaxTries)

LEMMA NextPointStays ==
    ASSUME ProvInv, Counted, line \in OfPoint, NextPoint PROVE Counted'
<1>1. Len(Points) \in Nat /\ Sources = 1 .. Len(Points) /\ ds \in Sources
  BY SourcesAreNumbered DEF ProvInv
<1>2. \A d \in Sources : Points[d] \in Nat \ {0}
  BY ProvisionAssumption DEF Sources
<1>3. line # "exit" /\ line' # "exit" /\ tries' = tries /\ Place(line') \in 1 .. 16
  BY DEF NextPoint, OfPoint, Place
<1>4. offset \in 1 .. Points[ds]
  BY <1>1 DEF Counted, InBounds
<1>5. CASE offset < Points[ds]
  <2>1. ds' = ds /\ offset' = offset + 1
    BY <1>5 DEF NextPoint
  <2>2. offset' \in 1 .. Points[ds']
    BY <1>1, <1>2, <1>4, <1>5, <2>1
  <2> QED BY <1>1, <1>3, <2>1, <2>2 DEF Counted, InBounds
<1>6. CASE ~(offset < Points[ds])
  <2>1. ds' = ds + 1 /\ offset' = 1
    BY <1>6 DEF NextPoint
  <2>2. ds' \in 1 .. Len(Points) + 1
    BY <1>1, <2>1
  <2>3. offset' \in IF ds' \in Sources THEN 1 .. Points[ds'] ELSE {1}
    BY <1>2, <2>1
  <2> QED BY <1>3, <2>2, <2>3 DEF Counted, InBounds
<1> QED BY <1>5, <1>6

LEMMA StepsStayCounted == ProvSpec => []Counted
<1>1. ProvInit => Counted
  BY ProvisionAssumption, SourcesAreNumbered DEF ProvInit, Counted, InBounds, Place
<1>2. ProvInv /\ Counted /\ [ProvNext]_provVars => Counted'
  <2> SUFFICES ASSUME ProvInv, Counted, [ProvNext]_provVars PROVE Counted'
    OBVIOUS
  <2>1. MaxTries \in Nat /\ tries \in 0 .. MaxTries + 1
    BY ProvisionAssumption DEF Counted, InBounds
  <2>2. Place(line') \in 1 .. 16
    BY DEF Place
  <2>3. ASSUME UNCHANGED <<tries, ds, offset>>, line # "exit" \/ line' = line
        PROVE  Counted'
    BY <2>2, <2>3 DEF Counted, InBounds
  <2>4. ASSUME line # "exit", Retry PROVE Counted'
    BY <2>1, <2>2, <2>4 DEF Retry, Counted, InBounds
  <2>5. CASE ScriptStep
    <3>1. line # "exit"
      BY <2>5 DEF ScriptStep, LoginOurs, LoginDefault, LookUpAdmin, RotateOther,
         Rotate, LoginAgain,
         ListSources, UpdateSource, CreateSource, LookUpPoint, AddPoint, PointId,
         EnableHistory, LookUpView, AddView, Touch, Request
    <3>2. \/ Retry \/ UNCHANGED <<tries, ds, offset>>
          \/ line \in OfPoint /\ NextPoint
      BY <2>5 DEF ScriptStep, LoginOurs, LoginDefault, LookUpAdmin, RotateOther,
         Rotate, LoginAgain,
         ListSources, UpdateSource, CreateSource, LookUpPoint, AddPoint, PointId,
         EnableHistory, LookUpView, AddView, Touch, To, Request, OfPoint
    <3> QED BY <2>3, <2>4, <3>1, <3>2, NextPointStays
  <2>6. CASE RunScript
    <3>1. tries' = 0 /\ ds' = 1 /\ offset' = 1
      BY <2>6 DEF RunScript
    <3>2. 1 \in 1 .. Points[1] /\ 1 \in Sources /\ 1 \in 1 .. Len(Points) + 1
      BY SourcesAreNumbered, ProvisionAssumption DEF Sources
    <3> QED BY <2>1, <2>2, <3>1, <3>2 DEF Counted, InBounds
  <2>7. CASE ScadaStarts \/ ScadaFault \/ UNCHANGED provVars
    BY <2>3, <2>7 DEF ScadaStarts, ScadaFault, To, provVars, scriptVars
  <2> QED BY <2>5, <2>6, <2>7 DEF ProvNext
<1> QED BY <1>1, <1>2, ProvInvariant, PTL DEF ProvSpec

\* A run of the script ends: each of its steps takes it further, within bounds,
\* whatever it is answered; nothing the HMI or a fault does takes it back, and
\* only the container's restart begins anew (provision.sh:60-67, 106-114).
THEOREM RunsEnd ==
    ProvSpec => /\ []InBounds
                /\ [][ RunScript \/ Further \/ (~ScriptStep /\ UNCHANGED scriptVars) ]_provVars
<1>1. Counted => InBounds
  BY DEF Counted
<1>2. ProvInv /\ VouchInv /\ Counted /\ [ProvNext]_provVars
          => [RunScript \/ Further \/ (~ScriptStep /\ UNCHANGED scriptVars)]_provVars
  <2> SUFFICES ASSUME ProvInv, VouchInv, Counted, ProvNext, ~RunScript, ~Further
               PROVE  ~ScriptStep /\ UNCHANGED scriptVars
    OBVIOUS
  <2>1. ~ScriptStep
    BY ScriptGoesOn, ProvisionAssumption DEF Counted, InBounds
  <2>2. CASE ScadaStarts
    BY <2>1, <2>2 DEF ScadaStarts
  <2>3. CASE ScadaFault
    <3>1. ASSUME line # "exit", To("exit") PROVE Further
      <4>1. line \in Start \cup OfSource \cup OfPoint \cup Last
        BY <3>1 DEF ProvInv
      <4>2. Place(line) < Place("exit")
        BY <4>1 DEF Start, OfSource, OfPoint, Last, Logins, Place
      <4>3. line' = "exit" /\ UNCHANGED <<tries, ds, offset>>
        BY <3>1 DEF To
      <4> QED BY <4>2, <4>3 DEF Further, Place
    <3> QED BY <2>1, <2>3, <3>1 DEF ScadaFault
  <2> QED BY <2>1, <2>2, <2>3 DEF ProvNext
<1> QED BY <1>1, <1>2, ProvInvariant, VouchInvariant, StepsStayCounted, PTL DEF ProvSpec

-----------------------------------------------------------------------------
(***************************************************************************)
(* The checks of the logic.                                                *)
(***************************************************************************)

\* What each check that has passed since the last edit still vouches for.
LogicInv ==
    /\ "verify" \in passed =>
           \A p \in Programs : golden[p] # "none" =>
               st[p] # "none" /\ st[p] = golden[p]
    /\ "build" \in passed => \A p \in Programs : st[p] # "none" => built[p] = st[p]
    /\ "bundles" \in passed =>
           \A p \in Programs : built[p] # "none" => built[p] = head[p]

\* Checks that have all passed on an unchanged repository add up to the
\* committed bundles being the golden programs (build.sh:99-104,
\* check_bundles.py:60-94, plc_integrity_check.py:31-40).
THEOREM ChecksAddUp == LogicSpec => []GreenMeansGolden
<1>1. LogicInit => LogicInv
  BY DEF LogicInit, LogicInv
<1>2. LogicInv /\ [LogicNext]_logicVars => LogicInv'
  <2> SUFFICES ASSUME LogicInv, [LogicNext]_logicVars PROVE LogicInv'
    OBVIOUS
  <2>1. CASE passed' = {}
    BY <2>1 DEF LogicInv
  <2>2. CASE Verify
    BY <2>2 DEF Verify, VerifyStatus, LogicInv
  <2>3. CASE Build
    BY <2>3 DEF Build, Rebuilt, LogicInv
  <2>4. CASE CheckBundles
    BY <2>4 DEF CheckBundles, LogicInv
  <2>5. CASE UNCHANGED logicVars
    BY <2>5 DEF logicVars, LogicInv
  <2> QED BY <2>1, <2>2, <2>3, <2>4, <2>5
         DEF LogicNext, EditSource, EditBundle, Commit, UpdateManifest
<1>3. LogicInv => GreenMeansGolden
  BY DEF LogicInv, GreenMeansGolden
<1> QED BY <1>1, <1>2, <1>3, PTL DEF LogicSpec

=============================================================================
