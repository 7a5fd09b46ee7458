----------------------------- MODULE PlcBootstrap -----------------------------
(***************************************************************************)
(* The deployment of the committed program bundles, plc-bootstrap/         *)
(* deploy.py, run by a container that is restarted until it succeeds (and  *)
(* then serves ssh).  The controllers' runtimes answer its requests; they  *)
(* are modelled from what deploy.py makes of their answers.                *)
(***************************************************************************)
EXTENDS Naturals

CONSTANTS
    N,           \* controllers 1 .. N, in the order of OT_PLC_TARGETS
    Versions,    \* contents a committed bundle may have
    MaxFaults    \* bound: faults, and changes of bundles

ASSUME BootstrapAssumption ==
    N \in Nat \ {0} /\ MaxFaults \in Nat /\ "none" \notin Versions
        /\ "old" \notin Versions

Plc == 1 .. N

VARIABLES
    \* the deployer
    step,        \* "down", "next" (head of the loop), the request of deploy()
                 \* it is about to send, or "done"
    plc,         \* the loop's controller
    results,     \* deploy()'s result in this attempt, "pending" before
    sent,        \* the bundle uploaded in this attempt (history)
    sentinel,    \* does /tmp/deploy.ok exist?
    \* the repository and the runtimes
    bundle,      \* program.zip of each controller, or "none"
    up,          \* does the runtime's API answer?
    account,     \* "none", "ours", or "other": the first user is not ours
    image,       \* what was last accepted for compilation, or "none"
    build,       \* compilation status
    loaded,      \* the program that runs, or ran when the runtime went down;
                 \* "old" is one from before
    keepsRunning,\* does a runtime keep its program while it compiles another?
    faults       \* faults so far

deployerVars == <<step, plc, results, sent, sentinel>>
runtimeVars == <<up, account, image, build, loaded>>
bootVars == <<deployerVars, runtimeVars, bundle, keepsRunning, faults>>

\* Runtimes are booting, or compiling what somebody else has given them.
BootInit ==
    /\ step = "down" /\ plc = 1 /\ sentinel = FALSE
    /\ results = [p \in Plc |-> "pending"] /\ sent = [p \in Plc |-> "none"]
    /\ bundle \in [Plc -> Versions \cup {"none"}]
    /\ account \in [Plc -> {"none", "ours", "other"}]
    /\ build \in [Plc -> {"none", "COMPILING"}]
    /\ up = [p \in Plc |-> build[p] = "COMPILING"]
    /\ image = [p \in Plc |-> IF up[p] THEN "old" ELSE "none"]
    /\ loaded \in [Plc -> {"none", "old"}]
    /\ keepsRunning \in BOOLEAN
    /\ faults = 0

-----------------------------------------------------------------------------
(***************************************************************************)
(* The deployer.                                                           *)
(***************************************************************************)

\* The container runs deploy.py, whatever earlier attempts left behind.
Begin ==
    /\ step = "down"
    /\ step' = "next" /\ plc' = 1
    /\ results' = [p \in Plc |-> "pending"] /\ sent' = [p \in Plc |-> "none"]
    /\ UNCHANGED <<sentinel, runtimeVars, bundle, keepsRunning, faults>>

\* deploy() is over, or was never called: the loop goes on.
Conclude(result) ==
    /\ results' = [results EXCEPT ![plc] = result]
    /\ plc' = plc + 1 /\ step' = "next"
    /\ UNCHANGED <<sent, sentinel>>

GoOn(next) == step' = next /\ UNCHANGED <<plc, results, sent, sentinel>>

\* Variant: a controller that runs its bundle is left alone.
LoopOnIfNeeded ==
    /\ step = "next" /\ plc \in Plc
    /\ IF bundle[plc] = "none" THEN Conclude("SKIP")
       ELSE IF up[plc] /\ loaded[plc] = bundle[plc] THEN Conclude("RUNNING")
       ELSE GoOn("version")
    /\ UNCHANGED <<runtimeVars, bundle, keepsRunning, faults>>

LoopOn ==
    /\ step = "next" /\ plc \in Plc
    /\ IF bundle[plc] = "none" THEN Conclude("SKIP") ELSE GoOn("version")
    /\ UNCHANGED <<runtimeVars, bundle, keepsRunning, faults>>

\* Variant: failures are counted and forgotten.
FailedAny == FALSE

Failed == \E p \in Plc : results[p] = "FAILED"

\* main's end: a failure exits with 1, and the container starts again.
Finish ==
    /\ step = "next" /\ plc \notin Plc
    /\ step' = IF Failed THEN "down" ELSE "done"
    /\ sentinel' = (sentinel \/ ~Failed)
    /\ UNCHANGED <<plc, results, sent, runtimeVars, bundle, keepsRunning, faults>>

\* wait_ready: no exception gets out of it, but it may run out of time.
WaitReady ==
    /\ step = "version"
    /\ IF up[plc] THEN GoOn("create-user") ELSE Conclude("FAILED")
    /\ UNCHANGED <<runtimeVars, bundle, keepsRunning, faults>>

\* authenticate: the answer of create-user is ignored, a refused login raises.
CreateUser ==
    /\ step = "create-user" /\ up[plc]
    /\ account' = [account EXCEPT ![plc] = IF @ = "none" THEN "ours" ELSE @]
    /\ GoOn("login")
    /\ UNCHANGED <<up, image, build, loaded, bundle, keepsRunning, faults>>

Login ==
    /\ step = "login" /\ up[plc] /\ account[plc] = "ours"
    /\ GoOn("upload")
    /\ UNCHANGED <<runtimeVars, bundle, keepsRunning, faults>>

Accept(p) ==
    /\ image' = [image EXCEPT ![p] = bundle[p]]
    /\ build' = [build EXCEPT ![p] = "COMPILING"]
    /\ loaded' = [loaded EXCEPT ![p] = IF keepsRunning THEN @ ELSE "none"]
    /\ sent' = [sent EXCEPT ![p] = bundle[p]]
    /\ step' = "compilation-status"
    /\ UNCHANGED <<plc, results, sentinel, up, account>>

\* Variant: UploadFileFail is not looked at.
RejectUnnoticed(p) ==
    /\ build[p] = "COMPILING"
    /\ sent' = [sent EXCEPT ![p] = bundle[p]]
    /\ step' = "compilation-status"
    /\ UNCHANGED <<plc, results, sentinel, runtimeVars>>

\* A runtime that is still compiling may reject the file.
Reject(p) == build[p] = "COMPILING" /\ Conclude("FAILED") /\ UNCHANGED runtimeVars

Upload ==
    /\ step = "upload" /\ up[plc] /\ bundle[plc] # "none"
    /\ Accept(plc) \/ Reject(plc)
    /\ UNCHANGED <<bundle, keepsRunning, faults>>

\* Variant: the polling has no deadline.
CompiledWithoutDeadline ==
    \/ build[plc] = "SUCCESS" /\ GoOn("start-plc")
    \/ build[plc] = "FAILED" /\ Conclude("FAILED")

\* The polling ends with the compilation.  It runs out of time when there is
\* no compilation any more.
Compiled ==
    \/ build[plc] = "SUCCESS" /\ GoOn("start-plc")
    \/ build[plc] \in {"FAILED", "none"} /\ Conclude("FAILED")

PollCompilation ==
    /\ step = "compilation-status" /\ up[plc] /\ Compiled
    /\ UNCHANGED <<runtimeVars, bundle, keepsRunning, faults>>

\* The answer of start-plc is ignored.
StartPlc ==
    /\ step = "start-plc" /\ up[plc]
    /\ loaded' = [loaded EXCEPT ![plc] =
                      IF build[plc] = "SUCCESS" THEN image[plc] ELSE @]
    /\ GoOn("status")
    /\ UNCHANGED <<up, account, image, build, bundle, keepsRunning, faults>>

PollStatus ==
    /\ step = "status" /\ up[plc]
    /\ Conclude(IF loaded[plc] # "none" THEN "RUNNING" ELSE "FAILED")
    /\ UNCHANGED <<runtimeVars, bundle, keepsRunning, faults>>

\* A request raises: the runtime is gone, the login is refused, the bundle
\* has disappeared.  Nothing catches it; later controllers have no turn.
Raise ==
    /\ \/ step \in {"create-user", "login", "upload", "compilation-status",
                    "start-plc", "status"} /\ ~up[plc]
       \/ step = "login" /\ account[plc] = "other"
       \/ step = "upload" /\ bundle[plc] = "none"
    /\ GoOn("down")
    /\ UNCHANGED <<runtimeVars, bundle, keepsRunning, faults>>

DeployerStep ==
    \/ LoopOn \/ Finish \/ WaitReady \/ CreateUser \/ Login \/ Upload
    \/ PollCompilation \/ StartPlc \/ PollStatus \/ Raise

-----------------------------------------------------------------------------
(***************************************************************************)
(* The runtimes, and what goes wrong.                                      *)
(***************************************************************************)

\* A runtime comes up, with its last program, a newly compiled one or none.
RuntimeStarts(p) ==
    /\ ~up[p] /\ up' = [up EXCEPT ![p] = TRUE]
    /\ \E program \in {"none", loaded[p]}
                        \cup (IF build[p] = "SUCCESS" THEN {image[p]} ELSE {}) :
           loaded' = [loaded EXCEPT ![p] = program]
    /\ build' = [build EXCEPT ![p] = "none"]
    /\ UNCHANGED <<account, image, deployerVars, bundle, keepsRunning, faults>>

CompilationEnds(p, status) ==
    /\ up[p] /\ build[p] = "COMPILING"
    /\ build' = [build EXCEPT ![p] = status]
    /\ UNCHANGED <<up, account, image, loaded, deployerVars, bundle, keepsRunning>>

Fault == faults < MaxFaults /\ faults' = faults + 1

RuntimeDies(p) ==
    /\ Fault /\ up[p]
    /\ up' = [up EXCEPT ![p] = FALSE]
    /\ UNCHANGED <<account, image, build, loaded, deployerVars, bundle, keepsRunning>>

CompilationFails(p) == Fault /\ CompilationEnds(p, "FAILED")

\* The compilation takes longer than COMPILE_TIMEOUT.
CompilationTimesOut ==
    /\ Fault /\ step = "compilation-status" /\ build[plc] = "COMPILING"
    /\ Conclude("FAILED")
    /\ UNCHANGED <<runtimeVars, bundle, keepsRunning>>

\* start-plc is answered with an error.
StartRefused ==
    /\ Fault /\ step = "start-plc" /\ up[plc]
    /\ GoOn("status")
    /\ UNCHANGED <<runtimeVars, bundle, keepsRunning>>

\* The upload is answered with an error status, which raises.
UploadRefused ==
    /\ Fault /\ step = "upload" /\ up[plc] /\ bundle[plc] # "none"
    /\ GoOn("down")
    /\ UNCHANGED <<runtimeVars, bundle, keepsRunning>>

DeployerDies ==
    /\ Fault /\ step # "down"
    /\ GoOn("down")
    /\ UNCHANGED <<runtimeVars, bundle, keepsRunning>>

BundleChanges(p, v) ==
    /\ Fault /\ v # bundle[p]
    /\ bundle' = [bundle EXCEPT ![p] = v]
    /\ UNCHANGED <<deployerVars, runtimeVars, keepsRunning>>

CompilationSucceeds(p) == CompilationEnds(p, "SUCCESS") /\ UNCHANGED faults

BootNext ==
    \/ Begin \/ DeployerStep
    \/ \E p \in Plc :
        \/ RuntimeStarts(p) \/ CompilationSucceeds(p)
        \/ RuntimeDies(p) \/ CompilationFails(p)
        \/ \E v \in Versions \cup {"none"} : BundleChanges(p, v)
    \/ CompilationTimesOut \/ StartRefused \/ UploadRefused \/ DeployerDies

\* The container is restarted, the deployer goes on, runtimes come up and
\* finish compiling.
BootSpec ==
    /\ BootInit /\ [][BootNext]_bootVars
    /\ WF_bootVars(Begin) /\ WF_bootVars(DeployerStep)
    /\ \A p \in Plc :
        WF_bootVars(RuntimeStarts(p)) /\ WF_bootVars(CompilationSucceeds(p))

-----------------------------------------------------------------------------
\* Types, and the loop: its head is behind the controllers concluded so far,
\* and an attempt that is over well has concluded all of them without failure.
BootInv ==
    /\ step \in {"down", "next", "version", "create-user", "login", "upload",
                 "compilation-status", "start-plc", "status", "done"}
    /\ plc \in 1 .. N + 1
    /\ step \notin {"down", "next", "done"} => plc \in Plc
    /\ step # "down" => { p \in Plc : results[p] # "pending" } = 1 .. plc - 1
    /\ results \in [Plc -> {"pending", "RUNNING", "SKIP", "FAILED"}]
    /\ sent \in [Plc -> Versions \cup {"none"}]
    /\ sentinel \in BOOLEAN /\ keepsRunning \in BOOLEAN
    /\ bundle \in [Plc -> Versions \cup {"none"}]
    /\ up \in [Plc -> BOOLEAN]
    /\ account \in [Plc -> {"none", "ours", "other"}]
    /\ image \in [Plc -> Versions \cup {"none", "old"}]
    /\ build \in [Plc -> {"none", "COMPILING", "SUCCESS", "FAILED"}]
    /\ loaded \in [Plc -> Versions \cup {"none", "old"}]
    /\ faults \in 0 .. MaxFaults

\* Where the attempt stands: the refinement mapping of step.
Attempt == CASE step = "down" -> "off"
             [] step = "done" -> "done"
             [] OTHER -> "going"

\* deploy.py behaves as its rollout promises: controllers are concluded in
\* order, an attempt with a failure or an exception is never marked healthy,
\* and the mark outlives later attempts that fail (deploy.py:142-168).
RO == INSTANCE Rollout WITH
    attempt <- Attempt,
    outcome <- results,
    healthy <- sentinel

ImplementsRollout == RO!RolloutSpec

\* A controller reported RUNNING in the current attempt runs the bundle that
\* attempt uploaded, or lost it in a restart.  This rests on the runtime: one
\* that keeps its program while it compiles reports the old one as RUNNING
\* when it refuses the new one, since nobody looks at the answer of start-plc
\* (deploy.py:128-136).
RunningIsUploaded ==
    \A p \in Plc :
        results[p] = "RUNNING" /\ ~keepsRunning => loaded[p] \in {"none", sent[p]}

\* When nothing goes wrong any more, the rollout succeeds, whatever earlier
\* attempts left in the runtimes: half-made accounts, compilations still
\* going, rejected files (deploy.py:142-168 under restart: unless-stopped).
EventuallyDeployed ==
    (\A p \in Plc : account[p] # "other") => <>[](step = "done")

\* A controller with somebody else's account keeps every healthy one before
\* it from running for long: each attempt deploys them all over again.
LockoutInterruptsOthers ==
    \A p, q \in Plc :
        p < q /\ [](/\ account[q] = "other" /\ bundle[q] # "none"
                    /\ account[p] # "other" /\ bundle[p] # "none"
                    /\ ~keepsRunning)
            => []<>(loaded[p] = "none")

=============================================================================
