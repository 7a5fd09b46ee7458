------------------------------ MODULE MCBringUp ------------------------------
(***************************************************************************)
(* What brings the plant up: the checks of the controllers' logic, its     *)
(* deployment, and the provisioning of the HMI.  They share no state, so a *)
(* behaviour of this run follows one of them, chosen in its initial state, *)
(* while the others stay as they started.                                  *)
(***************************************************************************)
EXTENDS PlcBootstrap, ScadaProvision, LogicBaseline

VARIABLE part

mcVars == <<part, bootVars, provVars, logicVars>>

Deploy(action) == part = "deploy" /\ action /\ UNCHANGED <<part, provVars, logicVars>>

Provision(action) == part = "provision" /\ action /\ UNCHANGED <<part, bootVars, logicVars>>

Check(action) == part = "logic" /\ action /\ UNCHANGED <<part, bootVars, provVars>>

\* A part that is not followed starts in one of its initial states only.
MCInit ==
    /\ part \in {"deploy", "provision", "logic"}
    /\ BootInit
    /\ part # "deploy" =>
           ~keepsRunning /\ \A p \in Plc : bundle[p] = "none"
               /\ account[p] = "none" /\ loaded[p] = "none" /\ ~up[p]
    /\ ProvInit
    /\ part # "provision" => password = "default" /\ points = {} /\ ~view
                                 /\ \A d \in Sources : source[d] = "none"
    /\ LogicInit
    /\ part # "logic" => \A p \in Programs : st[p] = "none"

MCNext == Deploy(BootNext) \/ Provision(ProvNext) \/ Check(LogicNext)

\* The fairness of each part: that of its own specification.
MCSpec ==
    /\ MCInit /\ [][MCNext]_mcVars
    /\ WF_mcVars(Deploy(Begin)) /\ WF_mcVars(Deploy(DeployerStep))
    /\ \A p \in Plc :
        /\ WF_mcVars(Deploy(RuntimeStarts(p)))
        /\ WF_mcVars(Deploy(CompilationSucceeds(p)))
    /\ WF_mcVars(Provision(ScriptStep)) /\ WF_mcVars(Provision(RunScript))
    /\ WF_mcVars(Provision(ScadaStarts))

MCPoints == <<2, 1>>

\* The liveness properties are about a part that is followed.
DeployEnds == part = "deploy" => EventuallyDeployed

LockoutInterrupts == part = "deploy" => LockoutInterruptsOthers

ProvisionEnds == part = "provision" => EventuallyProvisioned

=============================================================================
