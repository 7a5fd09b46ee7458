---------------------------- MODULE MCControllers ----------------------------
(***************************************************************************)
(* The controllers, the stand-in and the collector that polls them.  They  *)
(* share no modelled state (the collector keeps which register block it    *)
(* read, never its values), so a behaviour of this run follows one of      *)
(* them, chosen in its initial state, while the others stay as they        *)
(* started.  The intake program has its real levels and word size and      *)
(* writers that touch every register it uses; there are two assets, so     *)
(* that one can be read while the other has changed hosts.                 *)
(***************************************************************************)
EXTENDS IntakePlc, TreatmentPlc, DistributionPlc, ModbusSim, HistorianPoller, TLC

VARIABLE part

pollerVars == vars

mcVars == <<part, plcVars, treatmentVars, distributionVars, simVars, pollerVars>>

Only(p, step, others) == part = p /\ step /\ UNCHANGED <<part, others>>

IntakePart ==
    Only("intake", PlcNext, <<treatmentVars, distributionVars, simVars, pollerVars>>)

TreatmentPart ==
    Only("treatment", TreatmentNext, <<plcVars, distributionVars, simVars, pollerVars>>)

DistributionPart ==
    Only("distribution", DistributionNext, <<plcVars, treatmentVars, simVars, pollerVars>>)

StandInPart ==
    Only("standin", SimNext, <<plcVars, treatmentVars, distributionVars, pollerVars>>)

Poller(action) ==
    Only("poller", action, <<plcVars, treatmentVars, distributionVars, simVars>>)

\* A part that is not followed starts in one of its initial states only.
MCInit ==
    /\ part \in {"intake", "treatment", "distribution", "standin", "poller"}
    /\ PlcInit /\ TreatmentInit /\ DistributionInit
    /\ SimInit /\ (part # "standin" => asset = "intake")
    /\ Init
    /\ part # "poller" => influx = "ok" /\ \A e \in DOMAIN host : host[e] = "serving"

MCNext ==
    IntakePart \/ TreatmentPart \/ DistributionPart \/ StandInPart \/ Poller(Next)

\* The fairness of each part: that of its own specification.
MCSpec ==
    /\ MCInit /\ [][MCNext]_mcVars
    /\ WF_mcVars(IntakePart /\ Scan)
    /\ WF_mcVars(TreatmentPart /\ TreatmentScan)
    /\ WF_mcVars(DistributionPart /\ DistributionScan)
    /\ WF_mcVars(StandInPart /\ (Step \/ Copy))
    /\ WF_mcVars(Poller(Cycle))

MCWriteRequests ==
    { HR_VALVE :> v : v \in {0, 1, 2} }                 \* FC6 on HR0
        \cup { HR_LEVEL :> l : l \in {0, 97, 65535} }   \* FC6 on HR5
        \cup { (HR_VALVE :> 1) @@ (HR_LEVEL :> 96) @@ (HR_ALARM :> 0) }  \* FC16

MCDosingRequests ==
    { "flow" :> f : f \in {0, 40} }
        \cup { "chlor" :> c : c \in {0, 41, 62} }
        \cup { ("dosing" :> 0) @@ ("rate" :> 0), "dosingAlarm" :> 0 }

MCPumpRequests ==
    { "pump" :> p : p \in {0, 1, 2} }
        \cup { "pressure" :> p : p \in {0, 5, 89} }
        \cup { ("pump" :> 1) @@ ("runtime" :> 88) @@ ("lowAlarm" :> 1) }

\* The liveness properties are about the part a behaviour follows.  A low tank
\* refills no matter what is written to the valve (intake.st:23-30).
IntakeRefills == part = "intake" => LowTankRefills

\* The collector comes back from every mix of cached clients once its targets
\* have settled (poller.py:81-99).
CollectorRecovers == part = "poller" => PollerRecovers

=============================================================================
