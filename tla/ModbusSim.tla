------------------------------ MODULE ModbusSim ------------------------------
(***************************************************************************)
(* The Modbus stand-in of a controller, modbus-sim/server.py: the updater  *)
(* thread steps a process model and copies its registers one by one into   *)
(* the store, while the Modbus server thread answers reads from the store  *)
(* and writes clients' values into it.  The model never reads the store.   *)
(***************************************************************************)
EXTENDS Integers, Sequences

CONSTANT ClientValues   \* what clients write into a register of the store

ASSUME ClientValuesAssumption == ClientValues \subseteq Nat

Offsets == 0 .. 6

\* The registers of an asset, in the order the model's dictionary holds them.
FIELDS == [intake       |-> <<0, 1, 5, 6>>,
           treatment    |-> <<0, 1, 2, 5, 6>>,
           distribution |-> <<0, 1, 2, 5, 6>>]

VARIABLES
    asset,      \* which controller is stood in for, fixed at start
    registers,  \* the process model: [Offsets -> values]
    last,       \* the model one step ago (history)
    store,      \* what the server thread serves
    next,       \* next field to be copied; beyond the last one: the thread sleeps
    written     \* offsets clients wrote since they were last copied (history)

simVars == <<asset, registers, last, store, next, written>>

Zeros == [o \in Offsets |-> 0]

SimInit ==
    /\ asset \in DOMAIN FIELDS
    /\ registers = Zeros /\ last = Zeros /\ store = Zeros
    /\ next = Len(FIELDS[asset]) + 1
    /\ written = {}

-----------------------------------------------------------------------------
(***************************************************************************)
(* ProcessModel.step, one branch per asset.                                *)
(***************************************************************************)
Lesser(a, b) == IF a < b THEN a ELSE b

Greater(a, b) == IF a > b THEN a ELSE b

\* Variant: the alarm judges the level the step started from.
IntakeStepLag(r) ==
    LET called == IF r[5] < 20 THEN 1 ELSE r[0]
        level == Greater(0, Lesser(100, r[5] + IF called = 1 THEN 1 ELSE -1))
        valve == IF level > 95 THEN 0 ELSE called
    IN  [r EXCEPT ![0] = valve, ![1] = IF valve # 0 THEN 60 ELSE 0,
                  ![5] = level, ![6] = IF r[5] > 95 THEN 1 ELSE 0]

IntakeStep(r) ==
    LET called == IF r[5] < 20 THEN 1 ELSE r[0]
        level == Greater(0, Lesser(100, r[5] + IF called = 1 THEN 1 ELSE -1))
        valve == IF level > 95 THEN 0 ELSE called
    IN  [r EXCEPT ![0] = valve, ![1] = IF valve # 0 THEN 60 ELSE 0,
                  ![5] = level, ![6] = IF level > 95 THEN 1 ELSE 0]

\* Unlike the program, the dose reaches the residual and the flow never stops.
TreatmentStep(r) ==
    LET decayed == IF r[5] > 0 THEN r[5] - 1 ELSE 0
        low == decayed < 20
        chlorine == IF low THEN Lesser(100, decayed + 3) ELSE decayed
        stop == ~low /\ decayed >= 40
    IN  [r EXCEPT ![0] = 40,
                  ![1] = IF low THEN 1 ELSE IF stop THEN 0 ELSE @,
                  ![2] = IF low THEN 50 ELSE IF stop THEN 0 ELSE @,
                  ![5] = chlorine,
                  ![6] = IF chlorine > 60 \/ chlorine = 0 THEN 1 ELSE 0]

\* Unlike the program, the pump follows the pressure and not the reverse.
DistributionStep(r) ==
    LET pressure == IF r[1] > 0 THEN Greater(0, r[1] - 2) ELSE Lesser(10, r[1] + 1)
        pump == IF pressure < 2 THEN 1 ELSE 0
    IN  [r EXCEPT ![0] = pump, ![1] = pressure,
                  ![5] = IF r[1] > 0 THEN @ ELSE (@ + 1) % 24, ![6] = pump]

Stepped(r) ==
    CASE asset = "intake" -> IntakeStep(r)
      [] asset = "treatment" -> TreatmentStep(r)
      [] asset = "distribution" -> DistributionStep(r)

-----------------------------------------------------------------------------
(***************************************************************************)
(* The two threads.                                                        *)
(***************************************************************************)
Asleep == next > Len(FIELDS[asset])

\* The updater wakes up and steps the model.
Step ==
    /\ Asleep
    /\ registers' = Stepped(registers)
    /\ last' = registers
    /\ next' = 1
    /\ UNCHANGED <<asset, store, written>>

\* Variant: the updater copies a register only when the step changed it.
CopyChanged ==
    LET o == FIELDS[asset][next] IN
        /\ ~Asleep
        /\ store' = IF registers[o] # last[o]
                    THEN [store EXCEPT ![o] = registers[o]] ELSE store
        /\ written' = written \ {o}
        /\ next' = next + 1
        /\ UNCHANGED <<asset, registers, last>>

\* context[UNIT_ID].setValues for one field.
Copy ==
    LET o == FIELDS[asset][next] IN
        /\ ~Asleep
        /\ store' = [store EXCEPT ![o] = registers[o]]
        /\ written' = written \ {o}
        /\ next' = next + 1
        /\ UNCHANGED <<asset, registers, last>>

\* The server thread stores a client's FC6 between any two of the above.
ClientWrite(o, v) ==
    /\ store' = [store EXCEPT ![o] = v]
    /\ written' = written \cup {o}
    /\ UNCHANGED <<asset, registers, last, next>>

SimNext ==
    \/ Step
    \/ Copy
    \/ \E i \in 1 .. Len(FIELDS[asset]), v \in ClientValues :
           ClientWrite(FIELDS[asset][i], v)

\* The updater is a loop around a sleep; nobody has to write.
SimSpec == SimInit /\ [][SimNext]_simVars /\ WF_simVars(Step \/ Copy)

-----------------------------------------------------------------------------
\* Every served register that no client wrote holds the model's present or
\* previous value, and the present one while the updater sleeps: a block read
\* in between may be torn, but never by more than one step of the process
\* (server.py:71-77, no lock between the threads).
TornByOneStep ==
    \A o \in Offsets \ written :
        store[o] \in {registers[o]} \cup IF Asleep THEN {} ELSE {last[o]}

\* The stand-in runs "the same level-controller logic as plc/intake.st"
\* (server.py:5): under the mapping of its model to the registers of the
\* program, its initial state and each of its steps, writes of clients
\* included, is one of the program without any client.
ST == INSTANCE IntakePlc
      WITH LowLevel <- 20, TripLevel <- 95, FullLevel <- 100, WordSize <- 65536,
           WriteRequests <- {}, valve <- registers[0], level <- registers[5],
           alarm <- registers[6], dirty <- {}

RunsIntakeProgram ==
    /\ asset = "intake" => ST!PlcInit
    /\ [][asset = "intake" => ST!Scan]_<<registers[0], registers[5], registers[6]>>

=============================================================================
