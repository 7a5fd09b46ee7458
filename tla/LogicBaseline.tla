---------------------------- MODULE LogicBaseline ----------------------------
(***************************************************************************)
(* The two checks of the controllers' logic in the repository: the golden  *)
(* manifest of the sources (plc_integrity_check.py) and the comparison of  *)
(* the committed bundles with a rebuild (build.sh, check_bundles.py).      *)
(* People edit sources, bundles and commits in between.                    *)
(***************************************************************************)
EXTENDS Naturals

CONSTANTS
    Programs,   \* names of the controllers' programs
    Logic       \* what a source may say

ASSUME LogicAssumption == "none" \notin Logic

VARIABLES
    st,         \* the sources plc/*.st; "none" if there is no such file
    golden,     \* manifest.json: the source of the last update, or "none"
    built,      \* the source programs/*/program.zip was built from, or "none"
    head,       \* the same of the commit HEAD
    passed      \* checks that have passed since the last edit (history)

logicVars == <<st, golden, built, head, passed>>

Contents == Logic \cup {"none"}

\* A repository as it was left by an update, a build and a commit.
LogicInit ==
    /\ st \in [Programs -> Contents]
    /\ golden = st /\ built = st /\ head = st /\ passed = {}

-----------------------------------------------------------------------------
EditSource(p, c) ==
    /\ st' = [st EXCEPT ![p] = c] /\ passed' = {}
    /\ UNCHANGED <<golden, built, head>>

EditBundle(p, c) ==
    /\ built' = [built EXCEPT ![p] = c] /\ passed' = {}
    /\ UNCHANGED <<st, golden, head>>

Commit ==
    /\ head' = built /\ passed' = {}
    /\ UNCHANGED <<st, golden, built>>

\* plc_integrity_check.py --update: a manifest of the sources there are.
UpdateManifest ==
    /\ golden' = st /\ passed' = {}
    /\ UNCHANGED <<st, built, head>>

\* verify: every program of the manifest, MISSING or TAMPERED if not OK.
VerifyStatus(p) ==
    IF st[p] = "none" THEN "MISSING"
    ELSE IF st[p] = golden[p] THEN "OK" ELSE "TAMPERED"

Verify ==
    /\ \A p \in Programs : golden[p] # "none" => VerifyStatus(p) = "OK"
    /\ passed' = passed \cup {"verify"}
    /\ UNCHANGED <<st, golden, built, head>>

\* Variant: a bundle that exists is not built again.
RebuiltMissing(p) == IF built[p] = "none" THEN st[p] ELSE built[p]

\* build.sh: bundles without a source stay.
Rebuilt(p) == IF st[p] # "none" THEN st[p] ELSE built[p]

Build ==
    /\ built' = [p \in Programs |-> Rebuilt(p)]
    /\ passed' = (passed \cap {"verify"}) \cup {"build"}
    /\ UNCHANGED <<st, golden, head>>

\* check_bundles.py: the bundles there are, against the commit.
CheckBundles ==
    /\ \A p \in Programs : built[p] # "none" => built[p] = head[p]
    /\ \E p \in Programs : built[p] # "none"
    /\ passed' = passed \cup {"bundles"}
    /\ UNCHANGED <<st, golden, built, head>>

LogicNext ==
    \/ \E p \in Programs, c \in Contents : EditSource(p, c) \/ EditBundle(p, c)
    \/ Commit \/ UpdateManifest \/ Verify \/ Build \/ CheckBundles

LogicSpec == LogicInit /\ [][LogicNext]_logicVars

-----------------------------------------------------------------------------
\* When all checks have passed on an unchanged repository, the committed
\* bundle of every program in the manifest was built from its golden source,
\* although the manifest knows no bundles and the bundle check no manifest.
\* A program that is not in the manifest escapes: a source added after the
\* last update, or a bundle without a source (plc_integrity_check.py:33,
\* build.sh:100, check_bundles.py:61).
GreenMeansGolden ==
    passed = {"verify", "build", "bundles"} =>
        \A p \in Programs : golden[p] # "none" => head[p] = golden[p]

=============================================================================
