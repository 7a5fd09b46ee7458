---------------------------- MODULE ScadaProvision ----------------------------
(***************************************************************************)
(* The provisioning of the HMI, scada/provision.sh: it logs in, rotates    *)
(* the factory password, and makes the datasources, points and the view    *)
(* that the HMI needs, one request after the other.  A step of the script  *)
(* is one request and what the shell makes of the answer under "set -eu":  *)
(* a connection that is refused ends the script wherever curl is the       *)
(* command's last word, a body jq cannot parse wherever jq is.             *)
(***************************************************************************)
EXTENDS Naturals, Sequences

CONSTANTS
    Points,       \* Points[d]: the number of registers of target d
    MaxTries,     \* logins before the script gives up (120 in the script)
    AdminIsFirst, \* is the admin user 1, as the script supposes?
    MaxMishaps    \* bound: faults

ASSUME ProvisionAssumption ==
    /\ Points \in Seq(Nat \ {0}) /\ Points # <<>>
    /\ MaxTries \in Nat /\ MaxMishaps \in Nat /\ AdminIsFirst \in BOOLEAN

Sources == DOMAIN Points

AllPoints == UNION { {d} \X (1 .. Points[d]) : d \in Sources }

VARIABLES
    \* the script and its container
    line,          \* the next request, "done", or "exit" (to be restarted)
    tries,         \* i of wait_for_api
    ds, offset,    \* the target and the register at hand
    provisioned,   \* does /tmp/scada-provisioned exist?
    mishaps,       \* kinds of bad answers of this run of the script (history)
    \* Scada-LTS
    alive,         \* does it take connections?
    session,       \* does it know the script's session?
    password,      \* of the admin: "default", "ours" or "other"
    source,        \* host of each datasource, "none" or "stale" or "right"
    points, logged,\* datapoints that exist, and those with history
    view,          \* does the view exist?
    provFaults     \* faults so far

scriptVars == <<line, tries, ds, offset, provisioned>>
scadaVars == <<password, source, points, logged, view>>
provVars == <<scriptVars, mishaps, alive, session, scadaVars, provFaults>>

\* The HMI boots, over the configuration of an earlier deployment or none.
ProvInit ==
    /\ line = "exit" /\ tries = 0 /\ ds = 1 /\ offset = 1
    /\ provisioned = FALSE /\ mishaps = {}
    /\ alive = FALSE /\ session = FALSE
    /\ password \in {"default", "ours", "other"}
    /\ source \in [Sources -> {"none", "stale"}]
    /\ points \in {{}, AllPoints} /\ logged = {}
    /\ points # {} => \A d \in Sources : source[d] = "stale"
    /\ view \in BOOLEAN
    /\ provFaults = 0

-----------------------------------------------------------------------------
Logins == {"auth", "default", "again"}

\* What the HMI answers: to a login whatever the session, else only if it
\* knows the session; a redirect to the login page has no body.
Expected ==
    IF ~alive THEN "refused"
    ELSE IF line \notin Logins /\ ~session THEN "empty" ELSE "ok"

\* The answers: those of a request that was obeyed, and those curl fails with.
Answers == {"ok", "lost", "refused", "empty", "page"}
Obeyed == {"ok", "lost"}
Broken == {"refused", "lost"}

\* The answer to the request at hand: what is expected, or by a fault a
\* refused connection, an empty body, an error page, or an answer lost after
\* the request was obeyed.
Answered(a) ==
    /\ \/ a = Expected /\ UNCHANGED provFaults
       \/ /\ a \in {"refused", "empty", "page"} \/ (a = "lost" /\ Expected = "ok")
          /\ provFaults < MaxMishaps /\ provFaults' = provFaults + 1
    /\ mishaps' = mishaps \cup ({a} \ {"ok"})
    /\ UNCHANGED alive

To(next) == line' = next /\ UNCHANGED <<tries, ds, offset, provisioned>>

\* The request at hand and its answer; the HMI's data change only in `change`.
Request(name, a) == line = name /\ Answered(a)

-----------------------------------------------------------------------------
(***************************************************************************)
(* wait_for_api, auth and session_for.                                     *)
(***************************************************************************)
Retry ==
    /\ tries' = tries + 1
    /\ line' = IF tries + 1 > MaxTries THEN "exit" ELSE "auth"
    /\ UNCHANGED <<ds, offset, provisioned>>

\* session_for(PASS), then session_for(DEFAULT_PASS).
LoginOurs(a) ==
    /\ Request("auth", a)
    /\ session' = (a = "ok" /\ password = "ours")
    /\ To(IF session' THEN "list" ELSE "default")
    /\ UNCHANGED scadaVars

LoginDefault(a) ==
    /\ Request("default", a)
    /\ session' = (a = "ok" /\ password = "default")
    /\ IF session' THEN To("user-id") ELSE Retry
    /\ UNCHANGED scadaVars

\* Without an answer the admin is taken for user 1.
LookUpAdmin(a) ==
    /\ Request("user-id", a)
    /\ To(IF a = "ok" \/ AdminIsFirst THEN "password" ELSE "others-password")
    /\ UNCHANGED <<session, scadaVars>>

\* The rotation, of the admin's password or another's; its answer is not
\* looked at.
RotateOther(a) ==
    /\ Request("others-password", a) /\ To("again")
    /\ UNCHANGED <<session, scadaVars>>

Rotate(a) ==
    /\ Request("password", a)
    /\ password' = IF a \in Obeyed THEN "ours" ELSE password
    /\ To("again")
    /\ UNCHANGED <<session, source, points, logged, view>>

LoginAgain(a) ==
    /\ Request("again", a)
    /\ session' = (a = "ok" /\ password = "ours")
    /\ IF session' THEN To("list") ELSE Retry
    /\ UNCHANGED scadaVars

-----------------------------------------------------------------------------
(***************************************************************************)
(* ensure_datasource, ensure_datapoint, set_history, ensure_view.          *)
(***************************************************************************)

\* Variant: the filter of existing datasources never matches.
ExistsNever(a) == FALSE

Exists(a) == a = "ok" /\ source[ds] # "none"

ListSources(a) ==
    /\ Request("list", a)
    /\ To(IF Exists(a) THEN "update" ELSE "create")
    /\ UNCHANGED <<session, scadaVars>>

\* Variant: a refused connection is ignored.
UpdateSourceAnyway(a) ==
    /\ Request("update", a)
    /\ source' = [source EXCEPT ![ds] = IF a \in Obeyed THEN "right" ELSE @]
    /\ To("point")
    /\ UNCHANGED <<session, password, points, logged, view>>

UpdateSource(a) ==
    /\ Request("update", a)
    /\ source' = [source EXCEPT ![ds] = IF a \in Obeyed THEN "right" ELSE @]
    /\ To(IF a \in Broken THEN "exit" ELSE "point")
    /\ UNCHANGED <<session, password, points, logged, view>>

\* A datasource that exists already is refused by its XID.
Created(a) == a = "ok" /\ source[ds] = "none"

CreateSource(a) ==
    /\ Request("create", a)
    /\ source' = [source EXCEPT ![ds] =
                      IF a \in Obeyed /\ @ = "none" THEN "right" ELSE @]
    /\ To(IF Created(a) THEN "point" ELSE "exit")
    /\ UNCHANGED <<session, password, points, logged, view>>

Point == <<ds, offset>>

LookUpPoint(a) ==
    /\ Request("point", a)
    /\ To(IF a = "ok" /\ Point \in points THEN "point-id" ELSE "add-point")
    /\ UNCHANGED <<session, scadaVars>>

AddPoint(a) ==
    /\ Request("add-point", a)
    /\ points' = IF a \in Obeyed THEN points \cup {Point} ELSE points
    /\ To(IF a \in Broken THEN "exit" ELSE "point-id")
    /\ UNCHANGED <<session, password, source, logged, view>>

\* The loops over registers and targets.
NextPoint ==
    /\ IF offset < Points[ds]
       THEN line' = "point" /\ offset' = offset + 1 /\ UNCHANGED ds
       ELSE /\ line' = IF ds = Len(Points) THEN "view" ELSE "list"
            /\ offset' = 1 /\ ds' = ds + 1
    /\ UNCHANGED <<tries, provisioned>>

\* set_history: without an id it only warns.
PointId(a) ==
    /\ Request("point-id", a)
    /\ IF a = "ok" /\ Point \in points THEN To("history")
       ELSE IF a = "page" THEN To("exit") ELSE NextPoint
    /\ UNCHANGED <<session, scadaVars>>

EnableHistory(a) ==
    /\ Request("history", a)
    /\ logged' = IF a \in Obeyed THEN logged \cup {Point} ELSE logged
    /\ IF a \in Broken THEN To("exit") ELSE NextPoint
    /\ UNCHANGED <<session, password, source, points, view>>

LookUpView(a) ==
    /\ Request("view", a)
    /\ To(IF a = "page" THEN "exit"
          ELSE IF a = "ok" /\ view THEN "touch" ELSE "add-view")
    /\ UNCHANGED <<session, scadaVars>>

AddView(a) ==
    /\ Request("add-view", a)
    /\ view' = (view \/ a \in Obeyed)
    /\ To(IF a \in Broken THEN "exit" ELSE "touch")
    /\ UNCHANGED <<session, password, source, points, logged>>

Touch ==
    /\ line = "touch" /\ line' = "done" /\ provisioned' = TRUE
    /\ UNCHANGED <<tries, ds, offset, mishaps, alive, session, scadaVars,
                   provFaults>>

ScriptStep ==
    \/ \E a \in Answers :
          \/ LoginOurs(a) \/ LoginDefault(a) \/ LookUpAdmin(a)
          \/ RotateOther(a) \/ Rotate(a) \/ LoginAgain(a)
          \/ ListSources(a) \/ UpdateSource(a) \/ CreateSource(a)
          \/ LookUpPoint(a) \/ AddPoint(a) \/ PointId(a) \/ EnableHistory(a)
          \/ LookUpView(a) \/ AddView(a)
    \/ Touch

-----------------------------------------------------------------------------
\* The container runs the script from its start; the file stays.
RunScript ==
    /\ line = "exit" /\ line' = "auth"
    /\ tries' = 0 /\ ds' = 1 /\ offset' = 1 /\ mishaps' = {}
    /\ session' = FALSE
    /\ UNCHANGED <<provisioned, alive, scadaVars, provFaults>>

ScadaStarts ==
    /\ ~alive /\ alive' = TRUE
    /\ UNCHANGED <<scriptVars, mishaps, session, scadaVars, provFaults>>

\* Scada-LTS dies, which ends its sessions too; a session times out; the
\* script dies.
ScadaFault ==
    /\ provFaults < MaxMishaps /\ provFaults' = provFaults + 1
    /\ \/ alive /\ alive' = FALSE /\ session' = FALSE /\ UNCHANGED scriptVars
       \/ session /\ session' = FALSE /\ UNCHANGED <<scriptVars, alive>>
       \/ line # "exit" /\ To("exit") /\ UNCHANGED <<alive, session>>
    /\ UNCHANGED <<mishaps, scadaVars>>

ProvNext == ScriptStep \/ RunScript \/ ScadaStarts \/ ScadaFault

ProvSpec ==
    /\ ProvInit /\ [][ProvNext]_provVars
    /\ WF_provVars(ScriptStep) /\ WF_provVars(RunScript)
    /\ WF_provVars(ScadaStarts)

-----------------------------------------------------------------------------
\* The script gets past its login, and the container becomes healthy, only
\* with the factory password rotated, although the rotation's own answer is
\* ignored (provision.sh:41-57: "no default credentials in the running
\* system").
ProvisionedIsRotated ==
    line \notin Logins \cup {"user-id", "others-password", "password", "exit"}
        \/ provisioned
        => password = "ours"

\* A run that ends well has found or made every datasource, whatever answers
\* it got (provision.sh:100-104).
SourcesExist == line \in {"view", "add-view", "touch", "done"}
    => \A d \in Sources : source[d] # "none"

\* What the end of the script vouches for, by the worst that happened to it.
\* In any case the password is rotated and every datasource exists.  If
\* connections were refused or broken, no more than the history of some points is lost:
\* every host, point and view is right.  Without a fault history is complete.
\* A redirect or an error status is not noticed where the request changes
\* something (provision.sh:92, :121, :151, :169), so with them nothing more
\* than the first part holds.
CompletionVouches ==
    line = "done" =>
        /\ password = "ours" /\ \A d \in Sources : source[d] # "none"
        /\ mishaps \subseteq Broken =>
               /\ \A d \in Sources : source[d] = "right"
               /\ points = AllPoints /\ view
        /\ mishaps = {} => logged = AllPoints

\* Once faults end, a run of the script completes, over whatever interrupted
\* runs have left (provision.sh:4, "Idempotent").
EventuallyProvisioned == password # "other" => <>[](line = "done")

=============================================================================
