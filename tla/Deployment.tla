---------------------------- MODULE Deployment ----------------------------
(***************************************************************************)
(* The two ways to bring up a network: node processes on hosts, started by *)
(* a launcher, or jobs of a workflow that advance a chain in a repository. *)
(***************************************************************************)
EXTENDS Launch, GhChain

VARIABLE host  \* "machines" or "actions"

deployVars == <<launchVars, cronVars, host>>

DeployInit ==
    /\ host \in {"machines", "actions"}
    /\ LaunchInit
    /\ CronInit

DeployNext ==
    \/ host = "machines" /\ LaunchNext /\ UNCHANGED <<cronVars, host>>
    \/ host = "actions" /\ CronNext /\ UNCHANGED <<launchVars, host>>

DeploySpec == DeployInit /\ [][DeployNext]_deployVars
=============================================================================
