------------------------ MODULE MCDeploymentService ------------------------
(***************************************************************************)
(* A small instance of DeploymentService: an initial release, an ota       *)
(* release, a local-recovery release, and a second ota release that ships  *)
(* the initial image again under a greater sequence.                       *)
(***************************************************************************)
EXTENDS DeploymentService, TLC

MCRelease  == {"initial1", "ota2", "usb3", "ota4"}
MCImage    == {"a1", "a2", "a3"}
MCPurpose  == [initial1 |-> "initial-install", ota2 |-> "ota",
               usb3 |-> "local-recovery", ota4 |-> "ota"]
MCSequence == [initial1 |-> 1, ota2 |-> 2, usb3 |-> 3, ota4 |-> 4]
MCAppOf    == [initial1 |-> "a1", ota2 |-> "a2", usb3 |-> "a3", ota4 |-> "a1"]
MCFromApps == [initial1 |-> {}, ota2 |-> {"a1"}, usb3 |-> {}, ota4 |-> {"a2", "a3"}]

MCErrors         == {"", "network", "approval_unavailable", "owner_cancelled"}
MCSelectionError == {"approval_unavailable"}

\* Reports whose fields fit one another, whatever deployment they are sent
\* for: every other report is refused in every state.
MCReports ==
    {r \in [release: {"ota2", "ota4"}, sequence: 1..MaxSequence,
            state: ReportStates, bytes: 0..Size, app: {"a1", "a2"},
            booted: BOOLEAN, error: {"", "network", "approval_unavailable"}] :
        /\ r.state # "confirmed" => r.booted
        /\ r.state \in {"downloading", "verifying", "rebooting"} => r.error = ""
        /\ r.error = "network" => r.state = "failed" /\ r.sequence < 4
        /\ r.error = "approval_unavailable" => r.sequence = 4}

Symmetric == Permutations(JobId) \cup Permutations(RequestKey)
=============================================================================
