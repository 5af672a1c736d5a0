------------------------- MODULE MCRemediationLadder -------------------------
(***************************************************************************)
(* Small instances of RemediationLadder for TLC: a Deployment and a bare   *)
(* Pod in an ordinary namespace and a Deployment in a trading namespace.   *)
(***************************************************************************)
EXTENDS RemediationLadder, TLC

CONSTANTS web, pod, bot, webNs, botNs

MCResources  == {web, pod, bot}
MCNamespaces == {webNs, botNs}
MCNsOf   == web :> webNs @@ pod :> webNs @@ bot :> botNs
MCKindOf == web :> "Deployment" @@ pod :> "Pod" @@ bot :> "Deployment"
MCTrading == {botNs}

\* Every pod of one or two containers over these statuses.  A container has a
\* last termination when it has been restarted, and one that crash-loops has.
MCContainers ==
    {c \in [waiting : {NotWaiting, "CrashLoopBackOff", "ImagePullBackOff"},
            terminated : {"", "Error", "OOMKilled"},
            restarts : {0, 1, 5}] :
        /\ c.terminated = "" <=> c.restarts = 0
        /\ c.waiting = "CrashLoopBackOff" => c.restarts > 0}
MCPodStatuses == {<<c>> : c \in MCContainers} \cup {<<c, d>> : c, d \in MCContainers}

SessionSymmetry == Permutations(Sessions)
=============================================================================
