------------------------------ MODULE MCDeploy ------------------------------
(***************************************************************************)
(* The program in four parts that share the machine: what is on the host,   *)
(* the name and the cluster of the gateway, what is in the cluster, and an   *)
(* edge with its profiles. What the program publishes is a function of the   *)
(* configuration: MCServices looks at it once, before the first state.       *)
(***************************************************************************)
EXTENDS Deploy, MCServices

Host == {"server", "sysctls", "patching", "admin-ssh"}

Name == {"server", "tailscale-install", "tailscale-up", "tailscale-self",
         "tailscale-name", "k3s-node-config", "k3s-install", "k3s-kubeconfig"}

Cluster == {"server", "k3s-install", "k3s-kubeconfig", "entry-label", "tailnet-policy",
            "tailnet-routes", "cilium", "namespace", "transports", "auth-register",
            "auth-route"}

Edge == {"server", "hysteria-install", "hysteria-config", "xray-install",
         "xray-public-key", "xray-config", "profile"}

MCPrograms == {Host, Name, Cluster, Edge}
=============================================================================
