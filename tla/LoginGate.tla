----------------------------- MODULE LoginGate -----------------------------
(***************************************************************************)
(* What the login and consent provider (apps/auth) promises whoever relies *)
(* on it, whatever happens between the browser, GitHub, Redis and Hydra:   *)
(* an authorization is tied to one person that some deployed allowlist     *)
(* names, it ends at most once, in a grant or a refusal, a client that     *)
(* registered itself is granted only after its consent screen was shown,   *)
(* and what was granted is withdrawn only from a person that some deployed *)
(* allowlist leaves out.                                                   *)
(***************************************************************************)
CONSTANTS
  Person,       \* GitHub accounts
  Nobody,       \* no account
  Challenge,    \* authorizations, one Hydra challenge each
  FirstParty,   \* those begun by a client the deployment registered
  Listed,       \* persons some deployed allowlist names
  Unlisted      \* persons some deployed allowlist leaves out

VARIABLES
  status,       \* how far each authorization got
  who,          \* the person it is tied to
  shown,        \* authorizations whose consent screen was shown
  tokens        \* authorizations with live tokens

vars == <<status, who, shown, tokens>>

Init ==
  /\ status = [c \in Challenge |-> "asked"]
  /\ who = [c \in Challenge |-> Nobody]
  /\ shown = {}
  /\ tokens = {}

Accept(c) ==
  /\ status[c] = "asked"
  /\ status' = [status EXCEPT ![c] = "known"]
  /\ \E p \in Listed : who' = [who EXCEPT ![c] = p]
  /\ UNCHANGED <<shown, tokens>>

Show(c) ==
  /\ status[c] = "known"
  /\ c \notin FirstParty
  /\ shown' = shown \cup {c}
  /\ UNCHANGED <<status, who, tokens>>

Grant(c) ==
  /\ status[c] = "known"
  /\ c \in FirstParty \cup shown
  /\ status' = [status EXCEPT ![c] = "granted"]
  /\ tokens' = tokens \cup {c}
  /\ UNCHANGED <<who, shown>>

Refuse(c) ==
  /\ status[c] \in {"asked", "known"}
  /\ status' = [status EXCEPT ![c] = "refused"]
  /\ who' = [who EXCEPT ![c] = Nobody]
  /\ UNCHANGED <<shown, tokens>>

Withdraw(p) ==
  /\ tokens' = {c \in tokens : who[c] # p}
  /\ UNCHANGED <<status, who, shown>>

Next ==
  \/ \E c \in Challenge : Accept(c) \/ Show(c) \/ Grant(c) \/ Refuse(c)
  \/ \E p \in Unlisted : Withdraw(p)

Spec == Init /\ [][Next]_vars
=============================================================================
