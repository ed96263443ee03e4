---------------------------- MODULE MCAgentHost -----------------------------
(* Values for the constants of the run of the agent's host. *)
EXTENDS AgentHost

CONSTANTS p1, p2

TwoProcs == {p1, p2}
Cautious == [allowed |-> {}, highRisk |-> FALSE]
Listed == [allowed |-> {"linux_lsm", "linux_packages", "run_script"}, highRisk |-> TRUE]
TwoPolicies == {Cautious, Listed}
AllArguments == {"plain", "token", "token_dir"}
=============================================================================
