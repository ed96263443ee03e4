----------------------------- MODULE MCMonitors -----------------------------
(* Values for the constants of the runs of the monitors. *)
EXTENDS Monitors

OneInterface == {1}
TwoRunValues == {1, 2}
TheTimer == {3}
TheFile == {1}
AllWatchers ==
    {"process", "service", "service_windows", "systemd", "netlink", "autorun",
     "persistence", "persistence_windows", "fim", "fim_default", "dns"}
AllLogs == {"auth", "auth_windows", "audit", "audit_tail", "eventlog", "sysmon"}
AllLevels == {"alert", "health", "detection", "rootkit", "cis", "cis_windows"}
Nothing == {}
=============================================================================
