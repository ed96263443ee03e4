--------------------------- MODULE MCHostIsolation ---------------------------
(* Values for the constants of the isolation runs. *)
EXTENDS HostIsolation

LinuxAndWindows == {"iptables", "netsh"}
Windows == {"netsh"}
=============================================================================
