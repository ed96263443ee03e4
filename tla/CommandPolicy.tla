--------------------------- MODULE CommandPolicy ----------------------------
(***************************************************************************)
(* What an agent may be asked to do, what its own policy lets through and  *)
(* how long it may take (tool_catalog, CommandPolicy and command_timeout). *)
(* Names are those resolve_command gives; times are in seconds.            *)
(***************************************************************************)
EXTENDS Integers, FiniteSets

NetworkTools ==
    {"ping", "http_get", "tcp_connect", "dns_resolve", "dns_lookup", "traceroute", "tls"}
ObservabilityTools ==
    {"system_metrics", "process_list", "service_status", "network_connections",
     "installed_software", "hardware_inventory", "health_probes", "disk_usage", "file_hash",
     "system_log", "forensic_snapshot", "collect_file"}
SecurityTools ==
    {"fim_scan", "persistence_scan", "auth_audit", "detection_scan", "cis_score",
     "cve_inventory", "rootkit_check", "dns_monitor"}
WindowsTools ==
    {"windows_event_log", "windows_etw", "windows_autoruns", "windows_wmi",
     "windows_scheduled_tasks", "windows_sysmon", "windows_defender"}
LinuxTools ==
    {"linux_ebpf", "linux_auditd", "linux_syslog", "linux_proc_metrics", "linux_netlink",
     "linux_systemd_units", "linux_lsm", "linux_packages"}
RemediationTools ==
    {"kill_process", "start_service", "stop_service", "restart_service", "block_ip",
     "unblock_ip", "isolate_host", "restore_isolation", "run_script"}
AdminTools == {"update_config", "trigger_update", "restart_agent", "health_check"}

Tools ==
    UNION {NetworkTools, ObservabilityTools, SecurityTools, WindowsTools, LinuxTools,
           RemediationTools, AdminTools}

(* execute_tool awaits some of them in a thread and calls the others itself. *)
Kind(tool) ==
    IF tool \in LinuxTools \cup {"windows_event_log"} THEN "threaded" ELSE "blocking"

-----------------------------------------------------------------------------
Medium ==
    {"system_log", "file_hash", "forensic_snapshot", "fim_scan", "auth_audit",
     "windows_event_log", "windows_wmi", "linux_auditd", "linux_syslog", "update_config",
     "restart_agent"}
High == {"collect_file", "kill_process", "block_ip", "unblock_ip"}
Critical == {"isolate_host", "restore_isolation", "run_script"}
RequiresAllowlist == {"start_service", "stop_service", "restart_service"}

DefaultEnabled == Tools \ (High \cup Critical \cup RequiresAllowlist)

(* CommandPolicy.check.  An empty list stands for the default catalogue;    *)
(* the first name in it takes the catalogue's place.                        *)
Allows(policy, tool) ==
    /\ tool \in High \cup Critical => policy.highRisk /\ tool \in policy.allowed
    /\ tool \in RequiresAllowlist => tool \in policy.allowed
    /\ tool \in IF policy.allowed = {} THEN DefaultEnabled ELSE policy.allowed

-----------------------------------------------------------------------------
Slow == {"installed_software", "linux_packages", "cve_inventory", "forensic_snapshot",
         "fim_scan", "windows_event_log", "collect_file"}
Unhurried ==
    {"windows_etw", "windows_autoruns", "windows_scheduled_tasks", "windows_sysmon",
     "linux_ebpf", "linux_netlink", "linux_systemd_units", "linux_auditd", "linux_syslog",
     "persistence_scan", "detection_scan", "windows_wmi"}

RiskTimeout(tool) ==
    IF tool \in Critical THEN 120
    ELSE IF tool \in High THEN 90
    ELSE IF tool \in Medium \cup RequiresAllowlist THEN 60
    ELSE 30

DefaultTimeout(tool) ==
    IF tool = "traceroute" THEN 120
    ELSE IF tool \in Slow THEN 90
    ELSE IF tool \in Unhurried THEN 60
    ELSE RiskTimeout(tool)

MinTimeout == 5
MaxTimeout == 300
NotGiven == -1

(* command_timeout: what the sender gives, within limits. *)
CommandTimeout(tool, given) ==
    LET t == IF given = NotGiven THEN DefaultTimeout(tool) ELSE given
    IN  IF t < MinTimeout THEN MinTimeout ELSE IF t > MaxTimeout THEN MaxTimeout ELSE t

(* "No basta el flag": whatever short list a policy has, what is of high    *)
(* risk or controls services runs only when it is in the list, the former   *)
(* with the flag besides; and a list takes nothing from the flag alone.     *)
ASSUME DoubleLock ==
    \A allowed \in {{}} \cup {{a, b} : a, b \in Tools}, highRisk \in BOOLEAN, tool \in Tools :
        LET policy == [allowed |-> allowed, highRisk |-> highRisk]
            risky == High \cup Critical
        IN  Allows(policy, tool) <=>
                \/ allowed = {} /\ tool \notin risky \cup RequiresAllowlist
                \/ tool \in allowed /\ (highRisk \/ tool \notin risky)

(* "Overrides por comando: herramientas con runtime natural mayor que el    *)
(* default de su riesgo": none takes time from a command, and no default is *)
(* cut to the limits a sender is held to.                                   *)
ASSUME OverridesAddTime ==
    \A tool \in Tools :
        /\ RiskTimeout(tool) <= DefaultTimeout(tool)
        /\ CommandTimeout(tool, NotGiven) = DefaultTimeout(tool)
=============================================================================
