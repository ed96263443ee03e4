----------------------------- MODULE Collectors -----------------------------
(***************************************************************************)
(* What the collectors (colsoft_tools/observability.py,                    *)
(* linux_collectors.py, windows_collectors.py, endpoint_security.py)       *)
(* return for a state of the host.  Only what the monitors built on them   *)
(* can tell apart is kept: which entries are listed, in which order a      *)
(* limit cuts, under which key an entry is filed and which value is        *)
(* compared.                                                               *)
(*                                                                         *)
(* A host is a function from the places where something can be (a pid, a   *)
(* unit, a path, a registry value, a socket) to what is there, 0 when      *)
(* nothing is.  The number of a place is its position in the listing.  A   *)
(* reading is a function from keys to the compared value.                  *)
(***************************************************************************)
EXTENDS Naturals, Sequences, FiniteSets, FiniteSetsExt

CONSTANTS
    Limit,       \* rows a collector returns at most (400 units, 2000 processes)
    Interfaces,  \* the places that are network interfaces, the others sockets
    RunValues,   \* the places that are values of one Run key of the registry
    Timers,      \* the units that are timers, the others services
    Explicit     \* the watched paths that are files, the others lie in a directory

Absent == 0
Unread == 9             \* a file that is there and cannot be read
Loaded == {1, 2}        \* a unit that systemd has loaded: active, failed
Present(host) == {p \in DOMAIN host : host[p] # Absent}

(* The first n elements of S in the order of the listing. *)
FirstOf(n, S) == {p \in S : Cardinality({q \in S : q < p}) < n}
LastOf(n, S) == {p \in S : Cardinality({q \in S : q > p}) < n}

(* What a source that cannot be read in this reading ("lost") lists. *)
Unless(source, lost, S) == IF source \in lost THEN {} ELSE S

-----------------------------------------------------------------------------
(* Processes: filed under the pid and the creation time, which is the boot  *)
(* time the kernel gives now plus the start of the process.                 *)
linux_one_proc(p, host, btime) == <<p, host[p] + btime>>
linux_process_rows(host, btime) ==
    {linux_one_proc(p, host, btime) : p \in FirstOf(Limit, Present(host))}
snapshot_processes(host, btime, lost) ==
    [k \in Unless("processes", lost, linux_process_rows(host, btime)) |-> 1]

-----------------------------------------------------------------------------
(* systemd: one listing per command, sorted, then cut. *)
systemctl_rows(host, units) == FirstOf(Limit, {p \in units : host[p] \in Loaded})
unit_file_rows(host, units) == FirstOf(Limit, Present(host) \cap units)

(* An enabled unit has the state of the loaded one, or none. *)
enrich_enabled(host, enabled, units) ==
    [p \in enabled |-> IF p \in units THEN host[p] ELSE Absent]

linux_systemd_units(host, lost) ==
    LET Services == DOMAIN host \ Timers
        States(units) == [p \in units |-> host[p]]
        units == Unless("units", lost, systemctl_rows(host, Services))
    IN [units |-> States(units),
        timers |-> States(Unless("timers", lost, systemctl_rows(host, Timers))),
        enabled |-> enrich_enabled(host,
                        Unless("enabled", lost, unit_file_rows(host, Services)), units)]

systemd_fingerprint(scan) ==
    [k \in UNION {{section} \X DOMAIN scan[section] : section \in DOMAIN scan} |->
        scan[k[1]][k[2]]]

service_status_linux(host, lost) ==
    [p \in Unless("units", lost, systemctl_rows(host, DOMAIN host)) |-> host[p]]

(* The state of the service control manager; a state it has no name for is  *)
(* none, and no row is cut.                                                 *)
windows_scm_state(state) == IF state \in Loaded THEN state ELSE Absent
service_status_windows(host, lost) ==
    [p \in Unless("units", lost, Present(host)) |-> windows_scm_state(host[p])]

-----------------------------------------------------------------------------
(* Interfaces, and a sample of the sockets. *)
net_sys_stats(host, lost) == Unless("links", lost, Present(host) \cap Interfaces)
proc_tcp_sample(host, lost) ==
    Unless("sockets", lost, FirstOf(Limit, Present(host) \ Interfaces))

-----------------------------------------------------------------------------
(* Autoruns and persistence: an item is [kind, place, value]. *)
Item(kind, p, value) == [kind |-> kind, place |-> p, value |-> value]

reg_values(host, lost) ==
    {Item("run", p, host[p]) : p \in Unless("run", lost, Present(host) \cap RunValues)}
startup_folder_entries(host, lost) ==
    {Item("startup", p, 1) : p \in Unless("startup", lost, Present(host) \ RunValues)}
(* Variant: the key is the index in the listing. *)
windows_autorunsByIndex(host, lost) ==
    {Item("run", Cardinality({q \in Present(host) : q <= p}), host[p]) : p \in Present(host)}

windows_autoruns(host, lost) ==
    reg_values(host, lost) \cup startup_folder_entries(host, lost)

(* Name and command are in the key: a changed command is another entry. *)
autoruns_fingerprint(items) == [k \in {<<i.place, i.value>> : i \in items} |-> 1]

(* A file that cannot be read has the hash of nothing. *)
FileItem(kind, host, p, lost) == Item(kind, p, IF kind \in lost THEN Unread ELSE host[p])
linux_cron_entries(host, lost) ==
    {FileItem("cron", host, p, lost) : p \in Present(host) \cap RunValues}
linux_authorized_keys(host, lost) ==
    {FileItem("keys", host, p, lost) : p \in Present(host) \ (RunValues \cup Timers)}

(* The hash is of the row of list-units: the state of the timer is in it. *)
linux_systemd_timers(host, lost) ==
    LET timers == linux_systemd_units(host, lost).timers
    IN {Item("timer", p, timers[p]) : p \in DOMAIN timers}

win_run_keys(host, lost) == reg_values(host, lost)

(* The hash of a service is of its path, that of a task of its name. *)
win_services(host, lost) ==
    {Item("service", p, host[p]) : p \in
        Unless("service", lost, FirstOf(Limit, Present(host) \ (RunValues \cup Timers)))}
win_scheduled_tasks(host, lost) ==
    {Item("task", p, 1) : p \in
        Unless("task", lost, FirstOf(Limit, Present(host) \cap (Timers \ RunValues)))}

persistence_scan(os, host, lost) ==
    IF os = "Linux"
    THEN linux_cron_entries(host, lost) \cup linux_systemd_timers(host, lost)
            \cup linux_authorized_keys(host, lost)
    ELSE win_run_keys(host, lost) \cup win_services(host, lost)
            \cup win_scheduled_tasks(host, lost)

(* Every value of a Run key is filed under the path of the key, so the last *)
(* one enumerated stands for all; other items have a path or a name.        *)
PlaceOf(item) == IF item.kind = "run" THEN Max(RunValues) ELSE item.place
persistence_fingerprint(items) ==
    [k \in {<<i.kind, PlaceOf(i)>> : i \in items} |->
        LET filed == {i \in items : <<i.kind, PlaceOf(i)>> = k}
            last == CHOOSE i \in filed : \A j \in filed : j.place <= i.place
        IN <<last.place, last.value>>]

-----------------------------------------------------------------------------
(* Files: those that are named, there or not, then those in the watched     *)
(* directory in the order of their names, cut.                              *)
default_fim_paths(host) == Present(host) \cap Explicit
expand_paths(host, paths, lost) ==
    FirstOf(Limit, paths \cup Unless("folder", lost, Present(host) \ Explicit))
file_meta(host, p, lost) ==
    IF "hash" \in lost /\ host[p] # Absent THEN Unread ELSE host[p]
fim_scan(host, paths, lost) ==
    [p \in Unless("files", lost, expand_paths(host, paths, lost)) |-> file_meta(host, p, lost)]

(* Connections to port 53, with the process that has the socket if it is    *)
(* found among the first ones of /proc, and the resolver's cache.           *)
dns_from_connections(host, lost) ==
    {<<p, IF "pids" \in lost THEN 0 ELSE 1>> : p \in
        Unless("connections", lost, FirstOf(Limit, Present(host) \cap Explicit))}
dns_cache_linux(host, lost) ==
    {<<p, 0>> : p \in Unless("cache", lost, FirstOf(Limit, Present(host) \ Explicit))}
dns_monitor(host, lost) ==
    [k \in dns_from_connections(host, lost) \cup dns_cache_linux(host, lost) |-> 1]

-----------------------------------------------------------------------------
(* Logs: a log is a sequence of lines, a reading the set of the positions   *)
(* of the lines returned.                                                   *)

(* journalctl -n, or the tail of auth.log. *)
auth_lines_linux(most, lines) == LastOf(most, lines)

(* wevtutil /rd:true /c:most: the newest. *)
windows_event_log(most, lines) == LastOf(most, lines)

(* The rows that match a pattern, oldest first, until there are "most". *)
parse_auth_lines(most, rows, matching) == FirstOf(most, rows \cap matching)

(* Windows has no more rows than may be returned. *)
auth_audit(os, most, lines, matching) ==
    IF os = "Linux" THEN parse_auth_lines(most, auth_lines_linux(4 * most, lines), matching)
                    ELSE windows_event_log(most, lines) \cap matching

(* ausearch -ts recent, oldest first; when it has nothing, or is missing,   *)
(* the tail of audit.log.  Then the first "most".                           *)
linux_auditd(most, lines, recent, searchable) ==
    LET found == IF searchable THEN recent ELSE {}
    IN FirstOf(most, IF found # {} THEN FirstOf(5 * most, found)
                                   ELSE LastOf(3 * most, lines))

windows_sysmon(most, lines, installed) ==
    [installed |-> installed,
     entries |-> IF installed THEN windows_event_log(most, lines) ELSE {}]

-----------------------------------------------------------------------------
(* Levels.  A metric that the snapshot does not have is None. *)
None == "unknown"
metric_from_snapshot(metrics, s) == metrics[s]

(* The status of each check, in order; a check whose parameters raise ends  *)
(* the round, and those after it are not reached.                           *)
run_health_probes(checks) ==
    [s \in {c \in DOMAIN checks : \A d \in DOMAIN checks : d <= c => checks[d] # None} |->
        checks[s]]

(* The rules a process matches: by its command line, or because a word of  *)
(* it starts with a temporary path (the snapshot has no executable path).  *)
match_detection_rules(proc) ==
    {rule \in {"SEC-001", "SEC-002", "SEC-004"} : rule \in proc.command}
        \cup {rule \in {"SEC-003"} : proc.tmpWord}

(* The processes in /proc and, listed after it, those psutil tells: one that *)
(* is hidden is only in the first, one that starts in between only in the    *)
(* second, one that ends only in the first.                                  *)
proc_pids_from_fs(facts, race) ==
    {"agent"} \cup {p \in {"hidden"} : p \in facts} \cup {p \in {"ended"} : race = p}
psutil_pids(race) == {"agent"} \cup {p \in {"started"} : race = p}

rootkit_check(facts, race) ==
    LET procs == proc_pids_from_fs(facts, race)
        pids == psutil_pids(race)
    IN {f \in {"RK-01"} : procs \ pids # {}} \cup {f \in {"RK-02"} : pids \ procs # {}}
        \cup {f \in {"RK-03"} : "tainted" \in facts}
        \cup {f \in {"RK-04"} : "module" \in facts}
        \cup {f \in {"RK-05"} : "suid" \in facts}

(* The checks made and whether they pass; that of /etc/shadow is left out   *)
(* when the file cannot be read.  Three checks stand for twelve.            *)
cis_linux(facts) ==
    [c \in {"aslr", "modes"} \cup {s \in {"shadow"} : facts.readable} |-> c \in facts.passed]
cis_windows(facts) == [c \in {"firewall", "uac", "smb1"} |-> c \in facts.passed]

(* 100 * passed / total. *)
cis_score(os, facts) ==
    LET checks == IF os = "Linux" THEN cis_linux(facts) ELSE cis_windows(facts)
        passed == {c \in DOMAIN checks : checks[c]}
    IN (100 * Cardinality(passed)) \div Cardinality(DOMAIN checks)
=============================================================================
