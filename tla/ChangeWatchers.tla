--------------------------- MODULE ChangeWatchers ---------------------------
(***************************************************************************)
(* The watchers that compare a snapshot with the one before and report the *)
(* differences: ProcessWatcher and ServiceWatcher (obs_monitors.py),       *)
(* FimWatcher, PersistenceWatcher and DnsWatcher (sec_monitors.py),        *)
(* SystemdUnitWatcher and NetlinkWatcher (linux_monitors.py),              *)
(* AutorunWatcher (win_monitors.py).                                       *)
(*                                                                         *)
(* The snapshot always becomes the next baseline, also when a tick had no  *)
(* room for all it saw, or when the collector failed and it is empty.  The *)
(* question is what someone who has only the events believes.  An event on *)
(* a key carries its new value, so it is the key; a tick is the set of     *)
(* keys it reports, the emission of which no other task interrupts.        *)
(***************************************************************************)
EXTENDS Collectors

CONSTANTS
    Watched,    \* the watchers an instance starts
    Places,     \* 1..n, the places of the host
    Cap,        \* events a tick may emit, where there is a maximum
    MaxFault,   \* bound: steps of the clock, restarts and ticks with more
                \* differences than the maximum; no collection fails after it
    NoBaseline  \* before the first tick

ASSUME WatchersAssumption ==
    /\ Watched \subseteq {"process", "service", "service_windows", "systemd", "netlink",
                          "autorun", "persistence", "persistence_windows", "fim",
                          "fim_default", "dns"}
    /\ Places \subseteq Nat /\ IsFiniteSet(Places)
    /\ Interfaces \cup RunValues \cup Timers \cup Explicit \subseteq Places
    /\ {Cap, MaxFault, Limit} \subseteq Nat /\ Cap # 0

VARIABLES
    watcher,   \* which one runs, "off" for none
    host,
    drift,     \* how much the kernel's boot time has moved (adjusted clock)
    seen,      \* the baseline
    faults,
    \* history
    before,    \* the host at the last tick
    whole,     \* the last reading was complete and of the same clock
    reported,  \* the keys the last tick reported, {} after anything else
    told,      \* what a reader of the events believes, but for hidden keys
    hidden     \* keys whose last change no event carried, by a known gap

watcherVars == <<watcher, host, drift, seen, faults, before, whole, reported, told,
                 hidden>>

HasBaseline == seen # NoBaseline

Contents(w, p) ==
    CASE w \in {"netlink", "dns"} -> {Absent, 1}
      [] w = "systemd" /\ p \in Timers -> {Absent, 1}
      [] w \in {"service", "service_windows", "systemd"} /\ p \notin Timers ->
            {Absent, 1, 2, 3}       \* 3: not loaded, or a state without a name
      [] OTHER -> {Absent, 1, 2}

(* What can fail by itself in a reading of watcher w. *)
Sources(w) ==
    CASE w = "process" -> {"processes"}
      [] w \in {"service", "service_windows"} -> {"units"}
      [] w = "systemd" -> {"units", "timers", "enabled"}
      [] w = "netlink" -> {"links", "sockets"}
      [] w = "autorun" -> {"run", "startup"}
      [] w = "persistence" -> {"cron", "timers", "keys"}
      [] w = "persistence_windows" -> {"run", "service", "task"}
      [] w \in {"fim", "fim_default"} -> {"files", "folder", "hash"}
      [] w = "dns" -> {"connections", "cache", "pids"}

(* The snapshot of watcher w, without the sources in "lost". *)
Reading(w, h, d, lost) ==
    CASE w = "process" -> snapshot_processes(h, d, lost)
      [] w = "service" -> service_status_linux(h, lost)
      [] w = "service_windows" -> service_status_windows(h, lost)
      [] w = "systemd" -> systemd_fingerprint(linux_systemd_units(h, lost))
      [] w = "netlink" -> [p \in net_sys_stats(h, lost) \cup proc_tcp_sample(h, lost) |-> 1]
      [] w = "autorun" -> autoruns_fingerprint(windows_autoruns(h, lost))
      [] w = "persistence" -> persistence_fingerprint(persistence_scan("Linux", h, lost))
      [] w = "persistence_windows" -> persistence_fingerprint(persistence_scan("Windows", h, lost))
      [] w = "fim" -> fim_scan(h, Explicit, lost)
      [] w = "fim_default" -> fim_scan(h, default_fim_paths(h), lost)
      [] w = "dns" -> dns_monitor(h, lost)

(* What the limit of the listing is about. *)
Rows(w, h) ==
    CASE w \in {"service_windows", "autorun"} -> {}
      [] w = "netlink" -> Present(h) \ Interfaces
      [] w = "persistence" -> Present(h) \cap Timers
      [] OTHER -> Present(h) \cup Explicit

(* Everything there is fits in the reading. *)
Listed(w, h) == Cardinality(Rows(w, h)) <= Limit

WatchersInit ==
    /\ watcher \in Watched \cup {"off"}
    /\ host \in IF watcher = "off" THEN {[p \in Places |-> Absent]}
                ELSE {h \in [Places -> 0..3] : \A p \in Places : h[p] \in Contents(watcher, p)}
    /\ drift = 0
    /\ seen = NoBaseline
    /\ faults = 0
    /\ before = host
    /\ whole = FALSE
    /\ reported = {}
    /\ told = NoBaseline
    /\ hidden = {}

-----------------------------------------------------------------------------
Added(old, new) == DOMAIN new \ DOMAIN old
Removed(old, new) == DOMAIN old \ DOMAIN new
Changed(old, new) == {k \in DOMAIN old \cap DOMAIN new : old[k] # new[k]}
Differences(old, new) == Added(old, new) \cup Removed(old, new) \cup Changed(old, new)

Room(n) == IF n < Cap THEN Cap - n ELSE 0

(* As many of S as there is room for: any, or the first ones. *)
AnyOf(room, S) == kSubset(Min({room, Cardinality(S)}), S)

(* Created processes first, exited ones in the room that is left. *)
ProcessWatcher(old, new) ==
    {c \cup e : c \in AnyOf(Cap, Added(old, new)),
                e \in AnyOf(Room(Cardinality(Added(old, new))), Removed(old, new))}

(* In the order of the names: added, removed, then those whose state changed. *)
ServiceWatcher(old, new) ==
    LET added == FirstOf(Cap, Added(old, new))
        removed == FirstOf(Room(Cardinality(added)), Removed(old, new))
        state == FirstOf(Room(Cardinality(added \cup removed)), Changed(old, new))
    IN {added \cup removed \cup state}

(* A room for each of added and removed; the changes stop once the total is *)
(* reached, after at least one.  No event when the new state is unknown.    *)
SystemdUnitWatcher(old, new) ==
    LET known == {k \in Changed(old, new) : new[k] # Absent}
    IN UNION {UNION {{c \cup e \cup s :
            s \in AnyOf(Max({1, Room(Cardinality(c \cup e))}), known)} :
                e \in AnyOf(Cap, Removed(old, new))} : c \in AnyOf(Cap, Added(old, new))}

(* All interfaces; new sockets until the total is reached, after at least   *)
(* one.  A socket that is gone is no event.                                 *)
NetlinkWatcher(old, new) ==
    LET links == (Added(old, new) \cup Removed(old, new)) \cap Interfaces
        sockets == Added(old, new) \ Interfaces
    IN {links \cup s : s \in AnyOf(Max({1, Room(Cardinality(links))}), sockets)}

AutorunWatcher(old, new) == {Added(old, new) \cup Removed(old, new)}

PersistenceWatcher(old, new) == {Added(old, new) \cup Changed(old, new) \cup Removed(old, new)}

(* Variant: a modified file is no difference. *)
fim_diffOfPaths(old, new) ==
    [created |-> Added(old, new), deleted |-> Removed(old, new), modified |-> {}]

fim_diff(old, new) ==
    [created |-> Added(old, new), deleted |-> Removed(old, new),
     modified |-> Changed(old, new)]

FimWatcher(old, new) ==
    LET diffs == fim_diff(old, new)
    IN {diffs.created \cup diffs.deleted \cup diffs.modified}

(* Only what was not in the snapshot before. *)
DnsWatcher(old, new) == {Added(old, new)}

Reports(w, old, new) ==
    CASE w = "process" -> ProcessWatcher(old, new)
      [] w \in {"service", "service_windows"} -> ServiceWatcher(old, new)
      [] w = "systemd" -> SystemdUnitWatcher(old, new)
      [] w = "netlink" -> NetlinkWatcher(old, new)
      [] w = "autorun" -> AutorunWatcher(old, new)
      [] w \in {"persistence", "persistence_windows"} -> PersistenceWatcher(old, new)
      [] w \in {"fim", "fim_default"} -> FimWatcher(old, new)
      [] w = "dns" -> DnsWatcher(old, new)

(* Differences a watcher never reports, however few there are. *)
Mute(w, old, new) ==
    CASE w = "systemd" -> {k \in Changed(old, new) : new[k] = Absent}
      [] w = "netlink" -> Removed(old, new) \ Interfaces
      [] w = "dns" -> Removed(old, new)
      [] OTHER -> {}

HasMaximum(w) == w \in {"process", "service", "service_windows", "systemd", "netlink"}

(* A reader's view after events on "keys", without what it cannot know. *)
Believes(view, new, keys, unknown) ==
    [k \in ((DOMAIN view \ keys) \cup (keys \cap DOMAIN new)) \ unknown |->
        IF k \in keys THEN new[k] ELSE view[k]]

-----------------------------------------------------------------------------
(* The first tick after a start: a baseline, no event. *)
Baseline(reading) ==
    /\ ~HasBaseline
    /\ reported' = {}
    /\ hidden' = IF told = NoBaseline THEN {} ELSE hidden \cup Differences(told, reading)
    /\ told' = IF told = NoBaseline THEN reading ELSE Believes(told, reading, {}, hidden')
    /\ UNCHANGED faults

Compares(reading) ==
    /\ HasBaseline
    /\ LET differ == Differences(seen, reading)
           full == HasMaximum(watcher) /\ Cardinality(differ) > Cap
       IN /\ full => faults < MaxFault
          /\ faults' = IF full THEN faults + 1 ELSE faults
          /\ reported' \in Reports(watcher, seen, reading)
          /\ hidden' = (hidden \ differ) \cup
                            (IF full THEN differ ELSE Mute(watcher, seen, reading))
          /\ told' = Believes(told, reading, reported', hidden')

(* One round of run_forever: read, compare, emit. *)
Tick(reading, complete) ==
    /\ Baseline(reading) \/ Compares(reading)
    /\ seen' = reading
    /\ before' = host
    /\ whole' = complete
    /\ UNCHANGED <<watcher, host, drift>>

WatcherTick ==
    /\ watcher # "off"
    /\ Tick(Reading(watcher, host, drift, {}), Listed(watcher, host))

(* A source fails, or all: no watcher tells a failed reading from an empty  *)
(* one.                                                                     *)
WatcherTickBlind ==
    /\ watcher # "off"
    /\ faults < MaxFault
    /\ \E lost \in {{s} : s \in Sources(watcher)} \cup {Sources(watcher)} :
            Tick(Reading(watcher, host, drift, lost), FALSE)

HostChanges ==
    /\ watcher # "off"
    /\ \E p \in Places : \E v \in Contents(watcher, p) \ {host[p]} :
            host' = [host EXCEPT ![p] = v]
    /\ reported' = {}
    /\ UNCHANGED <<watcher, drift, seen, faults, before, whole, told, hidden>>

(* The clock is set: the boot time, and every creation time, moves. *)
ClockIsSet ==
    /\ watcher = "process"
    /\ faults < MaxFault
    /\ faults' = faults + 1
    /\ drift' = drift + 2
    /\ whole' = FALSE
    /\ reported' = {}
    /\ UNCHANGED <<watcher, host, seen, before, told, hidden>>

(* The agent restarts and has no baseline again. *)
WatcherRestarts ==
    /\ HasBaseline
    /\ faults < MaxFault
    /\ faults' = faults + 1
    /\ seen' = NoBaseline
    /\ whole' = FALSE
    /\ reported' = {}
    /\ UNCHANGED <<watcher, host, drift, before, told, hidden>>

WatchersNext ==
    WatcherTick \/ WatcherTickBlind \/ HostChanges \/ ClockIsSet \/ WatcherRestarts
-----------------------------------------------------------------------------
(* The place a key is about. *)
PlacesOf(w, k) ==
    IF w \in {"persistence", "persistence_windows"}
    THEN (IF k[1] = "run" THEN RunValues ELSE {k[2]})
    ELSE IF w = "systemd" THEN {k[2]}
    ELSE IF w \in {"process", "autorun", "dns"} THEN {k[1]} ELSE {k}

Holds(view, k) == IF k \in DOMAIN view THEN {view[k]} ELSE {}

(* What the events told of a key is what the watcher last saw of it, unless *)
(* its last change came in a tick with more differences than the maximum,   *)
(* while the agent was down, or is of a sort the watcher does not report:   *)
(* the order of added, removed and changed, the rooms they share and the    *)
(* baseline that always moves on leave no other gap.                        *)
EventsTellTheBaseline ==
    HasBaseline =>
        \A k \in (DOMAIN told \cup DOMAIN seen) \ hidden : Holds(told, k) = Holds(seen, k)

(* An event is about something that changed: between two complete readings  *)
(* no key is reported whose places are as they were.  A failed or cut       *)
(* reading and a clock that is set are the only false alarms.               *)
AlarmsAreTrue ==
    [][ whole /\ whole' /\ seen # NoBaseline =>
            \A k \in reported' :
                \E p \in PlacesOf(watcher, k) : before[p] # before'[p] ]_watcherVars
=============================================================================
