---------------------------- MODULE LevelWatchers ----------------------------
(***************************************************************************)
(* The loops that evaluate the host as it is, not against a snapshot:      *)
(* AlertEngine and HealthProbeLoop (obs_monitors.py) remember a level and  *)
(* report when it changes; DetectionEngine and RootkitLoop                 *)
(* (sec_monitors.py) report a finding once per cooldown, and a detection   *)
(* may start ActiveResponse; CisLoop compares a score with the last one.   *)
(*                                                                         *)
(* Time passes in ticks.  What the code keeps as the time of the last      *)
(* event and compares with the monotonic clock, which starts at boot, is   *)
(* its age: 0..Cooldown, never more.  The code's default for "never" is 0, *)
(* so a finding that was never reported is as old as the boot.             *)
(***************************************************************************)
EXTENDS Collectors

CONSTANTS
    Levels,      \* the loops an instance starts
    Subjects,    \* alert rules, health checks, processes: 1..n
    Cooldown,    \* in ticks
    CapPerTick,  \* max_events_per_tick of the detection engine
    MinScore,
    MaxAbort     \* bound: responses that raise

ASSUME LevelsAssumption ==
    /\ Levels \subseteq {"alert", "health", "detection", "rootkit", "cis", "cis_windows"}
    /\ Cooldown \in Nat \ {0}
    /\ CapPerTick \in Nat \ {0}
    /\ MaxAbort \in Nat

VARIABLES
    engine,     \* which one runs, "off" for none
    facts,      \* what holds on the host, see Findings
    firing,     \* _firing, _last: the remembered level of each subject
    uptime,     \* the monotonic clock, up to a cooldown
    age,        \* ticks since the last event of a finding, _last_fire
    score,      \* _last_score, Unscored before the first
    aborts,
    \* history
    measured,   \* the level or score at the last tick that measured it
    announced,  \* the level or score the last event carried
    heard,      \* findings whose event was emitted within the cooldown
    missed      \* findings whose event was made and never emitted

levelVars == <<engine, facts, firing, uptime, age, score, aborts, measured, announced,
               heard, missed>>

Unscored == 101

(* SEC-001 stands for the rules on the command line, SEC-003 is the one on  *)
(* temporary paths; two warnings of a rootkit stand for three.              *)
Processes == [command : SUBSET {"SEC-001"}, tmpWord : BOOLEAN]
CisFacts(checks) == [passed : SUBSET checks, readable : BOOLEAN]
IsCis(e) == e \in {"cis", "cis_windows"}

Findable ==
    CASE engine = "detection" -> Subjects \X {"SEC-001", "SEC-003"}
      [] engine = "rootkit" -> {"RK-01", "RK-02", "RK-03", "RK-04", "RK-05"}
      [] OTHER -> {}

Worlds(e) ==
    CASE e \in {"alert", "health"} -> [Subjects -> {"high", "low", None}]
      [] e = "detection" -> [Subjects -> Processes]
      [] e = "rootkit" -> SUBSET {"hidden", "tainted", "suid"}
      [] e = "cis" -> CisFacts({"aslr", "modes", "shadow"})
      [] e = "cis_windows" -> CisFacts({"firewall", "uac", "smb1"})
      [] e = "off" -> {{}}

LevelsInit ==
    /\ engine \in Levels \cup {"off"}
    /\ facts \in Worlds(engine)
    /\ firing = [s \in Subjects |-> IF engine = "alert" THEN "low" ELSE None]
    /\ uptime \in IF Findable = {} THEN {0} ELSE 0..Cooldown
    /\ age = [f \in Findable |-> uptime]
    /\ score = Unscored
    /\ aborts = 0
    /\ measured = IF IsCis(engine) THEN Unscored ELSE firing
    /\ announced = measured
    /\ heard = {}
    /\ missed = {}

-----------------------------------------------------------------------------
FactsChange ==
    /\ engine # "off"
    /\ facts' \in Worlds(engine) \ {facts}
    /\ UNCHANGED <<engine, firing, uptime, age, score, aborts, measured, announced, heard, missed>>

Passes(ticks) == IF ticks < Cooldown THEN ticks + 1 ELSE Cooldown

(* Variant: the cooldown also holds back the first event of a new alert. *)
AlertEngineHeld(over) ==
    LET rules == {s \in Subjects : metric_from_snapshot(facts, s) # None}
        events == {s \in rules : /\ facts[s] = "low" => firing[s] = "high"
                                 /\ facts[s] = "high" => s \in over}
    IN /\ firing' = [s \in Subjects |-> IF s \in events THEN facts[s] ELSE firing[s]]
       /\ announced' = [s \in Subjects |-> IF s \in events THEN facts[s] ELSE announced[s]]
       /\ measured' = [s \in Subjects |-> IF s \in rules THEN facts[s] ELSE measured[s]]

(* A rule whose metric is missing is left as it is.  A metric beyond its    *)
(* threshold is reported when it was not firing or the cooldown is over;    *)
(* one that is back is reported once.  Both carry the level.  "over": the   *)
(* rules whose cooldown is over.                                            *)
AlertEngine(over) ==
    LET rules == {s \in Subjects : metric_from_snapshot(facts, s) # None}
        events == {s \in rules : /\ facts[s] = "low" => firing[s] = "high"
                                 /\ facts[s] = "high" => firing[s] = "low" \/ s \in over}
    IN /\ firing' = [s \in Subjects |-> IF s \in events THEN facts[s] ELSE firing[s]]
       /\ announced' = [s \in Subjects |-> IF s \in events THEN facts[s] ELSE announced[s]]
       /\ measured' = [s \in Subjects |-> IF s \in rules THEN facts[s] ELSE measured[s]]

(* The first status of a check is an event, then each change; a check that  *)
(* was not reached is left as it is.  emit_always, an event at every tick,  *)
(* is taken to be off.                                                      *)
HealthProbeLoop ==
    LET status == run_health_probes(facts)
        events == {s \in DOMAIN status : firing[s] # status[s]}
        Takes(level, S) == [s \in Subjects |-> IF s \in S THEN status[s] ELSE level[s]]
    IN /\ firing' = Takes(firing, DOMAIN status)
       /\ announced' = Takes(announced, events)
       /\ measured' = Takes(measured, DOMAIN status)

(* A score below the minimum, or below the last one; a scan is taken to     *)
(* give a score.                                                            *)
CisLoop ==
    LET now == cis_score(IF engine = "cis" THEN "Linux" ELSE "Windows", facts)
        event == now < MinScore \/ (score # Unscored /\ now < score)
    IN /\ score' = now
       /\ measured' = now
       /\ announced' = IF event THEN now ELSE announced

LevelTick ==
    /\ \/ /\ engine = "alert" /\ UNCHANGED score
          /\ \E over \in SUBSET Subjects : AlertEngine(over)
       \/ engine = "health" /\ HealthProbeLoop /\ UNCHANGED score
       \/ IsCis(engine) /\ CisLoop /\ UNCHANGED firing
    /\ UNCHANGED <<engine, facts, uptime, age, aborts, heard, missed>>

-----------------------------------------------------------------------------
Due(f) == age[f] >= Cooldown

(* The hits of this tick in the order of the processes and, for each, of    *)
(* the rules; those in their cooldown are passed over and the tick stops at *)
(* the maximum.                                                             *)
Before(f, g) == f[1] < g[1] \/ (f[1] = g[1] /\ f[2] = "SEC-001" /\ g[2] = "SEC-003")
Matches == {f \in Findable : engine = "detection" /\ f[2] \in match_detection_rules(facts[f[1]])}
DetectionEngine ==
    LET hits == {f \in Matches : Due(f)}
    IN {f \in hits : Cardinality({g \in hits : Before(g, f)}) < CapPerTick}

RootkitLoop(race) == {f \in rootkit_check(facts, race) : Due(f)}

(* Variant: the time of every hit is noted, also beyond the maximum. *)
EmitsAll(made, emitted) ==
    /\ uptime' = Passes(uptime)
    /\ age' = [f \in Findable |-> IF f \in made \cup {g \in Matches : Due(g)} THEN 1 ELSE Passes(age[f])]
    /\ heard' = (heard \ {f \in Findable : Due(f)}) \cup emitted
    /\ missed' = (missed \ {f \in Findable : Due(f)}) \cup (made \ emitted)
    /\ UNCHANGED <<engine, facts, firing, score, measured, announced>>

(* Variant: a hit inside its cooldown starts the cooldown again. *)
EmitsTouching(made, emitted) ==
    /\ uptime' = Passes(uptime)
    /\ age' = [f \in Findable |-> IF f \in made \cup Matches THEN 1 ELSE Passes(age[f])]
    /\ heard' = (heard \ {f \in Findable : Due(f)}) \cup emitted
    /\ missed' = (missed \ {f \in Findable : Due(f)}) \cup (made \ emitted)
    /\ UNCHANGED <<engine, facts, firing, score, measured, announced>>

(* The events are made, and their time is noted, before the first is        *)
(* emitted; a response that raises ends the tick, and the events after it   *)
(* are gone until their cooldown is over.                                   *)
Emits(made, emitted) ==
    /\ uptime' = Passes(uptime)
    /\ age' = [f \in Findable |-> IF f \in made THEN 1 ELSE Passes(age[f])]
    /\ heard' = (heard \ {f \in Findable : Due(f)}) \cup emitted
    /\ missed' = (missed \ {f \in Findable : Due(f)}) \cup (made \ emitted)
    /\ UNCHANGED <<engine, facts, firing, score, measured, announced>>

DetectionTick ==
    /\ engine = "detection"
    /\ Emits(DetectionEngine, DetectionEngine)
    /\ UNCHANGED aborts

(* maybe_respond: the event is out; what it does after that may raise. *)
DetectionTickAborts ==
    /\ engine = "detection"
    /\ aborts < MaxAbort
    /\ aborts' = aborts + 1
    /\ \E f \in DetectionEngine :
            Emits(DetectionEngine, {g \in DetectionEngine : g = f \/ Before(g, f)})

RootkitTick ==
    /\ engine = "rootkit"
    /\ \E race \in {"none", "started", "ended"} : Emits(RootkitLoop(race), RootkitLoop(race))
    /\ UNCHANGED aborts

LevelsNext ==
    FactsChange \/ LevelTick \/ DetectionTick \/ DetectionTickAborts \/ RootkitTick
-----------------------------------------------------------------------------
(* What the last event said of an alert rule or a health check is its level *)
(* at the last tick that could measure it, and a reader who was told of no  *)
(* low CIS score since is right to believe there is none: however often a   *)
(* level changes within a cooldown, alerts come and clear in pairs.         *)
LevelIsTold ==
    /\ engine \in {"alert", "health"} => announced = measured
    /\ IsCis(engine) /\ measured # Unscored /\ measured < MinScore => announced = measured

(* A finding the engine keeps silent about was heard within the cooldown,   *)
(* or its event was lost with a tick that a response ended, or the host has *)
(* been up for less than a cooldown.                                        *)
SilenceIsExplained ==
    uptime = Cooldown => \A f \in Findable : ~Due(f) => f \in heard \cup missed

(* A finding that lasts is heard, again and again: the maximum of a tick    *)
(* puts it off and an aborted response loses it once.                       *)
LastingFindingIsHeard ==
    /\ \A f \in Subjects \X {"SEC-001", "SEC-003"} :
            <>[](engine = "detection" /\ f[2] \in match_detection_rules(facts[f[1]]))
                => []<>(engine = "detection" /\ f \in heard)
    /\ \A f \in {"RK-01", "RK-03", "RK-05"} :
            <>[](engine = "rootkit" /\ f \in rootkit_check(facts, "none"))
                => []<>(engine = "rootkit" /\ f \in heard)
=============================================================================
