--------------------------- MODULE Monitors_proofs ---------------------------
(***************************************************************************)
(* Proofs, for every number of places, lines, subjects and every limit, of *)
(* what the events of the monitors tell.                                   *)
(***************************************************************************)
EXTENDS Monitors, FiniteSetTheorems, TLAPS

(* The part of the specification the invariants rest on. *)
Safe == Init /\ [][Next]_vars

LEMMA SpecIsSafe == Spec => Safe
BY PTL DEF Spec, Safe

-----------------------------------------------------------------------------
(* Levels: an alert rule is high or low, and what is remembered of a rule or *)
(* a check is what was measured and told last.                               *)
LevelsMatch ==
    /\ facts \in Worlds(engine)
    /\ engine = "alert" => firing \in [Subjects -> {"high", "low"}]
    /\ engine = "health" => firing \in [Subjects -> {"high", "low", None}]
    /\ engine \in {"alert", "health"} => measured = firing /\ announced = firing
    /\ IsCis(engine) /\ measured # Unscored /\ measured < MinScore => announced = measured

LEMMA LevelsMatchInit == Init => LevelsMatch
BY DEF Init, LevelsInit, LevelsMatch, IsCis

LEMMA AlertsMatch ==
    ASSUME LevelsMatch, engine = "alert", engine' = engine, facts' = facts,
           NEW over, AlertEngine(over)
    PROVE  LevelsMatch'
<1> DEFINE rules == {s \in Subjects : metric_from_snapshot(facts, s) # None}
           events == {s \in rules : /\ facts[s] = "low" => firing[s] = "high"
                                    /\ facts[s] = "high" => firing[s] = "low" \/ s \in over}
<1>1. /\ firing' = [s \in Subjects |-> IF s \in events THEN facts[s] ELSE firing[s]]
      /\ announced' = [s \in Subjects |-> IF s \in events THEN facts[s] ELSE announced[s]]
      /\ measured' = [s \in Subjects |-> IF s \in rules THEN facts[s] ELSE measured[s]]
  BY DEF AlertEngine
<1>2. /\ facts \in [Subjects -> {"high", "low", None}]
      /\ firing \in [Subjects -> {"high", "low"}] /\ measured = firing /\ announced = firing
  BY DEF LevelsMatch, Worlds
<1>3. \A s \in rules : facts[s] \in {"high", "low"} /\ (s \notin events => facts[s] = firing[s])
  BY <1>2 DEF metric_from_snapshot
<1>4. \A s \in Subjects : /\ firing'[s] \in {"high", "low"}
                          /\ announced'[s] = firing'[s] /\ measured'[s] = firing'[s]
  BY <1>1, <1>2, <1>3
<1>5. firing' \in [Subjects -> {"high", "low"}] /\ measured' = firing' /\ announced' = firing'
  BY <1>1, <1>4
<1> QED
  BY <1>5 DEF LevelsMatch, IsCis

LEMMA HealthMatches ==
    ASSUME LevelsMatch, engine = "health", engine' = engine, facts' = facts, HealthProbeLoop
    PROVE  LevelsMatch'
<1> DEFINE status == run_health_probes(facts)
           events == {s \in DOMAIN status : firing[s] # status[s]}
<1>1. /\ firing' = [s \in Subjects |-> IF s \in DOMAIN status THEN status[s] ELSE firing[s]]
      /\ announced' = [s \in Subjects |-> IF s \in events THEN status[s] ELSE announced[s]]
      /\ measured' = [s \in Subjects |-> IF s \in DOMAIN status THEN status[s] ELSE measured[s]]
  BY DEF HealthProbeLoop
<1>2. /\ facts \in [Subjects -> {"high", "low", None}]
      /\ firing \in [Subjects -> {"high", "low", None}]
      /\ measured = firing /\ announced = firing
  BY DEF LevelsMatch, Worlds
<1>3. \A s \in DOMAIN status : s \in Subjects /\ status[s] \in {"high", "low", None}
  BY <1>2 DEF run_health_probes
<1>4. \A s \in Subjects : /\ firing'[s] \in {"high", "low", None}
                          /\ announced'[s] = firing'[s] /\ measured'[s] = firing'[s]
  <2> HIDE DEF status
  <2> QED
    BY <1>1, <1>2, <1>3
<1>5. /\ firing' \in [Subjects -> {"high", "low", None}]
      /\ measured' = firing' /\ announced' = firing'
  <2> HIDE DEF status
  <2> QED
    BY <1>1, <1>4
<1> QED
  BY <1>2, <1>5 DEF LevelsMatch, IsCis

LEMMA LevelsMatchNext == LevelsMatch /\ [Next]_vars => LevelsMatch'
<1> SUFFICES ASSUME LevelsMatch, [Next]_vars PROVE LevelsMatch'
  OBVIOUS
<1>1. CASE UNCHANGED levelVars
  BY <1>1 DEF levelVars, LevelsMatch
<1>2. CASE FactsChange
  BY <1>2 DEF FactsChange, LevelsMatch
<1>3. CASE LevelTick
  <2>1. CASE IsCis(engine) /\ CisLoop /\ UNCHANGED firing
    <3>1. /\ engine' = engine /\ facts' = facts /\ engine \notin {"alert", "health"}
          /\ (measured' < MinScore => announced' = measured')
      BY <1>3, <2>1 DEF LevelTick, CisLoop, IsCis
    <3> QED
      BY <3>1 DEF LevelsMatch
  <2> QED
    BY <1>3, <2>1, AlertsMatch, HealthMatches DEF LevelTick
<1>4. CASE DetectionTick \/ DetectionTickAborts \/ RootkitTick
  <2>1. UNCHANGED <<engine, facts, firing, measured, announced>>
    BY <1>4 DEF DetectionTick, DetectionTickAborts, RootkitTick, Emits
  <2> QED
    BY <2>1 DEF LevelsMatch
<1> QED
  BY <1>1, <1>2, <1>3, <1>4 DEF Next, LevelsNext, vars

(* The last event of an alert rule or a health check carries the level that  *)
(* was measured last, and a low CIS score is known (AlertEngine,             *)
(* HealthProbeLoop, CisLoop).                                                *)
THEOREM LevelsAreTold == Spec => []LevelIsTold
<1>1. LevelsMatch => LevelIsTold
  BY DEF LevelsMatch, LevelIsTold
<1>2. Safe => []LevelIsTold
  BY <1>1, LevelsMatchInit, LevelsMatchNext, PTL DEF Safe
<1> QED
  BY <1>2, SpecIsSafe, PTL

-----------------------------------------------------------------------------
(* Findings: the age of what nobody heard of lately is that of the host. *)
AgesMatch ==
    /\ uptime \in 0..Cooldown
    /\ \A f \in Findable :
        age[f] \in 0..Cooldown /\ (f \notin heard \cup missed => age[f] >= uptime)

LEMMA AgesMatchInit == Init => AgesMatch
BY LevelsAssumption DEF Init, LevelsInit, AgesMatch

LEMMA EmitsMatch ==
    ASSUME AgesMatch, NEW made, NEW emitted, emitted \subseteq made, Emits(made, emitted)
    PROVE  AgesMatch'
<1>1. Findable' = Findable
  BY DEF Emits, Findable
<1>2. /\ uptime' = Passes(uptime)
      /\ age' = [f \in Findable |-> IF f \in made THEN 1 ELSE Passes(age[f])]
      /\ heard' = (heard \ {f \in Findable : Due(f)}) \cup emitted
      /\ missed' = (missed \ {f \in Findable : Due(f)}) \cup (made \ emitted)
  BY DEF Emits
<1>3. Cooldown \in Nat \ {0} /\ uptime \in 0..Cooldown
  BY LevelsAssumption DEF AgesMatch
<1>4. \A n \in 0..Cooldown : Passes(n) \in 0..Cooldown
  BY <1>3 DEF Passes
<1>5. \A n, m \in 0..Cooldown : n >= m => Passes(n) >= Passes(m)
  BY <1>3 DEF Passes
<1>6. Passes(Cooldown) = Cooldown /\ 1 \in 0..Cooldown
  BY <1>3 DEF Passes
<1>7. ASSUME NEW f \in Findable
      PROVE  /\ age'[f] \in 0..Cooldown
             /\ f \notin heard' \cup missed' => age'[f] >= uptime'
  <2>1. age[f] \in 0..Cooldown /\ (f \notin heard \cup missed => age[f] >= uptime)
    BY DEF AgesMatch
  <2>2. CASE f \in made
    BY <1>2, <1>6, <2>2
  <2>3. CASE f \notin made
    <3>1. age'[f] = Passes(age[f])
      BY <1>2, <2>3
    <3>2. ASSUME f \notin heard' \cup missed'
          PROVE  age[f] >= uptime
      <4>1. f \notin heard \cup missed \/ Due(f)
        BY <1>2, <2>3, <3>2
      <4> QED
        BY <1>3, <2>1, <4>1 DEF Due
    <3> QED
      BY <1>2, <1>3, <1>4, <1>5, <2>1, <3>1, <3>2
  <2> QED
    BY <2>2, <2>3
<1> QED
  BY <1>1, <1>2, <1>3, <1>4, <1>7 DEF AgesMatch

LEMMA AgesMatchNext == AgesMatch /\ [Next]_vars => AgesMatch'
<1> SUFFICES ASSUME AgesMatch, [Next]_vars PROVE AgesMatch'
  OBVIOUS
<1>1. CASE UNCHANGED <<engine, uptime, age, heard, missed>>
  <2>1. Findable' = Findable
    BY <1>1 DEF Findable
  <2> QED
    BY <1>1, <2>1 DEF AgesMatch
<1>2. CASE DetectionTick \/ DetectionTickAborts \/ RootkitTick
  <2>1. PICK made, emitted : emitted \subseteq made /\ Emits(made, emitted)
    BY <1>2 DEF DetectionTick, DetectionTickAborts, RootkitTick
  <2> QED
    BY <2>1, EmitsMatch
<1> QED
  BY <1>1, <1>2 DEF Next, LevelsNext, FactsChange, LevelTick, vars, levelVars

(* Whatever finding the engine is silent about was emitted within the        *)
(* cooldown or lost with an aborted tick (DetectionEngine._last_fire,        *)
(* RootkitLoop).                                                             *)
THEOREM SilenceHasAReason == Spec => []SilenceIsExplained
<1>1. AgesMatch => SilenceIsExplained
  BY DEF AgesMatch, SilenceIsExplained, Due
<1>2. Safe => []SilenceIsExplained
  BY <1>1, AgesMatchInit, AgesMatchNext, PTL DEF Safe
<1> QED
  BY <1>2, SpecIsSafe, PTL
-----------------------------------------------------------------------------
(* Logs: the last lines of a log that grows are lines that were among the    *)
(* last before, or new ones.                                                 *)
LogsTyped ==
    /\ Len(log) \in Nat /\ Lines = 1 .. Len(log) /\ expired \in Nat
    /\ Len(log) <= MaxLine
    /\ \A l \in Positions : times[l] \in 0 .. 2
    /\ DOMAIN times = Positions
    /\ old \subseteq Lines
    /\ dropped \in BOOLEAN /\ lapse \in BOOLEAN /\ primed \in BOOLEAN
    /\ \A l \in Positions : times[l] >= 1 => l \in Lines
    /\ ~primed => known = {} /\ old = {} /\ \A l \in Positions : times[l] = 0
    /\ loop \in {"auth", "auth_windows", "audit", "audit_tail", "eventlog", "sysmon", "off"}

LEMMA LastOnes ==
    ASSUME NEW n \in Nat, NEW S, IsFiniteSet(S), S \subseteq Nat, NEW T, IsFiniteSet(T),
           S \subseteq T
    PROVE  LastOf(n, T) \cap S \subseteq LastOf(n, S)
<1> SUFFICES ASSUME NEW p \in S, p \in LastOf(n, T) PROVE p \in LastOf(n, S)
  OBVIOUS
<1> DEFINE A == {q \in S : q > p}
           B == {q \in T : q > p}
<1>1. A \subseteq B /\ B \subseteq T
  OBVIOUS
<1>2. IsFiniteSet(B)
  BY <1>1, FS_Subset
<1>3. /\ Cardinality(A) \in Nat /\ Cardinality(B) \in Nat
      /\ Cardinality(A) <= Cardinality(B)
  BY <1>1, <1>2, FS_Subset, FS_CardinalityType
<1>4. Cardinality(B) < n
  BY DEF LastOf
<1>5. Cardinality(A) < n
  BY <1>3, <1>4
<1> QED
  BY <1>5 DEF LastOf

LEMMA LogsTypedInit == Init => LogsTyped
<1> SUFFICES ASSUME Init PROVE LogsTyped
  OBVIOUS
<1>1. log = <<>> /\ Len(<<>>) = 0 /\ DOMAIN <<>> = 1 .. 0
  BY DEF Init, LogsInit
<1>2. \A l \in Positions : times[l] = 0
  BY DEF Init, LogsInit
<1>3. loop \in {"auth", "auth_windows", "audit", "audit_tail", "eventlog", "sysmon", "off"}
  BY LogsAssumption DEF Init, LogsInit
<1>4. DOMAIN times = Positions /\ old = {} /\ dropped = FALSE /\ lapse = FALSE
      /\ primed = FALSE /\ known = {} /\ expired = 0
  BY DEF Init, LogsInit
<1>5. Lines = 1 .. Len(log) /\ Len(log) \in Nat
  BY <1>1 DEF Lines
<1>6. \A l \in Positions : times[l] \in 0 .. 2 /\ ~(times[l] >= 1)
  BY <1>2
<1>7. dropped \in BOOLEAN /\ lapse \in BOOLEAN /\ primed \in BOOLEAN /\ expired \in Nat
  BY <1>4
<1>8. Len(log) <= MaxLine
  BY <1>1, LogsAssumption
<1> QED
  BY <1>2, <1>3, <1>4, <1>5, <1>6, <1>7, <1>8 DEF LogsTyped

(* What a loop makes of one reading: it reports what it did not know, if it  *)
(* has a baseline, and knows it from then on.                                *)
LogReads(entries) ==
    /\ \E fresh, after :
          /\ fresh \subseteq entries \ known
          /\ ~primed => fresh = {}
          /\ Reported(fresh, after)
          /\ IF loop \in {"auth", "auth_windows"} THEN after = entries
             ELSE ~dropped' => known \cup fresh \subseteq after
          /\ ~primed /\ ~dropped' => entries \subseteq after
    /\ dropped' = dropped \/ dropped' = TRUE
    /\ loop \in {"auth", "auth_windows"} => dropped' = dropped

AuthRead == auth_audit(IF loop = "auth" THEN "Linux" ELSE "Windows", Most, Lines, Telling)
AuditRead == linux_auditd(Most, Lines, (expired + 1)..Len(log), loop = "audit")

(* The lines a loop that has nothing wrong reads now.                        *)
LogReading ==
    CASE loop \in {"auth", "auth_windows"} -> AuthRead
      [] loop \in {"audit", "audit_tail"} -> AuditRead
      [] loop = "eventlog" -> EventLogEntries(Channels)
      [] loop = "sysmon" -> LastOf(Most, Lines)

LEMMA TrimmedKeeps ==
    ASSUME LogsTyped, NEW after, NEW kept \in Trimmed(after), NotesTrim(after)
    PROVE  (~dropped' => kept = after) /\ (dropped' = dropped \/ dropped' = TRUE)
BY DEF Trimmed, NotesTrim, LogsTyped

LEMMA EventLogReads ==
    ASSUME LogsTyped, loop = "eventlog", NEW entries, EventLogTick(entries)
    PROVE  LogReads(entries)
<1> DEFINE fresh == entries \ known
           news == fresh \cap Telling
           full == {l \in news : primed /\ Cardinality(ReadUpTo(l, news)) = Most}
<1>1. CASE /\ \E l \in full : Reported(ReadUpTo(l, news), known \cup ReadUpTo(l, fresh))
           /\ UNCHANGED dropped
  <2>1. PICK l \in full : Reported(ReadUpTo(l, news), known \cup ReadUpTo(l, fresh))
    BY <1>1
  <2>2. primed /\ ReadUpTo(l, news) \subseteq ReadUpTo(l, fresh)
        /\ ReadUpTo(l, news) \subseteq entries \ known
    BY DEF ReadUpTo
  <2> QED
    BY <1>1, <2>1, <2>2 DEF LogReads
<1>2. CASE /\ \E kept \in Trimmed(known \cup fresh) :
                Reported(IF primed THEN news ELSE {}, kept)
           /\ NotesTrim(known \cup fresh)
  <2>1. PICK kept \in Trimmed(known \cup fresh) : Reported(IF primed THEN news ELSE {}, kept)
    BY <1>2
  <2>2. (~dropped' => kept = known \cup fresh) /\ (dropped' = dropped \/ dropped' = TRUE)
    BY <1>2, TrimmedKeeps
  <2> DEFINE new == IF primed THEN news ELSE {}
  <2>3. /\ new \subseteq entries \ known /\ (~primed => new = {})
        /\ (~dropped' => known \cup new \subseteq kept /\ entries \subseteq kept)
    BY <2>2
  <2> HIDE DEF new
  <2>4. Reported(new, kept)
    BY <2>1 DEF new
  <2> QED
    BY <2>2, <2>3, <2>4 DEF LogReads
<1> QED
  BY <1>1, <1>2 DEF EventLogTick

LEMMA AuditdReads ==
    ASSUME LogsTyped, loop \in {"audit", "audit_tail"}, NEW entries, AuditdTick(entries)
    PROVE  LogReads(entries)
<1> DEFINE fresh == entries \ known
           new == IF primed THEN fresh ELSE {}
<1>1. PICK kept \in Trimmed(known \cup fresh) : Reported(new, kept)
  BY DEF AuditdTick
<1>2. (~dropped' => kept = known \cup fresh) /\ (dropped' = dropped \/ dropped' = TRUE)
  BY TrimmedKeeps DEF AuditdTick
<1>3. /\ new \subseteq entries \ known /\ (~primed => new = {})
      /\ (~dropped' => known \cup new \subseteq kept /\ entries \subseteq kept)
  BY <1>2
<1> HIDE DEF new
<1> QED
  BY <1>1, <1>2, <1>3 DEF LogReads

LEMMA AuthReads ==
    ASSUME LogsTyped, loop \in {"auth", "auth_windows"}, NEW entries, AuthAuditTick(entries)
    PROVE  LogReads(entries)
<1> DEFINE new == IF primed THEN entries \ known ELSE {}
<1>1. Reported(new, entries) /\ dropped' = dropped
  BY DEF AuthAuditTick
<1>2. new \subseteq entries \ known /\ (~primed => new = {})
  OBVIOUS
<1> HIDE DEF new
<1> QED
  BY <1>1, <1>2 DEF LogReads

LEMMA SysmonReads ==
    ASSUME LogsTyped, loop = "sysmon", NEW snap, SysmonTick(snap)
    PROVE  snap.installed /\ LogReads(snap.entries)
<1> DEFINE fresh == snap.entries \ known
           new == IF primed THEN fresh ELSE {}
<1>1. Reported(new, known \cup fresh) /\ dropped' = dropped /\ snap.installed
  BY DEF SysmonTick
<1>2. /\ new \subseteq snap.entries \ known /\ (~primed => new = {})
      /\ known \cup new \subseteq known \cup fresh /\ snap.entries \subseteq known \cup fresh
  OBVIOUS
<1> HIDE DEF new
<1> QED
  BY <1>1, <1>2 DEF LogReads

LEMMA ReadingIsOfLines == LogsTyped /\ loop # "off" => LogReading \subseteq Lines
<1> SUFFICES ASSUME LogsTyped, loop # "off" PROVE LogReading \subseteq Lines
  OBVIOUS
<1>1. \A n, S : FirstOf(n, S) \subseteq S /\ LastOf(n, S) \subseteq S
  BY DEF FirstOf, LastOf
<1>2. AuthRead \subseteq Lines
  BY <1>1 DEF AuthRead, auth_audit, parse_auth_lines, auth_lines_linux, windows_event_log
<1>3. AuditRead \subseteq Lines
  <2>1. (expired + 1) .. Len(log) \subseteq Lines
    BY DEF LogsTyped
  <2> QED
    BY <1>1, <2>1 DEF AuditRead, linux_auditd
<1>4. EventLogEntries(Channels) \subseteq Lines
  <2>1. \A c \in Channels : windows_event_log(Most, Of(c)) \subseteq Lines
    BY <1>1 DEF windows_event_log, Of
  <2> QED
    BY <2>1 DEF EventLogEntries
<1>5. LastOf(Most, Lines) \subseteq Lines
  BY <1>1
<1>6. LogReading \in {AuthRead, AuditRead, EventLogEntries(Channels), LastOf(Most, Lines)}
  BY DEF LogReading, LogsTyped
<1> QED
  BY <1>2, <1>3, <1>4, <1>5, <1>6

LEMMA PollReads ==
    ASSUME LogsTyped, LogIsPolled \/ LogIsPolledBlind
    PROVE  /\ \E entries : /\ entries \subseteq LogReading /\ LogReads(entries)
                           /\ entries = LogReading \/ lapse'
           /\ loop # "off" /\ lapse' \in {lapse, TRUE}
<1>1. ASSUME NEW readable \in SUBSET Channels, LogTick(readable)
      PROVE  /\ \E entries : /\ entries \subseteq LogReading /\ LogReads(entries)
                             /\ readable = Channels => entries = LogReading
             /\ loop # "off"
  <2>1. ASSUME loop \in {"auth", "auth_windows"},
               AuthAuditTick(IF readable = {} THEN {} ELSE AuthRead)
        PROVE  \E entries : /\ entries \subseteq LogReading /\ LogReads(entries)
                            /\ readable = Channels => entries = LogReading
    <3> DEFINE entries == IF readable = {} THEN {} ELSE AuthRead
    <3>1. LogReads(entries)
      BY <2>1, AuthReads
    <3>2. entries \subseteq LogReading /\ (readable = Channels => entries = LogReading)
      BY <2>1, LogsAssumption DEF LogReading
    <3> QED
      BY <3>1, <3>2
  <2>2. ASSUME loop \in {"audit", "audit_tail"},
               AuditdTick(IF readable = {} THEN {} ELSE AuditRead)
        PROVE  \E entries : /\ entries \subseteq LogReading /\ LogReads(entries)
                            /\ readable = Channels => entries = LogReading
    <3> DEFINE entries == IF readable = {} THEN {} ELSE AuditRead
    <3>1. LogReads(entries)
      BY <2>2, AuditdReads
    <3>2. entries \subseteq LogReading /\ (readable = Channels => entries = LogReading)
      BY <2>2, LogsAssumption DEF LogReading
    <3> QED
      BY <3>1, <3>2
  <2>3. ASSUME loop = "eventlog", EventLogTick(EventLogEntries(readable))
        PROVE  \E entries : /\ entries \subseteq LogReading /\ LogReads(entries)
                            /\ readable = Channels => entries = LogReading
    <3>1. LogReads(EventLogEntries(readable))
      BY <2>3, EventLogReads
    <3>2. EventLogEntries(readable) \subseteq EventLogEntries(Channels)
      BY DEF EventLogEntries
    <3>3. LogReading = EventLogEntries(Channels)
      BY <2>3 DEF LogReading
    <3> QED
      BY <3>1, <3>2, <3>3
  <2>4. ASSUME loop = "sysmon",
               SysmonTick(IF readable = {} THEN [installed |-> installed, entries |-> {}]
                          ELSE windows_sysmon(Most, Lines, installed))
        PROVE  \E entries : /\ entries \subseteq LogReading /\ LogReads(entries)
                            /\ readable = Channels => entries = LogReading
    <3> DEFINE snap == IF readable = {} THEN [installed |-> installed, entries |-> {}]
                       ELSE windows_sysmon(Most, Lines, installed)
    <3>1. snap.installed /\ LogReads(snap.entries)
      BY <2>4, SysmonReads
    <3>2. snap.entries = IF readable = {} THEN {} ELSE LastOf(Most, Lines)
      BY <3>1 DEF windows_sysmon, windows_event_log
    <3>3. LogReading = LastOf(Most, Lines)
      BY <2>4 DEF LogReading
    <3> HIDE DEF snap
    <3>4. snap.entries \subseteq LogReading /\ (readable = Channels => snap.entries = LogReading)
      BY <3>2, <3>3, LogsAssumption
    <3> QED
      BY <3>1, <3>4
  <2>5. loop # "off"
    BY <1>1 DEF LogTick
  <2> QED
    BY <1>1, <2>1, <2>2, <2>3, <2>4, <2>5 DEF LogTick, AuthRead, AuditRead
<1>2. CASE LogIsPolled
  BY <1>1, <1>2 DEF LogIsPolled
<1>3. CASE LogIsPolledBlind
  <2>1. PICK readable \in SUBSET Channels : LogTick(readable)
    BY <1>3 DEF LogIsPolledBlind
  <2>2. lapse' = TRUE
    BY <1>3 DEF LogIsPolledBlind
  <2> QED
    BY <1>1, <2>1, <2>2
<1> QED
  BY <1>2, <1>3

(* Steps that read nothing.                                                  *)
LEMMA LinesAreAdded ==
    ASSUME LogsTyped, LineIsWritten
    PROVE  /\ Len(log') = Len(log) + 1 /\ Lines' = 1 .. Len(log') /\ Lines \subseteq Lines'
           /\ Len(log') <= MaxLine
           /\ \A l \in Lines : log'[l] = log[l]
           /\ UNCHANGED <<loop, expired, known, primed, old, times, dropped, lapse>>
<1>1. Len(log) \in Nat /\ Lines = 1 .. Len(log) /\ Len(log) < MaxLine /\ MaxLine \in Nat
  BY LogsAssumption DEF LogsTyped, LineIsWritten
<1>2. /\ Len(log') = Len(log) + 1 /\ Lines' = 1 .. Len(log') /\ Lines \subseteq Lines'
      /\ \A l \in Lines : log'[l] = log[l]
  BY DEF LogsTyped, LineIsWritten, Lines
<1>3. UNCHANGED <<loop, expired, known, primed, old, times, dropped, lapse>>
  BY DEF LineIsWritten
<1> QED
  BY <1>1, <1>2, <1>3

LEMMA LogsTypedNext == LogsTyped /\ [Next]_vars => LogsTyped'
<1> SUFFICES ASSUME LogsTyped, [Next]_vars PROVE LogsTyped'
  OBVIOUS
<1>1. CASE LogIsPolled \/ LogIsPolledBlind
  <2>1. PICK entries : entries \subseteq LogReading /\ LogReads(entries)
    BY <1>1, PollReads
  <2>2. PICK fresh, after : /\ fresh \subseteq entries \ known /\ (~primed => fresh = {})
                            /\ Reported(fresh, after)
    BY <2>1 DEF LogReads
  <2>3. fresh \subseteq Lines
    BY <1>1, <2>1, <2>2, PollReads, ReadingIsOfLines
  <2>4. /\ DOMAIN times' = Positions
        /\ \A l \in Positions : times'[l] \in 0 .. 2
        /\ \A l \in Positions : times'[l] >= 1 => l \in Lines
    BY <2>2, <2>3 DEF LogsTyped, Reported
  <2>5. /\ primed' = TRUE /\ old' \subseteq Lines /\ UNCHANGED <<loop, log, expired>>
    BY <2>2 DEF LogsTyped, Reported
  <2>6. dropped' \in BOOLEAN /\ lapse' \in BOOLEAN
    BY <1>1, <2>1, PollReads DEF LogReads, LogsTyped
  <2> QED
    BY <2>4, <2>5, <2>6 DEF LogsTyped, Lines
<1>2. CASE LineIsWritten
  <2>1. /\ Len(log') \in Nat /\ Lines' = 1 .. Len(log') /\ Lines \subseteq Lines'
        /\ Len(log') <= MaxLine
        /\ UNCHANGED <<loop, expired, known, primed, old, times, dropped, lapse>>
    BY <1>2, LinesAreAdded DEF LogsTyped
  <2> QED
    BY <2>1 DEF LogsTyped
<1>3. CASE LineExpires \/ SysmonIsInstalled \/ UNCHANGED logVars
  <2>1. UNCHANGED <<loop, log, known, primed, old, times, dropped, lapse>>
    BY <1>3 DEF LineExpires, SysmonIsInstalled, logVars
  <2>2. expired' \in Nat
    BY <1>3 DEF LineExpires, SysmonIsInstalled, logVars, LogsTyped
  <2> QED
    BY <2>1, <2>2 DEF LogsTyped, Lines
<1> QED
  BY <1>1, <1>2, <1>3 DEF Next, LogsNext, vars

-----------------------------------------------------------------------------
(* What a loop reported it knows; AuthAuditLoop, which forgets what its last *)
(* reading did not have, only while the line can be read again.  In the tail *)
(* it reads, lines before a line become fewer: once read, a line is read for *)
(* as long as it is in the tail.                                             *)
Auths == {"auth", "auth_windows"}
AuthTail == LastOf(IF loop = "auth" THEN 4 * Most ELSE Most, Lines)

Knows(l) ==
    IF loop \in Auths THEN lapse \/ l \notin AuthTail \/ (l \in known /\ l \in AuthRead)
    ELSE dropped \/ l \in known

OnceSoFar ==
    \A l \in Positions :
        /\ times[l] >= 1 => Knows(l)
        /\ times[l] > 1 => dropped \/ (loop \in Auths /\ lapse)

LEMMA OnceInit == Init => OnceSoFar
BY DEF Init, LogsInit, OnceSoFar

LEMMA AuthReadIsOfTail == loop \in Auths => AuthRead \subseteq AuthTail
BY DEF Auths, AuthRead, AuthTail, auth_audit, parse_auth_lines, auth_lines_linux,
       windows_event_log, FirstOf

LEMMA LinesAreFinite == \A n \in Nat : IsFiniteSet(1 .. n) /\ 1 .. n \subseteq Nat
<1> TAKE n \in Nat
<1>1. 1 \in Int /\ n \in Int
  OBVIOUS
<1> QED
  BY <1>1, FS_Interval

LEMMA LinesAreMore ==
    ASSUME LogsTyped, LineIsWritten
    PROVE  /\ IsFiniteSet(Lines) /\ Lines \subseteq Nat
           /\ IsFiniteSet(Lines') /\ Lines \subseteq Lines'
<1>1. /\ Len(log) \in Nat /\ Lines = 1 .. Len(log)
      /\ Len(log') = Len(log) + 1 /\ Lines' = 1 .. Len(log')
      /\ Lines \subseteq Lines'
  BY LinesAreAdded DEF LogsTyped
<1>2. Len(log') \in Nat
  BY <1>1
<1>3. IsFiniteSet(1 .. Len(log)) /\ 1 .. Len(log) \subseteq Nat /\ IsFiniteSet(1 .. Len(log'))
  BY <1>1, <1>2, LinesAreFinite
<1> QED
  BY <1>1, <1>3

LEMMA TailOfMore ==
    ASSUME LogsTyped, LineIsWritten, NEW n \in Nat
    PROVE  LastOf(n, Lines') \cap Lines \subseteq LastOf(n, Lines)
BY LinesAreMore, LastOnes

LEMMA StaysRead ==
    ASSUME LogsTyped, LineIsWritten, loop \in Auths,
           NEW l \in Lines, l \in AuthRead, l \in AuthTail'
    PROVE  l \in AuthRead'
<1>1. /\ IsFiniteSet(Lines') /\ Lines \subseteq Lines' /\ loop' = loop
      /\ Lines = 1 .. Len(log) /\ Lines' = 1 .. Len(log) + 1 /\ Len(log) \in Nat
      /\ \A m \in Lines : log'[m] = log[m]
  BY LinesAreMore, LinesAreAdded DEF LogsTyped
<1>2. Telling' \cap Lines = Telling
  BY <1>1 DEF Telling
<1>3. CASE loop = "auth_windows"
  BY <1>1, <1>2, <1>3 DEF AuthRead, AuthTail, auth_audit, windows_event_log
<1>4. CASE loop = "auth"
  <2> DEFINE tail == LastOf(4 * Most, Lines)
             next == LastOf(4 * Most, Lines')
             A == tail \cap Telling
             B == next \cap Telling'
  <2>1. AuthRead = FirstOf(Most, A) /\ AuthRead' = FirstOf(Most, B) /\ l \in next
    BY <1>1, <1>4 DEF AuthRead, AuthTail, auth_audit, parse_auth_lines, auth_lines_linux
  <2>2. next \cap Lines \subseteq tail
    BY LogsAssumption, TailOfMore
  <2>3. A \subseteq Lines /\ B \subseteq Lines'
    BY DEF LastOf
  <2>4. B \cap Lines \subseteq A /\ l \in A /\ l \in B
    BY <1>2, <2>1, <2>2, <2>3 DEF FirstOf
  <2>5. {q \in B : q < l} \subseteq {q \in A : q < l}
    BY <1>1, <2>3, <2>4
  <2>6. IsFiniteSet({q \in A : q < l})
    <3>1. IsFiniteSet(Lines)
      BY LinesAreMore
    <3> QED
      BY <2>3, <3>1, FS_Subset
  <2>7. /\ Cardinality({q \in B : q < l}) \in Nat /\ Cardinality({q \in A : q < l}) \in Nat
        /\ Cardinality({q \in B : q < l}) <= Cardinality({q \in A : q < l})
    BY <2>5, <2>6, FS_Subset, FS_CardinalityType
  <2>8. Cardinality({q \in A : q < l}) < Most
    BY <2>1 DEF FirstOf
  <2>9. Cardinality({q \in B : q < l}) < Most
    BY <2>7, <2>8, LogsAssumption
  <2> HIDE DEF A, B
  <2>10. l \in FirstOf(Most, B)
    BY <2>4, <2>9 DEF FirstOf
  <2> QED
    BY <2>1, <2>10
<1> QED
  BY <1>3, <1>4 DEF Auths

LEMMA OnceWhenRead ==
    ASSUME LogsTyped, OnceSoFar, NEW entries \in SUBSET LogReading, LogReads(entries),
           lapse' \in {lapse, TRUE}, entries = LogReading \/ lapse', loop # "off"
    PROVE  OnceSoFar'
<1>1. PICK fresh, after :
          /\ fresh \subseteq entries \ known
          /\ ~primed => fresh = {}
          /\ Reported(fresh, after)
          /\ IF loop \in Auths THEN after = entries
             ELSE ~dropped' => known \cup fresh \subseteq after
  BY DEF LogReads, Auths
<1>2. /\ UNCHANGED <<loop, log>> /\ known' = after
      /\ \A l \in Positions : times'[l] = IF l \in fresh /\ times[l] < 2 THEN times[l] + 1
                                                                        ELSE times[l]
  BY <1>1 DEF Reported
<1>3. \A l \in Positions : times[l] \in {0, 1, 2}
  BY DEF LogsTyped
<1>4. dropped => dropped'
  BY DEF LogReads, LogsTyped
<1>5. lapse => lapse'
  BY DEF LogsTyped
<1>6. CASE loop \in Auths
  <2>1. LogReading = AuthRead /\ AuthRead \subseteq AuthTail
    BY <1>6, AuthReadIsOfTail DEF LogReading, Auths
  <2>2. AuthRead' = AuthRead /\ AuthTail' = AuthTail
    BY <1>2 DEF AuthRead, AuthTail, Lines, Telling
  <2>3. ASSUME NEW l \in Positions
        PROVE  /\ times'[l] >= 1 => Knows(l)'
               /\ times'[l] > 1 => dropped' \/ (loop' \in Auths /\ lapse')
    <3>1. CASE lapse'
      BY <1>2, <1>6, <3>1 DEF Knows
    <3>2. CASE ~lapse'
      <4>1. entries = AuthRead /\ known' = AuthRead /\ ~lapse
        BY <1>1, <1>2, <1>5, <1>6, <2>1, <3>2
      <4>2. times[l] >= 1 => l \notin AuthTail \/ (l \in known /\ l \in AuthRead)
        BY <1>6, <4>1 DEF OnceSoFar, Knows
      <4>3. times[l] > 1 => dropped
        BY <4>1 DEF OnceSoFar
      <4>4. l \in fresh => l \in AuthRead /\ l \in AuthTail /\ l \notin known
        BY <1>1, <2>1, <4>1
      <4>5. l \in fresh => ~(times[l] >= 1)
        BY <4>2, <4>4
      <4>6. times'[l] >= 1 => l \notin AuthTail \/ l \in AuthRead
        BY <1>2, <1>3, <4>2, <4>4
      <4>7. times'[l] > 1 => dropped
        BY <1>2, <1>3, <4>3, <4>5
      <4> QED
        BY <1>2, <1>4, <1>6, <2>2, <4>1, <4>6, <4>7 DEF Knows
    <3> QED
      BY <3>1, <3>2
  <2> QED
    BY <2>3 DEF OnceSoFar
<1>7. CASE loop \notin Auths
  <2>1. ASSUME NEW l \in Positions
        PROVE  /\ times'[l] >= 1 => Knows(l)'
               /\ times'[l] > 1 => dropped' \/ (loop' \in Auths /\ lapse')
    <3>1. CASE dropped'
      BY <1>2, <1>7, <3>1 DEF Knows
    <3>2. CASE ~dropped'
      <4>1. ~dropped /\ known \cup fresh \subseteq known'
        BY <1>1, <1>2, <1>4, <1>7, <3>2
      <4>2. (times[l] >= 1 => l \in known) /\ ~(times[l] > 1)
        BY <1>7, <4>1 DEF OnceSoFar, Knows
      <4>3. l \in fresh => l \notin known
        BY <1>1
      <4>4. (times'[l] >= 1 => l \in known') /\ ~(times'[l] > 1)
        BY <1>2, <1>3, <4>1, <4>2, <4>3
      <4> QED
        BY <1>2, <1>7, <4>4 DEF Knows
    <3> QED
      BY <3>1, <3>2
  <2> QED
    BY <2>1 DEF OnceSoFar
<1> QED
  BY <1>6, <1>7

LEMMA OnceNext == LogsTyped /\ OnceSoFar /\ [Next]_vars => OnceSoFar'
<1> SUFFICES ASSUME LogsTyped, OnceSoFar, [Next]_vars PROVE OnceSoFar'
  OBVIOUS
<1>1. CASE LogIsPolled \/ LogIsPolledBlind
  BY <1>1, PollReads, OnceWhenRead
<1>2. CASE LineIsWritten
  <2>1. /\ UNCHANGED <<loop, known, times, dropped, lapse>> /\ Lines \subseteq Lines'
    BY <1>2, LinesAreAdded
  <2>2. ASSUME NEW l \in Positions, times[l] >= 1 PROVE Knows(l)'
    <3>1. l \in Lines /\ Knows(l)
      BY <2>2 DEF LogsTyped, OnceSoFar
    <3>2. CASE loop \notin Auths
      BY <2>1, <3>1, <3>2 DEF Knows
    <3>3. CASE loop \in Auths /\ ~lapse /\ l \in AuthTail'
      <4>1. l \in AuthTail
        <5>1. CASE loop = "auth"
          <6>1. 4 * Most \in Nat
            BY LogsAssumption
          <6> QED
            BY <1>2, <2>1, <3>1, <3>3, <5>1, <6>1, TailOfMore DEF AuthTail
        <5>2. CASE loop # "auth"
          <6>1. Most \in Nat
            BY LogsAssumption
          <6> QED
            BY <1>2, <2>1, <3>1, <3>3, <5>2, <6>1, TailOfMore DEF AuthTail
        <5> QED
          BY <5>1, <5>2
      <4>2. l \in known /\ l \in AuthRead
        BY <3>1, <3>3, <4>1 DEF Knows
      <4>3. l \in AuthRead'
        BY <1>2, <3>1, <3>3, <4>2, StaysRead
      <4> QED
        BY <2>1, <4>2, <4>3 DEF Knows
    <3> QED
      BY <2>1, <3>2, <3>3 DEF Knows
  <2> QED
    BY <2>1, <2>2 DEF OnceSoFar
<1>3. CASE LineExpires \/ SysmonIsInstalled \/ UNCHANGED logVars
  <2>1. UNCHANGED <<loop, log, known, times, dropped, lapse>>
    BY <1>3 DEF LineExpires, SysmonIsInstalled, logVars
  <2>2. UNCHANGED <<AuthRead, AuthTail>>
    BY <2>1 DEF AuthRead, AuthTail, Lines, Telling
  <2> QED
    BY <2>1, <2>2 DEF OnceSoFar, Knows
<1> QED
  BY <1>1, <1>2, <1>3 DEF Next, LogsNext, vars

(* No log loop reports a line twice while it keeps what it knows, whatever   *)
(* its read returns of a log that grows (AuthAuditLoop, AuditdWatcher,       *)
(* EventLogWatcher, SysmonWatcher).                                          *)
THEOREM LinesReportedOnce == Spec => []ReportedOnce
<1>1. LogsTyped /\ OnceSoFar => ReportedOnce
  <2> SUFFICES ASSUME LogsTyped, OnceSoFar, NEW l \in Lines, times[l] > 1
               PROVE  dropped \/ (loop \in {"auth", "auth_windows"} /\ lapse)
    BY DEF ReportedOnce
  <2>1. l \in Positions
    BY LogsAssumption DEF LogsTyped, Positions
  <2> QED
    BY <2>1 DEF OnceSoFar, Auths
<1>2. Safe => []ReportedOnce
  BY <1>1, LogsTypedInit, LogsTypedNext, OnceInit, OnceNext, PTL DEF Safe
<1> QED
  BY <1>2, SpecIsSafe, PTL

-----------------------------------------------------------------------------
(* The loops that read the newest lines: what was in the log at the first    *)
(* reading and is read now was read then, for lines only leave the newest.   *)
Newests == {"auth_windows", "eventlog", "sysmon"}

OldIsKnown ==
    loop \in Newests /\ ~lapse /\ ~dropped =>
        /\ primed => old \cap LogReading \subseteq known
        /\ \A l \in old : times[l] = 0

LEMMA OldIsKnownInit == Init => OldIsKnown
BY DEF Init, LogsInit, OldIsKnown

LEMMA NewestOfMore ==
    ASSUME LogsTyped, LineIsWritten, loop \in Newests
    PROVE  LogReading' \cap Lines \subseteq LogReading
<1>1. /\ Lines \subseteq Lines' /\ loop' = loop
      /\ IsFiniteSet(Lines) /\ Lines \subseteq Nat /\ IsFiniteSet(Lines')
      /\ \A m \in Lines : log'[m] = log[m]
  BY LinesAreMore, LinesAreAdded
<1>2. Most \in Nat
  BY LogsAssumption
<1>3. LastOf(Most, Lines') \cap Lines \subseteq LastOf(Most, Lines)
  BY <1>2, TailOfMore
<1>4. Telling' \cap Lines = Telling
  BY <1>1 DEF Telling
<1>5. CASE loop = "auth_windows"
  <2>1. /\ LogReading = LastOf(Most, Lines) \cap Telling
        /\ LogReading' = LastOf(Most, Lines') \cap Telling'
    BY <1>1, <1>5 DEF LogReading, AuthRead, auth_audit, windows_event_log
  <2> QED
    BY <1>3, <1>4, <2>1
<1>6. CASE loop = "sysmon"
  <2>1. LogReading = LastOf(Most, Lines) /\ LogReading' = LastOf(Most, Lines')
    BY <1>1, <1>6 DEF LogReading
  <2> QED
    BY <1>3, <2>1
<1>7. CASE loop = "eventlog"
  <2>1. /\ LogReading = UNION {LastOf(Most, {l \in Lines : log[l].channel = c}) : c \in Channels}
        /\ LogReading' = UNION {LastOf(Most, {l \in Lines' : log'[l].channel = c}) :
                                    c \in Channels}
    BY <1>1, <1>7 DEF LogReading, EventLogEntries, windows_event_log, Of
  <2>2. ASSUME NEW c \in Channels
        PROVE  LastOf(Most, {l \in Lines' : log'[l].channel = c}) \cap Lines
                 \subseteq LastOf(Most, {l \in Lines : log[l].channel = c})
    <3> DEFINE S == {l \in Lines : log[l].channel = c}
               T == {l \in Lines' : log'[l].channel = c}
    <3>1. S \subseteq Lines /\ T \subseteq Lines' /\ S \subseteq T /\ T \cap Lines \subseteq S
      BY <1>1
    <3>2. IsFiniteSet(S) /\ IsFiniteSet(T) /\ S \subseteq Nat
      BY <1>1, <3>1, FS_Subset
    <3>3. LastOf(Most, T) \subseteq T
      BY DEF LastOf
    <3> HIDE DEF S, T
    <3>4. LastOf(Most, T) \cap S \subseteq LastOf(Most, S)
      BY <1>2, <3>1, <3>2, LastOnes
    <3>5. LastOf(Most, T) \cap Lines \subseteq LastOf(Most, S)
      BY <3>1, <3>3, <3>4
    <3> QED
      BY <3>5 DEF S, T
  <2>3. ASSUME NEW q \in LogReading' \cap Lines PROVE q \in LogReading
    <3>1. PICK c \in Channels : q \in LastOf(Most, {l \in Lines' : log'[l].channel = c})
      BY <2>1, <2>3
    <3>2. q \in LastOf(Most, {l \in Lines : log[l].channel = c})
      BY <2>2, <3>1
    <3> QED
      BY <2>1, <3>2
  <2> QED
    BY <2>3
<1> QED
  BY <1>5, <1>6, <1>7 DEF Newests

LEMMA OldIsKnownNext == LogsTyped /\ OldIsKnown /\ [Next]_vars => OldIsKnown'
<1> SUFFICES ASSUME LogsTyped, OldIsKnown, [Next]_vars,
                    loop' \in Newests, ~lapse', ~dropped'
             PROVE  /\ primed' => old' \cap LogReading' \subseteq known'
                    /\ \A l \in old' : times'[l] = 0
  BY DEF OldIsKnown
<1>1. CASE LogIsPolled \/ LogIsPolledBlind
  <2>1. PICK entries : /\ entries \subseteq LogReading /\ LogReads(entries)
                       /\ entries = LogReading \/ lapse'
    BY <1>1, PollReads
  <2>2. lapse' \in {lapse, TRUE}
    BY <1>1, PollReads
  <2>3. ~lapse
    BY <2>2
  <2>4. ~dropped /\ entries = LogReading
    BY <2>1 DEF LogReads, LogsTyped
  <2>5. PICK fresh, after :
          /\ fresh \subseteq entries \ known
          /\ ~primed => fresh = {}
          /\ Reported(fresh, after)
          /\ IF loop \in {"auth", "auth_windows"} THEN after = entries
             ELSE ~dropped' => known \cup fresh \subseteq after
          /\ ~primed /\ ~dropped' => entries \subseteq after
    BY <2>1 DEF LogReads
  <2>6. /\ UNCHANGED <<loop, log, expired>> /\ known' = after
        /\ old' = (IF primed THEN old ELSE Lines)
        /\ \A l \in Positions : times'[l] = IF l \in fresh /\ times[l] < 2 THEN times[l] + 1
                                                                          ELSE times[l]
    BY <2>5 DEF Reported
  <2>7. UNCHANGED <<LogReading, Lines>> /\ loop \in Newests
    BY <2>6 DEF LogReading, AuthRead, AuditRead, EventLogEntries, Of, Lines, Telling
  <2>8. old \subseteq Lines /\ Lines \subseteq Positions
    BY LogsAssumption DEF LogsTyped, Positions
  <2>9. CASE primed
    <3>1. old' = old /\ old \cap LogReading \subseteq known /\ \A l \in old : times[l] = 0
      BY <2>3, <2>4, <2>6, <2>7, <2>9 DEF OldIsKnown
    <3>2. \A l \in old : l \notin fresh
      BY <2>4, <2>5, <3>1
    <3>3. old \cap LogReading \subseteq known'
      BY <2>4, <2>5, <2>6, <3>1
    <3>4. \A l \in old : times'[l] = 0
      BY <2>6, <2>8, <3>1, <3>2
    <3> QED
      BY <2>7, <3>1, <3>3, <3>4
  <2>10. CASE ~primed
    <3>1. old' = Lines /\ fresh = {} /\ LogReading \subseteq known'
      BY <2>4, <2>5, <2>6, <2>10
    <3>2. \A l \in Lines : times'[l] = 0
      BY <2>6, <2>8, <2>10, <3>1 DEF LogsTyped
    <3> QED
      BY <2>7, <3>1, <3>2
  <2> QED
    BY <2>9, <2>10
<1>2. CASE LineIsWritten
  <2>1. UNCHANGED <<loop, known, primed, old, times, dropped, lapse>>
    BY <1>2, LinesAreAdded
  <2>2. LogReading' \cap Lines \subseteq LogReading
    BY <1>2, <2>1, NewestOfMore
  <2>3. old \subseteq Lines
    BY DEF LogsTyped
  <2> QED
    BY <2>1, <2>2, <2>3 DEF OldIsKnown
<1>3. CASE LineExpires \/ SysmonIsInstalled \/ UNCHANGED logVars
  <2>1. UNCHANGED <<loop, log, known, primed, old, times, dropped, lapse>>
    BY <1>3 DEF LineExpires, SysmonIsInstalled, logVars
  <2>2. expired' = expired
    BY <1>3, <2>1 DEF LineExpires, SysmonIsInstalled, logVars, Newests
  <2>3. UNCHANGED LogReading
    BY <2>1, <2>2 DEF LogReading, AuthRead, AuditRead, EventLogEntries, Of, Lines, Telling
  <2> QED
    BY <2>1, <2>3 DEF OldIsKnown
<1> QED
  BY <1>1, <1>2, <1>3 DEF Next, LogsNext, vars

(* The loops that read the newest lines first never report as new a line     *)
(* that was there when they started, for logs of any length and any limit,   *)
(* as long as no read failed and nothing was dropped (auth_audit of Windows, *)
(* EventLogWatcher, SysmonWatcher).                                          *)
THEOREM NewestLinesAreNews == Spec => []NewestFirstIsNews
<1>1. OldIsKnown => NewestFirstIsNews
  BY DEF OldIsKnown, NewestFirstIsNews, Newests
<1>2. Safe => []NewestFirstIsNews
  BY <1>1, LogsTypedInit, LogsTypedNext, OldIsKnownInit, OldIsKnownNext, PTL DEF Safe
<1> QED
  BY <1>2, SpecIsSafe, PTL
-----------------------------------------------------------------------------
(* Watchers.  What fits in the room there is, is all of it.                  *)
LEMMA AllFit ==
    ASSUME NEW n \in Nat, NEW S, IsFiniteSet(S), S \subseteq Nat, Cardinality(S) <= n
    PROVE  FirstOf(n, S) = S
<1> SUFFICES ASSUME NEW p \in S PROVE p \in FirstOf(n, S)
  BY DEF FirstOf
<1> DEFINE A == {q \in S : q < p}
<1>1. A \subseteq S /\ p \notin A
  OBVIOUS
<1>2. A \subseteq S \ {p} /\ IsFiniteSet(S \ {p}) /\ Cardinality(S \ {p}) = Cardinality(S) - 1
  BY <1>1, FS_RemoveElement
<1>3. Cardinality(A) <= Cardinality(S \ {p})
  BY <1>2, FS_Subset
<1>4. Cardinality(A) \in Nat /\ Cardinality(S) \in Nat
  BY <1>1, FS_Subset, FS_CardinalityType
<1>5. Cardinality(A) < n
  BY <1>2, <1>3, <1>4
<1> QED
  BY <1>5 DEF FirstOf

LEMMA MinOfTwo ==
    ASSUME NEW m \in Nat, NEW n \in Nat, n <= m
    PROVE  Min({m, n}) = n
<1>1. \E x \in {m, n} : \A y \in {m, n} : x <= y
  OBVIOUS
<1>2. Min({m, n}) \in {m, n} /\ \A y \in {m, n} : Min({m, n}) <= y
  BY <1>1 DEF Min
<1> QED
  BY <1>2

LEMMA MaxOfTwo ==
    ASSUME NEW m \in Nat, NEW n \in Nat
    PROVE  Max({m, n}) \in Nat /\ m <= Max({m, n}) /\ n <= Max({m, n})
<1>1. \E x \in {m, n} : \A y \in {m, n} : x >= y
  OBVIOUS
<1>2. Max({m, n}) \in {m, n} /\ \A y \in {m, n} : Max({m, n}) >= y
  BY <1>1 DEF Max
<1> QED
  BY <1>2

LEMMA AnyIsAll ==
    ASSUME NEW room \in Nat, NEW S, IsFiniteSet(S), Cardinality(S) <= room,
           NEW some \in AnyOf(room, S)
    PROVE  some = S
<1>1. Cardinality(S) \in Nat
  BY FS_CardinalityType
<1>2. Min({room, Cardinality(S)}) = Cardinality(S)
  BY <1>1, MinOfTwo
<1>3. some \in SUBSET S /\ Cardinality(some) = Cardinality(S)
  BY <1>2 DEF AnyOf, kSubset
<1> QED
  BY <1>3, FS_Subset

LEMMA AnyIsSome == \A room, S : \A some \in AnyOf(room, S) : some \subseteq S
BY DEF AnyOf, kSubset

(* The room left for a second sort of change when both are few.              *)
LEMMA RoomIsEnough ==
    ASSUME NEW S, IsFiniteSet(S), NEW T, IsFiniteSet(T), S \cap T = {},
           Cardinality(S \cup T) <= Cap
    PROVE  /\ Cardinality(S) <= Cap /\ Cardinality(T) <= Cap
           /\ Room(Cardinality(S)) \in Nat
           /\ Cardinality(T) <= Room(Cardinality(S))
<1>1. Cardinality(S) \in Nat /\ Cardinality(T) \in Nat /\ Cap \in Nat
  BY FS_CardinalityType, WatchersAssumption
<1>2. Cardinality(S \cap T) = 0
  BY FS_EmptySet
<1>3. Cardinality(S \cup T) = Cardinality(S) + Cardinality(T)
  <2>1. Cardinality(S \cup T) = Cardinality(S) + Cardinality(T) - Cardinality(S \cap T)
    BY FS_Union
  <2> QED
    BY <1>1, <1>2, <2>1
<1> QED
  BY <1>1, <1>3 DEF Room

-----------------------------------------------------------------------------
(* Readings: what a watcher with a maximum reads is finite, and four of them *)
(* compare keys only.                                                        *)
KeysOnly == {"process", "netlink", "autorun", "dns"}
WatcherNames ==
    {"process", "service", "service_windows", "systemd", "netlink", "autorun",
     "persistence", "persistence_windows", "fim", "fim_default", "dns"}

Fits(w, reading) ==
    /\ w \in KeysOnly => \A k \in DOMAIN reading : reading[k] = 1
    /\ HasMaximum(w) => IsFiniteSet(DOMAIN reading)
    /\ w \in {"service", "service_windows"} => DOMAIN reading \subseteq Nat

WatchersTyped ==
    /\ watcher \in WatcherNames \cup {"off"}
    /\ host \in [Places -> 0 .. 3]
    /\ drift \in Nat
    /\ HasBaseline => Fits(watcher, seen)

LEMMA FirstIsSome == \A n, S : FirstOf(n, S) \subseteq S
BY DEF FirstOf

LEMMA LostIsNone == \A source, lost, S : Unless(source, lost, S) \subseteq S
BY DEF Unless

LEMMA ReadingFits ==
    ASSUME NEW w \in WatcherNames, NEW h \in [Places -> 0 .. 3], NEW d \in Nat, NEW lost
    PROVE  Fits(w, Reading(w, h, d, lost))
<1> DEFINE r == Reading(w, h, d, lost)
<1>1. Present(h) \subseteq Places /\ DOMAIN h = Places
  BY DEF Present
<1>2. IsFiniteSet(Places) /\ Places \subseteq Nat /\ \A S : S \subseteq Places => IsFiniteSet(S)
  BY FS_Subset, WatchersAssumption
<1>3. CASE w = "process"
  <2> DEFINE rows == linux_process_rows(h, d)
  <2>1. DOMAIN r = Unless("processes", lost, rows) /\ \A k \in DOMAIN r : r[k] = 1
    BY <1>3 DEF Reading, snapshot_processes
  <2>2. rows \subseteq Places \X (0 .. (d + 3))
    BY <1>1, FirstIsSome DEF linux_process_rows, linux_one_proc
  <2>3. 0 \in Int /\ d + 3 \in Int
    OBVIOUS
  <2>4. IsFiniteSet(Places \X (0 .. (d + 3)))
    BY <1>2, <2>3, FS_Interval, FS_Product
  <2>5. DOMAIN r \subseteq Places \X (0 .. (d + 3))
    BY <2>1, <2>2, LostIsNone
  <2> HIDE DEF r
  <2>6. IsFiniteSet(DOMAIN r)
    BY <2>4, <2>5, FS_Subset
  <2> QED
    BY <1>3, <2>1, <2>6 DEF Fits, r
<1>4. CASE w = "service"
  <2>1. DOMAIN r = Unless("units", lost, systemctl_rows(h, DOMAIN h))
    BY <1>4 DEF Reading, service_status_linux
  <2>2. DOMAIN r \subseteq Places
    BY <1>1, <2>1, FirstIsSome, LostIsNone DEF systemctl_rows
  <2> QED
    BY <1>2, <1>4, <2>2 DEF Fits, KeysOnly
<1>5. CASE w = "service_windows"
  <2>1. DOMAIN r = Unless("units", lost, Present(h))
    BY <1>5 DEF Reading, service_status_windows
  <2>2. DOMAIN r \subseteq Places
    BY <1>1, <2>1, LostIsNone
  <2> QED
    BY <1>2, <1>5, <2>2 DEF Fits, KeysOnly
<1>6. CASE w = "netlink"
  <2>1. /\ DOMAIN r = net_sys_stats(h, lost) \cup proc_tcp_sample(h, lost)
        /\ \A k \in DOMAIN r : r[k] = 1
    BY <1>6 DEF Reading
  <2>2. DOMAIN r \subseteq Places
    <3>1. net_sys_stats(h, lost) \subseteq Places
      BY <1>1, LostIsNone DEF net_sys_stats
    <3>2. proc_tcp_sample(h, lost) \subseteq Places
      BY <1>1, FirstIsSome, LostIsNone DEF proc_tcp_sample
    <3> QED
      BY <2>1, <3>1, <3>2
  <2> QED
    BY <1>2, <1>6, <2>1, <2>2 DEF Fits
<1>7. CASE w = "systemd"
  <2> DEFINE scan == linux_systemd_units(h, lost)
             keys == UNION {{section} \X DOMAIN scan[section] : section \in DOMAIN scan}
  <2>1. DOMAIN r = keys
    BY <1>7 DEF Reading, systemd_fingerprint
  <2>2. /\ DOMAIN scan = {"units", "timers", "enabled"}
        /\ DOMAIN scan["units"] \subseteq Places
        /\ DOMAIN scan["timers"] \subseteq Places
        /\ DOMAIN scan["enabled"] \subseteq Places
    <3>1. /\ Unless("units", lost, systemctl_rows(h, DOMAIN h \ Timers)) \subseteq Places
          /\ Unless("timers", lost, systemctl_rows(h, Timers)) \subseteq Places
          /\ Unless("enabled", lost, unit_file_rows(h, DOMAIN h \ Timers)) \subseteq Places
      BY <1>1, FirstIsSome, LostIsNone, WatchersAssumption DEF systemctl_rows, unit_file_rows
    <3> QED
      BY <3>1 DEF linux_systemd_units, enrich_enabled
  <2> HIDE DEF scan
  <2>3. \A section \in DOMAIN scan : DOMAIN scan[section] \subseteq Places
    BY <2>2
  <2>4. keys \subseteq {"units", "timers", "enabled"} \X Places
    BY <2>2, <2>3
  <2>5. IsFiniteSet({"units", "timers", "enabled"})
    <3>1. IsFiniteSet({"units"}) /\ IsFiniteSet({"timers"}) /\ IsFiniteSet({"enabled"})
      BY FS_Singleton
    <3>2. IsFiniteSet({"units"} \cup {"timers"})
      BY <3>1, FS_Union
    <3>3. IsFiniteSet(({"units"} \cup {"timers"}) \cup {"enabled"})
      BY <3>1, <3>2, FS_Union
    <3>4. ({"units"} \cup {"timers"}) \cup {"enabled"} = {"units", "timers", "enabled"}
      OBVIOUS
    <3> QED
      BY <3>3, <3>4
  <2>6. IsFiniteSet({"units", "timers", "enabled"} \X Places)
    BY <1>2, <2>5, FS_Product
  <2> HIDE DEF keys, r
  <2>7. IsFiniteSet(DOMAIN r)
    BY <2>1, <2>4, <2>6, FS_Subset
  <2> QED
    BY <1>7, <2>7 DEF Fits, KeysOnly, r
<1>8. CASE w = "autorun"
  BY <1>8 DEF Fits, HasMaximum, Reading, autoruns_fingerprint
<1>9. CASE w = "dns"
  BY <1>9 DEF Fits, HasMaximum, Reading, dns_monitor
<1>10. CASE w \in {"persistence", "persistence_windows", "fim", "fim_default"}
  BY <1>10 DEF Fits, HasMaximum, KeysOnly
<1> QED
  BY <1>3, <1>4, <1>5, <1>6, <1>7, <1>8, <1>9, <1>10 DEF WatcherNames

-----------------------------------------------------------------------------
(* What a tick reports: nothing but differences, and, when there are no more *)
(* of them than the maximum, all those the watcher reports at all.           *)
UnitsTold(was, new, keys) ==
    \E c \in AnyOf(Cap, Added(was, new)), e \in AnyOf(Cap, Removed(was, new)) :
        \E s \in AnyOf(Max({1, Room(Cardinality(c \cup e))}),
                      {k \in Changed(was, new) : new[k] # Absent}) :
            keys = c \cup e \cup s

LEMMA SystemdReports ==
    ASSUME NEW was, NEW new, NEW keys \in SystemdUnitWatcher(was, new)
    PROVE  UnitsTold(was, new, keys)
<1> DEFINE named == {k \in Changed(was, new) : new[k] # Absent}
           X == AnyOf(Cap, Added(was, new))
           Y == AnyOf(Cap, Removed(was, new))
           Z(c, e) == AnyOf(Max({1, Room(Cardinality(c \cup e))}), named)
           G(c, e) == {c \cup e \cup s : s \in Z(c, e)}
           F(c) == UNION {G(c, e) : e \in Y}
<1>1. keys \in UNION {F(c) : c \in X}
  BY DEF SystemdUnitWatcher
<1> HIDE DEF F, X, Y, Z
<1>2. PICK c \in X : keys \in F(c)
  BY <1>1
<1>3. keys \in UNION {G(c, e) : e \in Y}
  BY <1>2 DEF F
<1> HIDE DEF G
<1>4. PICK e \in Y : keys \in G(c, e)
  BY <1>3
<1>5. PICK s \in Z(c, e) : keys = c \cup e \cup s
  BY <1>4 DEF G
<1> QED
  BY <1>5 DEF X, Y, Z, UnitsTold

LEMMA ReportsAreDifferences ==
    ASSUME NEW w \in WatcherNames, NEW was, NEW new, NEW keys \in Reports(w, was, new)
    PROVE  keys \subseteq Differences(was, new)
<1>1. CASE w = "process"
  BY <1>1, AnyIsSome DEF Reports, ProcessWatcher, Differences
<1>2. CASE w \in {"service", "service_windows"}
  BY <1>2, FirstIsSome DEF Reports, ServiceWatcher, Differences
<1>3. CASE w = "systemd"
  <2> DEFINE named == {k \in Changed(was, new) : new[k] # Absent}
  <2>1. keys \in SystemdUnitWatcher(was, new)
    BY <1>3 DEF Reports
  <2>2. PICK c \in AnyOf(Cap, Added(was, new)), e \in AnyOf(Cap, Removed(was, new)) :
           \E s \in AnyOf(Max({1, Room(Cardinality(c \cup e))}), named) : keys = c \cup e \cup s
    <3>1. UnitsTold(was, new, keys)
      BY <2>1, SystemdReports
    <3> QED
      BY <3>1 DEF UnitsTold
  <2> QED
    BY <2>2, AnyIsSome DEF Differences
<1>4. CASE w = "netlink"
  BY <1>4, AnyIsSome DEF Reports, NetlinkWatcher, Differences
<1>5. CASE w = "autorun"
  BY <1>5 DEF Reports, AutorunWatcher, Differences
<1>6. CASE w \in {"persistence", "persistence_windows"}
  BY <1>6 DEF Reports, PersistenceWatcher, Differences
<1>7. CASE w \in {"fim", "fim_default"}
  BY <1>7 DEF Reports, FimWatcher, fim_diff, Differences
<1>8. CASE w = "dns"
  BY <1>8 DEF Reports, DnsWatcher, Differences
<1> QED
  BY <1>1, <1>2, <1>3, <1>4, <1>5, <1>6, <1>7, <1>8 DEF WatcherNames

LEMMA AllIsReported ==
    ASSUME NEW w \in WatcherNames, NEW was, NEW new, Fits(w, was), Fits(w, new),
           ~(HasMaximum(w) /\ Cardinality(Differences(was, new)) > Cap),
           NEW keys \in Reports(w, was, new)
    PROVE  Differences(was, new) \ Mute(w, was, new) \subseteq keys
<1> DEFINE A == Added(was, new)
           R == Removed(was, new)
           C == Changed(was, new)
           D == Differences(was, new)
<1>1. /\ D = A \cup R \cup C
      /\ A \cap R = {} /\ A \cap C = {} /\ R \cap C = {}
      /\ A \subseteq DOMAIN new /\ R \subseteq DOMAIN was /\ C \subseteq DOMAIN was
  BY DEF Differences, Added, Removed, Changed
<1>2. w \in KeysOnly => C = {}
  BY DEF Fits, Changed
<1>3. ASSUME HasMaximum(w)
      PROVE  /\ IsFiniteSet(A) /\ IsFiniteSet(R) /\ IsFiniteSet(C) /\ IsFiniteSet(D)
             /\ Cardinality(D) <= Cap
  <2>1. IsFiniteSet(DOMAIN was) /\ IsFiniteSet(DOMAIN new)
    BY <1>3 DEF Fits
  <2>2. IsFiniteSet(A) /\ IsFiniteSet(R) /\ IsFiniteSet(C)
    BY <1>1, <2>1, FS_Subset
  <2>3. IsFiniteSet(A \cup R)
    BY <2>2, FS_Union
  <2>4. IsFiniteSet(D)
    <3>1. IsFiniteSet((A \cup R) \cup C)
      BY <2>2, <2>3, FS_Union
    <3> QED
      BY <1>1, <3>1
  <2>5. Cardinality(D) \in Nat /\ Cap \in Nat /\ ~(Cardinality(D) > Cap)
    BY <1>3, <2>4, FS_CardinalityType, WatchersAssumption
  <2> QED
    BY <2>2, <2>4, <2>5
<1>4. CASE w = "process"
  <2>1. HasMaximum(w) /\ C = {} /\ D = A \cup R
    BY <1>1, <1>2, <1>4 DEF HasMaximum, KeysOnly
  <2>2. keys \in ProcessWatcher(was, new)
    BY <1>4 DEF Reports
  <2>3. PICK c \in AnyOf(Cap, A), e \in AnyOf(Room(Cardinality(A)), R) : keys = c \cup e
    BY <2>2 DEF ProcessWatcher
  <2> HIDE DEF A, R, C, D
  <2>4. /\ Cardinality(A) <= Cap /\ Cap \in Nat
        /\ Room(Cardinality(A)) \in Nat
        /\ Cardinality(R) <= Room(Cardinality(A))
    BY <1>1, <1>3, <2>1, RoomIsEnough, WatchersAssumption
  <2>5. c = A /\ e = R
    BY <1>3, <2>1, <2>3, <2>4, AnyIsAll
  <2>6. D = keys
    BY <2>1, <2>3, <2>5
  <2> QED
    BY <2>6 DEF D
<1>5. CASE w \in {"service", "service_windows"}
  <2>1. HasMaximum(w)
    BY <1>5 DEF HasMaximum
  <2> DEFINE added == FirstOf(Cap, A)
             removed == FirstOf(Room(Cardinality(added)), R)
             state == FirstOf(Room(Cardinality(added \cup removed)), C)
  <2>2. keys = added \cup removed \cup state
    BY <1>5 DEF Reports, ServiceWatcher
  <2>3. A \subseteq Nat /\ R \subseteq Nat /\ C \subseteq Nat
    BY <1>1, <1>5 DEF Fits
  <2> HIDE DEF A, R, C, D
  <2>4. IsFiniteSet(A \cup R) /\ A \cup R \subseteq D
    BY <1>1, <1>3, <2>1, FS_Union
  <2>5. Cardinality(A \cup R) <= Cap
    <3>1. Cardinality(A \cup R) <= Cardinality(D)
      BY <1>3, <2>1, <2>4, FS_Subset
    <3>2. Cardinality(A \cup R) \in Nat /\ Cardinality(D) \in Nat /\ Cap \in Nat
      BY <1>3, <2>1, <2>4, FS_CardinalityType, WatchersAssumption
    <3> QED
      BY <1>3, <2>1, <3>1, <3>2
  <2>6. /\ Cardinality(A) <= Cap /\ Cap \in Nat
        /\ Room(Cardinality(A)) \in Nat /\ Cardinality(R) <= Room(Cardinality(A))
    BY <1>1, <1>3, <2>1, <2>5, RoomIsEnough, WatchersAssumption
  <2>7. /\ Room(Cardinality(A \cup R)) \in Nat
        /\ Cardinality(C) <= Room(Cardinality(A \cup R))
    <3>1. (A \cup R) \cap C = {} /\ Cardinality((A \cup R) \cup C) <= Cap
      BY <1>1, <1>3, <2>1
    <3> QED
      BY <1>3, <2>1, <2>4, <3>1, RoomIsEnough
  <2>8. added = A
    BY <1>3, <2>1, <2>3, <2>6, AllFit
  <2>9. removed = R
    BY <1>3, <2>1, <2>3, <2>6, <2>8, AllFit
  <2>10. state = C
    BY <1>3, <2>1, <2>3, <2>7, <2>8, <2>9, AllFit
  <2>11. D = keys
    BY <1>1, <2>2, <2>8, <2>9, <2>10
  <2> QED
    BY <2>11 DEF D
<1>6. CASE w = "systemd"
  <2> DEFINE named == {k \in C : new[k] # Absent}
  <2>1. HasMaximum(w)
    BY <1>6 DEF HasMaximum
  <2>2. PICK c \in AnyOf(Cap, A), e \in AnyOf(Cap, R) :
           \E s \in AnyOf(Max({1, Room(Cardinality(c \cup e))}), named) : keys = c \cup e \cup s
    <3>1. keys \in SystemdUnitWatcher(was, new)
      BY <1>6 DEF Reports
    <3>2. UnitsTold(was, new, keys)
      BY <3>1, SystemdReports
    <3> QED
      BY <3>2 DEF UnitsTold
  <2>3. PICK s \in AnyOf(Max({1, Room(Cardinality(c \cup e))}), named) : keys = c \cup e \cup s
    BY <2>2
  <2>4. Mute(w, was, new) = {k \in C : new[k] = Absent}
    BY <1>6 DEF Mute
  <2>5. named \subseteq C /\ C \subseteq named \cup Mute(w, was, new)
    BY <2>4
  <2> HIDE DEF A, R, C, D, named
  <2>6. /\ IsFiniteSet(A \cup R) /\ IsFiniteSet(named) /\ IsFiniteSet((A \cup R) \cup named)
        /\ (A \cup R) \cup named \subseteq D
    BY <1>1, <1>3, <2>1, <2>5, FS_Union, FS_Subset
  <2>7. Cardinality((A \cup R) \cup named) <= Cap
    <3>1. Cardinality((A \cup R) \cup named) <= Cardinality(D)
      BY <1>3, <2>1, <2>6, FS_Subset
    <3>2. /\ Cardinality((A \cup R) \cup named) \in Nat /\ Cardinality(D) \in Nat
          /\ Cap \in Nat
      BY <1>3, <2>1, <2>6, FS_CardinalityType, WatchersAssumption
    <3> QED
      BY <1>3, <2>1, <3>1, <3>2
  <2>8. /\ Cardinality(A \cup R) <= Cap
        /\ Room(Cardinality(A \cup R)) \in Nat
        /\ Cardinality(named) <= Room(Cardinality(A \cup R))
    <3>1. (A \cup R) \cap named = {}
      BY <1>1, <2>5
    <3> QED
      BY <2>6, <2>7, <3>1, RoomIsEnough
  <2>9. Cardinality(A) <= Cap /\ Cardinality(R) <= Cap /\ Cap \in Nat
    BY <1>1, <1>3, <2>1, <2>8, RoomIsEnough, WatchersAssumption
  <2>10. c = A /\ e = R
    BY <1>3, <2>1, <2>2, <2>9, AnyIsAll
  <2>11. s = named
    <3>1. /\ Max({1, Room(Cardinality(A \cup R))}) \in Nat
          /\ Room(Cardinality(A \cup R)) <= Max({1, Room(Cardinality(A \cup R))})
      BY <2>8, MaxOfTwo
    <3>2. Cardinality(named) \in Nat
      BY <2>6, FS_CardinalityType
    <3>3. Cardinality(named) <= Max({1, Room(Cardinality(A \cup R))})
      BY <2>8, <3>1, <3>2
    <3> QED
      BY <2>3, <2>6, <2>10, <3>1, <3>3, AnyIsAll
  <2>12. D \ Mute(w, was, new) \subseteq keys
    BY <1>1, <2>3, <2>5, <2>10, <2>11
  <2> QED
    BY <2>12 DEF D
<1>7. CASE w = "netlink"
  <2> DEFINE links == (A \cup R) \cap Interfaces
             sockets == A \ Interfaces
  <2>1. HasMaximum(w) /\ C = {}
    BY <1>2, <1>7 DEF HasMaximum, KeysOnly
  <2>2. PICK s \in AnyOf(Max({1, Room(Cardinality(links))}), sockets) : keys = links \cup s
    BY <1>7 DEF Reports, NetlinkWatcher
  <2>3. Mute(w, was, new) = R \ Interfaces
    BY <1>7 DEF Mute
  <2>4. /\ links \subseteq D /\ sockets \subseteq D /\ links \cap sockets = {}
        /\ D \ Mute(w, was, new) \subseteq links \cup sockets
    BY <1>1, <2>1, <2>3
  <2> HIDE DEF A, R, C, D, links, sockets
  <2>5. /\ IsFiniteSet(links) /\ IsFiniteSet(sockets) /\ IsFiniteSet(links \cup sockets)
        /\ links \cup sockets \subseteq D
    BY <1>3, <2>1, <2>4, FS_Subset, FS_Union
  <2>6. Cardinality(links \cup sockets) <= Cap
    <3>1. Cardinality(links \cup sockets) <= Cardinality(D)
      BY <1>3, <2>1, <2>5, FS_Subset
    <3>2. Cardinality(links \cup sockets) \in Nat /\ Cardinality(D) \in Nat /\ Cap \in Nat
      BY <1>3, <2>1, <2>5, FS_CardinalityType, WatchersAssumption
    <3> QED
      BY <1>3, <2>1, <3>1, <3>2
  <2>7. /\ Room(Cardinality(links)) \in Nat
        /\ Cardinality(sockets) <= Room(Cardinality(links))
    BY <2>4, <2>5, <2>6, RoomIsEnough
  <2>8. /\ Max({1, Room(Cardinality(links))}) \in Nat
        /\ Room(Cardinality(links)) <= Max({1, Room(Cardinality(links))})
    BY <2>7, MaxOfTwo
  <2>9. Cardinality(sockets) \in Nat
    BY <2>5, FS_CardinalityType
  <2>10. Cardinality(sockets) <= Max({1, Room(Cardinality(links))})
    BY <2>7, <2>8, <2>9
  <2>11. s = sockets
    BY <2>2, <2>5, <2>8, <2>10, AnyIsAll
  <2>12. D \ Mute(w, was, new) \subseteq keys
    BY <2>2, <2>4, <2>11
  <2> QED
    BY <2>12 DEF D
<1>8. CASE w = "autorun"
  <2>1. C = {} /\ keys = A \cup R
    BY <1>2, <1>8 DEF KeysOnly, Reports, AutorunWatcher
  <2> QED
    BY <1>1, <2>1
<1>9. CASE w \in {"persistence", "persistence_windows"}
  BY <1>1, <1>9 DEF Reports, PersistenceWatcher
<1>10. CASE w \in {"fim", "fim_default"}
  BY <1>1, <1>10 DEF Reports, FimWatcher, fim_diff
<1>11. CASE w = "dns"
  <2>1. C = {} /\ keys = A /\ Mute(w, was, new) = R
    BY <1>2, <1>11 DEF KeysOnly, Reports, DnsWatcher, Mute
  <2> QED
    BY <1>1, <2>1
<1> QED
  BY <1>4, <1>5, <1>6, <1>7, <1>8, <1>9, <1>10, <1>11 DEF WatcherNames

-----------------------------------------------------------------------------
LEMMA ContentsAreSmall == \A w, p : Contents(w, p) \subseteq 0 .. 3
BY DEF Contents, Absent

LEMMA WatchersTypedInit == Init => WatchersTyped
<1> SUFFICES ASSUME Init PROVE WatchersTyped
  OBVIOUS
<1>1. /\ watcher \in WatcherNames \cup {"off"} /\ seen = NoBaseline /\ drift \in Nat
  BY WatchersAssumption DEF Init, WatchersInit, WatcherNames
<1>2. host \in [Places -> 0 .. 3]
  BY DEF Init, WatchersInit, Absent
<1> QED
  BY <1>1, <1>2 DEF WatchersTyped, HasBaseline

(* A tick of either kind compares the baseline with some reading of the host.*)
LEMMA TicksRead ==
    ASSUME WatchersTyped, WatcherTick \/ WatcherTickBlind
    PROVE  \E lost, complete :
              /\ Tick(Reading(watcher, host, drift, lost), complete)
              /\ Fits(watcher, Reading(watcher, host, drift, lost))
              /\ complete => lost = {} /\ Listed(watcher, host)
              /\ complete \in BOOLEAN
<1>1. watcher \in WatcherNames /\ \A lost : Fits(watcher, Reading(watcher, host, drift, lost))
  <2>1. watcher \in WatcherNames
    BY DEF WatchersTyped, WatcherTick, WatcherTickBlind
  <2> QED
    BY <2>1, ReadingFits DEF WatchersTyped
<1>2. CASE WatcherTick
  <2>1. Tick(Reading(watcher, host, drift, {}), Listed(watcher, host))
    BY <1>2 DEF WatcherTick
  <2>2. Listed(watcher, host) \in BOOLEAN
    BY DEF Listed
  <2> QED
    BY <1>1, <2>1, <2>2
<1>3. CASE WatcherTickBlind
  <2>1. PICK lost : Tick(Reading(watcher, host, drift, lost), FALSE)
    BY <1>3 DEF WatcherTickBlind
  <2> QED
    BY <1>1, <2>1
<1> QED
  BY <1>2, <1>3

LEMMA WatchersTypedNext == WatchersTyped /\ [Next]_vars => WatchersTyped'
<1> SUFFICES ASSUME WatchersTyped, [Next]_vars PROVE WatchersTyped'
  OBVIOUS
<1>1. CASE WatcherTick \/ WatcherTickBlind
  <2>1. PICK lost, complete : /\ Tick(Reading(watcher, host, drift, lost), complete)
                              /\ Fits(watcher, Reading(watcher, host, drift, lost))
    BY <1>1, TicksRead
  <2>2. /\ seen' = Reading(watcher, host, drift, lost)
        /\ UNCHANGED <<watcher, host, drift>>
    BY <2>1 DEF Tick
  <2>3. Fits(watcher, seen')
    BY <2>1, <2>2
  <2>4. Fits(watcher, seen)'
    BY <2>2, <2>3 DEF Fits, HasMaximum
  <2> QED
    BY <2>2, <2>4 DEF WatchersTyped
<1>2. CASE HostChanges
  <2>1. UNCHANGED <<watcher, drift, seen>>
    BY <1>2 DEF HostChanges
  <2>2. PICK p \in Places : \E v \in Contents(watcher, p) : host' = [host EXCEPT ![p] = v]
    BY <1>2 DEF HostChanges
  <2>3. \E v \in 0 .. 3 : host' = [host EXCEPT ![p] = v]
    BY <2>2, ContentsAreSmall
  <2>4. host' \in [Places -> 0 .. 3]
    BY <2>3 DEF WatchersTyped
  <2> QED
    BY <2>1, <2>4 DEF WatchersTyped, HasBaseline, Fits, HasMaximum
<1>3. CASE ClockIsSet
  <2>1. UNCHANGED <<watcher, host, seen>> /\ drift' = drift + 2
    BY <1>3 DEF ClockIsSet
  <2> QED
    BY <2>1 DEF WatchersTyped, HasBaseline, Fits, HasMaximum
<1>4. CASE WatcherRestarts
  <2>1. UNCHANGED <<watcher, host, drift>> /\ seen' = NoBaseline
    BY <1>4 DEF WatcherRestarts
  <2> QED
    BY <2>1 DEF WatchersTyped, HasBaseline
<1>5. CASE UNCHANGED watcherVars
  BY <1>5 DEF watcherVars, WatchersTyped, HasBaseline, Fits, HasMaximum
<1> QED
  BY <1>1, <1>2, <1>3, <1>4, <1>5 DEF Next, WatchersNext, vars

(* A reader's view after a tick, key by key.                                 *)
LEMMA ViewOf ==
    ASSUME NEW view, NEW new, NEW keys, NEW unknown, NEW k, k \notin unknown
    PROVE  Holds(Believes(view, new, keys, unknown), k) =
               IF k \in keys THEN Holds(new, k) ELSE Holds(view, k)
BY DEF Holds, Believes

LEMMA SameUnlessDifferent ==
    ASSUME NEW was, NEW new, NEW k, k \notin Differences(was, new)
    PROVE  Holds(was, k) = Holds(new, k)
BY DEF Differences, Added, Removed, Changed, Holds

(* The reader's view is the baseline, of every key not hidden.               *)
TellsAll == HasBaseline => \A k : k \notin hidden => Holds(told, k) = Holds(seen, k)

LEMMA TellsAllNext == WatchersTyped /\ TellsAll /\ [Next]_vars => TellsAll'
<1> SUFFICES ASSUME WatchersTyped, TellsAll, [Next]_vars PROVE TellsAll'
  OBVIOUS
<1>1. CASE WatcherTick \/ WatcherTickBlind
  <2>1. PICK lost, complete : /\ Tick(Reading(watcher, host, drift, lost), complete)
                              /\ Fits(watcher, Reading(watcher, host, drift, lost))
    BY <1>1, TicksRead
  <2> DEFINE reading == Reading(watcher, host, drift, lost)
  <2>2. seen' = reading /\ (Baseline(reading) \/ Compares(reading)) /\ Fits(watcher, reading)
    BY <2>1 DEF Tick
  <2>3. watcher \in WatcherNames
    BY <1>1 DEF WatchersTyped, WatcherTick, WatcherTickBlind
  <2> HIDE DEF reading
  <2> SUFFICES ASSUME NEW k, k \notin hidden'
               PROVE  Holds(told', k) = Holds(seen', k)
    BY DEF TellsAll
  <2>4. CASE Baseline(reading) /\ told = NoBaseline
    BY <2>2, <2>4 DEF Baseline
  <2>5. CASE Baseline(reading) /\ told # NoBaseline
    <3>1. /\ hidden' = hidden \cup Differences(told, reading)
          /\ told' = Believes(told, reading, {}, hidden')
      BY <2>5 DEF Baseline
    <3>2. Holds(told', k) = Holds(told, k)
      BY <3>1, ViewOf
    <3>3. Holds(told, k) = Holds(reading, k)
      BY <3>1, SameUnlessDifferent
    <3> QED
      BY <2>2, <3>2, <3>3
  <2>6. CASE Compares(reading)
    <3> DEFINE differ == Differences(seen, reading)
               full == HasMaximum(watcher) /\ Cardinality(differ) > Cap
    <3>1. /\ HasBaseline
          /\ reported' \in Reports(watcher, seen, reading)
          /\ hidden' = (hidden \ differ) \cup
                            (IF full THEN differ ELSE Mute(watcher, seen, reading))
          /\ told' = Believes(told, reading, reported', hidden')
      BY <2>6 DEF Compares
    <3>2. Fits(watcher, seen)
      BY <3>1 DEF WatchersTyped
    <3>3. Holds(told', k) = IF k \in reported' THEN Holds(reading, k) ELSE Holds(told, k)
      BY <3>1, ViewOf
    <3>4. CASE k \in reported'
      BY <2>2, <3>3, <3>4
    <3>5. CASE k \notin reported'
      <4>1. k \notin differ
        <5>1. CASE full
          BY <3>1, <5>1
        <5>2. CASE ~full
          <6>1. differ \ Mute(watcher, seen, reading) \subseteq reported'
            BY <2>2, <2>3, <3>1, <3>2, <5>2, AllIsReported
          <6> QED
            BY <3>1, <3>5, <5>2, <6>1
        <5> QED
          BY <5>1, <5>2
      <4>2. k \notin hidden
        BY <3>1, <4>1
      <4>3. Holds(told, k) = Holds(seen, k)
        BY <3>1, <4>2 DEF TellsAll
      <4>4. Holds(seen, k) = Holds(reading, k)
        BY <4>1, SameUnlessDifferent
      <4> QED
        BY <2>2, <3>3, <3>5, <4>3, <4>4
    <3> QED
      BY <3>4, <3>5
  <2> QED
    BY <2>2, <2>4, <2>5, <2>6
<1>2. CASE HostChanges \/ ClockIsSet \/ UNCHANGED watcherVars
  <2>1. UNCHANGED <<seen, told, hidden>>
    BY <1>2 DEF HostChanges, ClockIsSet, watcherVars
  <2> QED
    BY <2>1 DEF TellsAll, HasBaseline
<1>3. CASE WatcherRestarts
  BY <1>3 DEF WatcherRestarts, TellsAll, HasBaseline
<1> QED
  BY <1>1, <1>2, <1>3 DEF Next, WatchersNext, vars

(* What the events told of a key is what the watcher last saw of it: the     *)
(* rooms the sorts of change share, their order and the baseline that always *)
(* moves on leave no gap but the known ones (ProcessWatcher, ServiceWatcher, *)
(* SystemdUnitWatcher, NetlinkWatcher, AutorunWatcher, PersistenceWatcher,   *)
(* FimWatcher, DnsWatcher).                                                  *)
THEOREM EventsAreEnough == Spec => []EventsTellTheBaseline
<1>1. Init => TellsAll
  BY DEF Init, WatchersInit, TellsAll, HasBaseline
<1>2. TellsAll => EventsTellTheBaseline
  BY DEF TellsAll, EventsTellTheBaseline
<1>3. Safe => []EventsTellTheBaseline
  BY <1>1, <1>2, WatchersTypedInit, WatchersTypedNext, TellsAllNext, PTL DEF Safe
<1> QED
  BY <1>3, SpecIsSafe, PTL

-----------------------------------------------------------------------------
(* Alarms.  A reading in which nothing is cut and no source fails says of a  *)
(* key what its places hold, so two of them differ only where those do.      *)
LEMMA ListedRows ==
    ASSUME NEW w, NEW h, DOMAIN h = Places, Listed(w, h), NEW S, S \subseteq Rows(w, h)
    PROVE  FirstOf(Limit, S) = S
<1>1. /\ Limit \in Nat /\ IsFiniteSet(Places) /\ Places \subseteq Nat
      /\ Explicit \subseteq Places
  BY WatchersAssumption
<1>2. Rows(w, h) \subseteq Places
  <2>1. Present(h) \subseteq Places
    BY DEF Present
  <2>2. Rows(w, h) \in {{}, Present(h) \ Interfaces, Present(h) \cap Timers,
                        Present(h) \cup Explicit}
    BY DEF Rows
  <2> QED
    BY <1>1, <2>1, <2>2
<1>3. IsFiniteSet(Rows(w, h))
  BY <1>1, <1>2, FS_Subset
<1>4. IsFiniteSet(S) /\ Cardinality(S) <= Cardinality(Rows(w, h))
  BY <1>3, FS_Subset
<1>5. Cardinality(S) \in Nat /\ Cardinality(Rows(w, h)) \in Nat
  BY <1>3, <1>4, FS_CardinalityType
<1>6. Cardinality(S) <= Limit
  BY <1>1, <1>4, <1>5 DEF Listed
<1> QED
  BY <1>1, <1>2, <1>4, <1>6, AllFit

LEMMA NothingIsLost == \A source, S : Unless(source, {}, S) = S
BY DEF Unless

(* What is in a complete reading, without the limits.                        *)
AllProcesses(h, d) == [k \in {<<p, h[p] + d>> : p \in Present(h)} |-> 1]

LEMMA ProcessesRead ==
    ASSUME NEW h, DOMAIN h = Places, Listed("process", h), NEW d
    PROVE  Reading("process", h, d, {}) = AllProcesses(h, d)
<1>1. FirstOf(Limit, Present(h)) = Present(h)
  BY ListedRows DEF Rows
<1> QED
  BY <1>1, NothingIsLost DEF Reading, snapshot_processes, linux_process_rows, linux_one_proc,
     AllProcesses

LEMMA ServicesRead ==
    ASSUME NEW h, DOMAIN h = Places, Listed("service", h), NEW d
    PROVE  Reading("service", h, d, {}) = [p \in {q \in Places : h[q] \in Loaded} |-> h[p]]
<1>1. FirstOf(Limit, {q \in Places : h[q] \in Loaded}) = {q \in Places : h[q] \in Loaded}
  BY ListedRows DEF Rows, Present, Loaded, Absent
<1> QED
  BY <1>1, NothingIsLost DEF Reading, service_status_linux, systemctl_rows

LEMMA UnitsRead ==
    ASSUME NEW h, DOMAIN h = Places, Listed("systemd", h), NEW d, NEW k
    PROVE  LET r == Reading("systemd", h, d, {})
               Services == {q \in Places \ Timers : h[q] \in Loaded}
           IN /\ k \in DOMAIN r <=>
                    \/ \E p \in Services : k = <<"units", p>>
                    \/ \E p \in {q \in Timers : h[q] \in Loaded} : k = <<"timers", p>>
                    \/ \E p \in Present(h) \ Timers : k = <<"enabled", p>>
              /\ \A p \in Services : k = <<"units", p>> => r[k] = h[p]
              /\ \A p \in {q \in Timers : h[q] \in Loaded} : k = <<"timers", p>> => r[k] = h[p]
              /\ \A p \in Present(h) \ Timers : k = <<"enabled", p>> =>
                    r[k] = IF p \in Services THEN h[p] ELSE Absent
<1> DEFINE scan == linux_systemd_units(h, {})
           r == Reading("systemd", h, d, {})
           keys == UNION {{section} \X DOMAIN scan[section] : section \in DOMAIN scan}
           Services == {q \in Places \ Timers : h[q] \in Loaded}
           Alarms == {q \in Timers : h[q] \in Loaded}
           Enabled == Present(h) \ Timers
<1>1. /\ FirstOf(Limit, Services) = Services
      /\ FirstOf(Limit, Alarms) = Alarms
      /\ FirstOf(Limit, Enabled) = Enabled
  <2>1. Services \subseteq Rows("systemd", h) /\ Enabled \subseteq Rows("systemd", h)
        /\ Alarms \subseteq Rows("systemd", h)
    BY WatchersAssumption DEF Rows, Present, Loaded, Absent
  <2> QED
    BY <2>1, ListedRows
<1>2. /\ Unless("units", {}, systemctl_rows(h, DOMAIN h \ Timers)) = Services
      /\ Unless("timers", {}, systemctl_rows(h, Timers)) = Alarms
      /\ Unless("enabled", {}, unit_file_rows(h, DOMAIN h \ Timers)) = Enabled
  <2>1. Present(h) \cap (DOMAIN h \ Timers) = Enabled
    BY DEF Present
  <2> QED
    BY <1>1, <2>1, NothingIsLost DEF systemctl_rows, unit_file_rows
<1>3. scan = [units |-> [p \in Services |-> h[p]], timers |-> [p \in Alarms |-> h[p]],
              enabled |-> [p \in Enabled |-> IF p \in Services THEN h[p] ELSE Absent]]
  BY <1>2 DEF linux_systemd_units, enrich_enabled
<1>4. r = [q \in keys |-> scan[q[1]][q[2]]]
  BY DEF Reading, systemd_fingerprint
<1> HIDE DEF scan, Services, Alarms, Enabled, r
<1>5. /\ DOMAIN scan = {"units", "timers", "enabled"}
      /\ scan["units"] = [p \in Services |-> h[p]]
      /\ scan["timers"] = [p \in Alarms |-> h[p]]
      /\ scan["enabled"] = [p \in Enabled |-> IF p \in Services THEN h[p] ELSE Absent]
  BY <1>3
<1>6. /\ DOMAIN scan["units"] = Services /\ DOMAIN scan["timers"] = Alarms
      /\ DOMAIN scan["enabled"] = Enabled
      /\ \A p \in Services : scan["units"][p] = h[p]
      /\ \A p \in Alarms : scan["timers"][p] = h[p]
      /\ \A p \in Enabled : scan["enabled"][p] = IF p \in Services THEN h[p] ELSE Absent
  BY <1>5
<1>7. k \in keys <=> \/ k \in {"units"} \X Services
                     \/ k \in {"timers"} \X Alarms
                     \/ k \in {"enabled"} \X Enabled
  BY <1>5, <1>6
<1>8. k \in keys <=> \/ \E p \in Services : k = <<"units", p>>
                     \/ \E p \in Alarms : k = <<"timers", p>>
                     \/ \E p \in Enabled : k = <<"enabled", p>>
  BY <1>7
<1> HIDE DEF keys
<1>9. k \in DOMAIN r <=> k \in keys
  BY <1>4
<1>10. ASSUME NEW p \in Services, k = <<"units", p>> PROVE r[k] = h[p]
  BY <1>4, <1>6, <1>8, <1>10
<1>11. ASSUME NEW p \in Alarms, k = <<"timers", p>> PROVE r[k] = h[p]
  BY <1>4, <1>6, <1>8, <1>11
<1>12. ASSUME NEW p \in Enabled, k = <<"enabled", p>>
       PROVE  r[k] = IF p \in Services THEN h[p] ELSE Absent
  BY <1>4, <1>6, <1>8, <1>12
<1> QED
  BY <1>8, <1>9, <1>10, <1>11, <1>12 DEF r, Services, Alarms, Enabled

AllFiles(w, h) == [p \in (IF w = "fim" THEN Explicit ELSE {}) \cup Present(h) |-> h[p]]

LEMMA FilesRead ==
    ASSUME NEW h, DOMAIN h = Places, NEW w \in {"fim", "fim_default"}, Listed(w, h), NEW d
    PROVE  Reading(w, h, d, {}) = AllFiles(w, h)
<1> DEFINE paths == IF w = "fim" THEN Explicit ELSE default_fim_paths(h)
           all == (IF w = "fim" THEN Explicit ELSE {}) \cup Present(h)
<1>1. paths \cup (Present(h) \ Explicit) = all
  BY DEF default_fim_paths
<1>2. all \subseteq Rows(w, h)
  BY DEF Rows
<1>3. Reading(w, h, d, {}) = fim_scan(h, paths, {})
  BY DEF Reading
<1> HIDE DEF all, paths
<1>4. FirstOf(Limit, all) = all
  BY <1>2, ListedRows
<1>5. expand_paths(h, paths, {}) = all
  BY <1>1, <1>4, NothingIsLost DEF expand_paths
<1>6. \A p : file_meta(h, p, {}) = h[p]
  BY DEF file_meta
<1> QED
  BY <1>3, <1>5, <1>6, NothingIsLost DEF fim_scan, all, AllFiles

(* Items of persistence are filed by kind and place, those of a Run key      *)
(* together: the value of a key is a matter of what is filed under it.       *)
Filed(items, k) == {i \in items : <<i.kind, PlaceOf(i)>> = k}

LEMMA FiledTheSame ==
    ASSUME NEW some, NEW other, NEW k, Filed(some, k) = Filed(other, k)
    PROVE  k \notin Differences(persistence_fingerprint(some), persistence_fingerprint(other))
<1> DEFINE r == persistence_fingerprint(some)
           s == persistence_fingerprint(other)
           last(S) == CHOOSE i \in S : \A j \in S : j.place <= i.place
           value(S) == <<last(S).place, last(S).value>>
<1>1. /\ r = [q \in {<<i.kind, PlaceOf(i)>> : i \in some} |-> value(Filed(some, q))]
      /\ s = [q \in {<<i.kind, PlaceOf(i)>> : i \in other} |-> value(Filed(other, q))]
  BY DEF persistence_fingerprint, Filed
<1>2. /\ k \in {<<i.kind, PlaceOf(i)>> : i \in some} <=> Filed(some, k) # {}
      /\ k \in {<<i.kind, PlaceOf(i)>> : i \in other} <=> Filed(other, k) # {}
  BY DEF Filed
<1> HIDE DEF r, s, value
<1>3. k \in DOMAIN r <=> k \in DOMAIN s
  BY <1>1, <1>2
<1>4. k \in DOMAIN r /\ k \in DOMAIN s => r[k] = s[k]
  BY <1>1
<1>5. k \notin Differences(r, s)
  BY <1>3, <1>4 DEF Differences, Added, Removed, Changed
<1> QED
  BY <1>5 DEF r, s

LEMMA TimersRead ==
    ASSUME NEW h, DOMAIN h = Places, Listed("persistence", h)
    PROVE  linux_systemd_timers(h, {}) =
              {Item("timer", p, h[p]) : p \in {q \in Timers : h[q] \in Loaded}}
<1> DEFINE due == {q \in Timers : h[q] \in Loaded}
<1>1. due \subseteq Rows("persistence", h)
  BY WatchersAssumption DEF Rows, Present, Loaded, Absent
<1> HIDE DEF due
<1>2. FirstOf(Limit, due) = due
  BY <1>1, ListedRows
<1>3. Unless("timers", {}, systemctl_rows(h, Timers)) = due
  BY <1>2, NothingIsLost DEF systemctl_rows, due
<1>4. linux_systemd_units(h, {}).timers = [p \in due |-> h[p]]
  BY <1>3 DEF linux_systemd_units
<1>5. linux_systemd_timers(h, {}) = {Item("timer", p, h[p]) : p \in due}
  BY <1>4 DEF linux_systemd_timers
<1> QED
  BY <1>5 DEF due

LEMMA FiledOnLinux ==
    ASSUME NEW h, DOMAIN h = Places, Listed("persistence", h),
           NEW g, DOMAIN g = Places, Listed("persistence", g),
           NEW k, \A p \in PlacesOf("persistence", k) : h[p] = g[p]
    PROVE  Filed(persistence_scan("Linux", h, {}), k)
              \subseteq Filed(persistence_scan("Linux", g, {}), k)
<1> DEFINE Some == persistence_scan("Linux", h, {})
           Other == persistence_scan("Linux", g, {})
<1>1. \A kind, p : /\ FileItem(kind, h, p, {}) = Item(kind, p, h[p])
                   /\ FileItem(kind, g, p, {}) = Item(kind, p, g[p])
  BY DEF FileItem
<1>2. Some = {Item("cron", p, h[p]) : p \in Present(h) \cap RunValues}
                \cup {Item("timer", p, h[p]) : p \in {q \in Timers : h[q] \in Loaded}}
                \cup {Item("keys", p, h[p]) : p \in Present(h) \ (RunValues \cup Timers)}
  BY <1>1, TimersRead DEF persistence_scan, linux_cron_entries, linux_authorized_keys
<1>3. Other = {Item("cron", p, g[p]) : p \in Present(g) \cap RunValues}
                \cup {Item("timer", p, g[p]) : p \in {q \in Timers : g[q] \in Loaded}}
                \cup {Item("keys", p, g[p]) : p \in Present(g) \ (RunValues \cup Timers)}
  BY <1>1, TimersRead DEF persistence_scan, linux_cron_entries, linux_authorized_keys
<1> HIDE DEF Some, Other
<1>4. ASSUME NEW i \in Some, <<i.kind, PlaceOf(i)>> = k
      PROVE  i \in Other
  <2>1. ASSUME NEW p, i = Item("cron", p, h[p]) \/ i = Item("timer", p, h[p])
                      \/ i = Item("keys", p, h[p])
        PROVE  h[p] = g[p]
    <3>1. i.kind # "run" /\ i.place = p
      BY <2>1 DEF Item
    <3>2. k[1] # "run" /\ k[2] = p
      BY <1>4, <3>1 DEF PlaceOf
    <3> QED
      BY <3>2 DEF PlacesOf
  <2>2. CASE \E p \in Present(h) \cap RunValues : i = Item("cron", p, h[p])
    BY <1>3, <2>1, <2>2 DEF Present
  <2>3. CASE \E p \in {q \in Timers : h[q] \in Loaded} : i = Item("timer", p, h[p])
    BY <1>3, <2>1, <2>3
  <2>4. CASE \E p \in Present(h) \ (RunValues \cup Timers) : i = Item("keys", p, h[p])
    BY <1>3, <2>1, <2>4 DEF Present
  <2> QED
    BY <1>2, <2>2, <2>3, <2>4
<1> QED
  BY <1>4 DEF Filed, Some, Other

LEMMA FiledOnWindows ==
    ASSUME NEW h, DOMAIN h = Places, Listed("persistence_windows", h),
           NEW g, DOMAIN g = Places, Listed("persistence_windows", g),
           NEW k, \A p \in PlacesOf("persistence_windows", k) : h[p] = g[p]
    PROVE  Filed(persistence_scan("Windows", h, {}), k)
              \subseteq Filed(persistence_scan("Windows", g, {}), k)
<1> DEFINE Some == persistence_scan("Windows", h, {})
           Other == persistence_scan("Windows", g, {})
<1>1. ASSUME NEW f, DOMAIN f = Places, Listed("persistence_windows", f)
      PROVE  persistence_scan("Windows", f, {}) =
                {Item("run", p, f[p]) : p \in Present(f) \cap RunValues}
                  \cup {Item("service", p, f[p]) : p \in Present(f) \ (RunValues \cup Timers)}
                  \cup {Item("task", p, 1) : p \in Present(f) \cap (Timers \ RunValues)}
  <2>1. /\ Present(f) \ (RunValues \cup Timers) \subseteq Rows("persistence_windows", f)
        /\ Present(f) \cap (Timers \ RunValues) \subseteq Rows("persistence_windows", f)
    BY DEF Rows
  <2>2. /\ FirstOf(Limit, Present(f) \ (RunValues \cup Timers)) =
               Present(f) \ (RunValues \cup Timers)
        /\ FirstOf(Limit, Present(f) \cap (Timers \ RunValues)) =
               Present(f) \cap (Timers \ RunValues)
    BY <1>1, <2>1, ListedRows
  <2> QED
    BY <2>2, NothingIsLost DEF persistence_scan, win_run_keys, reg_values, win_services,
       win_scheduled_tasks
<1>2. Some = {Item("run", p, h[p]) : p \in Present(h) \cap RunValues}
                  \cup {Item("service", p, h[p]) : p \in Present(h) \ (RunValues \cup Timers)}
                  \cup {Item("task", p, 1) : p \in Present(h) \cap (Timers \ RunValues)}
  BY <1>1
<1>3. Other = {Item("run", p, g[p]) : p \in Present(g) \cap RunValues}
                  \cup {Item("service", p, g[p]) : p \in Present(g) \ (RunValues \cup Timers)}
                  \cup {Item("task", p, 1) : p \in Present(g) \cap (Timers \ RunValues)}
  BY <1>1
<1> HIDE DEF Some, Other
<1>4. ASSUME NEW i \in Some, <<i.kind, PlaceOf(i)>> = k
      PROVE  i \in Other
  <2>1. ASSUME NEW p, i = Item("service", p, h[p]) \/ i = Item("task", p, 1)
        PROVE  h[p] = g[p]
    <3>1. i.kind # "run" /\ i.place = p
      BY <2>1 DEF Item
    <3>2. k[1] # "run" /\ k[2] = p
      BY <1>4, <3>1 DEF PlaceOf
    <3> QED
      BY <3>2 DEF PlacesOf
  <2>2. ASSUME NEW p \in RunValues, i = Item("run", p, h[p]) PROVE h[p] = g[p]
    <3>1. i.kind = "run"
      BY <2>2 DEF Item
    <3>2. k[1] = "run"
      BY <1>4, <3>1
    <3> QED
      BY <3>2 DEF PlacesOf
  <2>3. CASE \E p \in Present(h) \cap RunValues : i = Item("run", p, h[p])
    BY <1>3, <2>2, <2>3 DEF Present
  <2>4. CASE \E p \in Present(h) \ (RunValues \cup Timers) : i = Item("service", p, h[p])
    BY <1>3, <2>1, <2>4 DEF Present
  <2>5. CASE \E p \in Present(h) \cap (Timers \ RunValues) : i = Item("task", p, 1)
    BY <1>3, <2>1, <2>5 DEF Present
  <2> QED
    BY <1>2, <2>3, <2>4, <2>5
<1> QED
  BY <1>4 DEF Filed, Some, Other

LEMMA SameKey ==
    ASSUME NEW r, NEW s, NEW k, k \in DOMAIN r <=> k \in DOMAIN s,
           k \in DOMAIN r /\ k \in DOMAIN s => r[k] = s[k]
    PROVE  k \notin Differences(r, s)
BY DEF Differences, Added, Removed, Changed

LEMMA SamePlaces ==
    ASSUME NEW w \in WatcherNames, NEW d, NEW k,
           NEW h, DOMAIN h = Places, Listed(w, h),
           NEW g, DOMAIN g = Places, Listed(w, g),
           \A p \in PlacesOf(w, k) : h[p] = g[p]
    PROVE  k \notin Differences(Reading(w, h, d, {}), Reading(w, g, d, {}))
<1> DEFINE r == Reading(w, h, d, {})
           s == Reading(w, g, d, {})
<1> SUFFICES k \notin Differences(r, s)
  OBVIOUS
<1>1. CASE w = "process"
  <2>1. /\ r = [q \in {<<p, h[p] + d>> : p \in Present(h)} |-> 1]
        /\ s = [q \in {<<p, g[p] + d>> : p \in Present(g)} |-> 1]
    <3>1. r = AllProcesses(h, d) /\ s = AllProcesses(g, d)
      BY <1>1, ProcessesRead
    <3> HIDE DEF r, s
    <3> QED
      BY <3>1 DEF AllProcesses
  <2>2. h[k[1]] = g[k[1]]
    BY <1>1 DEF PlacesOf
  <2>3. \A p : k = <<p, h[p] + d>> \/ k = <<p, g[p] + d>> => k[1] = p
    OBVIOUS
  <2>4. k \in {<<p, h[p] + d>> : p \in Present(h)} <=> k \in {<<p, g[p] + d>> : p \in Present(g)}
    BY <2>2, <2>3 DEF Present
  <2> HIDE DEF r, s
  <2> QED
    BY <2>1, <2>4, SameKey
<1>2. CASE w = "service"
  <2>1. /\ r = [p \in {q \in Places : h[q] \in Loaded} |-> h[p]]
        /\ s = [p \in {q \in Places : g[q] \in Loaded} |-> g[p]]
    BY <1>2, ServicesRead
  <2>2. h[k] = g[k]
    BY <1>2 DEF PlacesOf
  <2> HIDE DEF r, s
  <2> QED
    BY <2>1, <2>2, SameKey
<1>3. CASE w = "service_windows"
  <2>1. /\ r = [p \in Present(h) |-> windows_scm_state(h[p])]
        /\ s = [p \in Present(g) |-> windows_scm_state(g[p])]
    BY <1>3, NothingIsLost DEF Reading, service_status_windows
  <2>2. h[k] = g[k]
    BY <1>3 DEF PlacesOf
  <2>3. k \in Present(h) <=> k \in Present(g)
    BY <2>2 DEF Present
  <2> HIDE DEF r, s
  <2> QED
    BY <2>1, <2>2, <2>3, SameKey
<1>4. CASE w = "systemd"
  <2>1. h[k[2]] = g[k[2]]
    BY <1>4 DEF PlacesOf
  <2>2. \A p : k = <<"units", p>> \/ k = <<"timers", p>> \/ k = <<"enabled", p>> =>
               k[2] = p /\ h[p] = g[p]
    BY <2>1
  <2> DEFINE U(f) == {q \in Places \ Timers : f[q] \in Loaded}
             T(f) == {q \in Timers : f[q] \in Loaded}
             E(f) == Present(f) \ Timers
             state(f, p) == IF p \in U(f) THEN f[p] ELSE Absent
  <2>3. /\ k \in DOMAIN r <=> \/ \E p \in U(h) : k = <<"units", p>>
                              \/ \E p \in T(h) : k = <<"timers", p>>
                              \/ \E p \in E(h) : k = <<"enabled", p>>
        /\ \A p \in U(h) : k = <<"units", p>> => r[k] = h[p]
        /\ \A p \in T(h) : k = <<"timers", p>> => r[k] = h[p]
        /\ \A p \in E(h) : k = <<"enabled", p>> => r[k] = state(h, p)
    BY <1>4, UnitsRead
  <2>4. /\ k \in DOMAIN s <=> \/ \E p \in U(g) : k = <<"units", p>>
                              \/ \E p \in T(g) : k = <<"timers", p>>
                              \/ \E p \in E(g) : k = <<"enabled", p>>
        /\ \A p \in U(g) : k = <<"units", p>> => s[k] = g[p]
        /\ \A p \in T(g) : k = <<"timers", p>> => s[k] = g[p]
        /\ \A p \in E(g) : k = <<"enabled", p>> => s[k] = state(g, p)
    BY <1>4, UnitsRead
  <2>5. \A p : h[p] = g[p] => /\ p \in U(h) <=> p \in U(g)
                              /\ p \in T(h) <=> p \in T(g)
                              /\ p \in E(h) <=> p \in E(g)
                              /\ state(h, p) = state(g, p)
    BY DEF Present
  <2> HIDE DEF U, T, E, state, r, s
  <2>6. k \in DOMAIN r <=> k \in DOMAIN s
    BY <2>2, <2>3, <2>4, <2>5
  <2>7. k \in DOMAIN r /\ k \in DOMAIN s => r[k] = s[k]
    <3> SUFFICES ASSUME k \in DOMAIN r PROVE r[k] = s[k]
      OBVIOUS
    <3>1. ASSUME NEW p \in U(h), k = <<"units", p>> PROVE r[k] = s[k]
      BY <2>2, <2>3, <2>4, <2>5, <3>1
    <3>2. ASSUME NEW p \in T(h), k = <<"timers", p>> PROVE r[k] = s[k]
      BY <2>2, <2>3, <2>4, <2>5, <3>2
    <3>3. ASSUME NEW p \in E(h), k = <<"enabled", p>> PROVE r[k] = s[k]
      BY <2>2, <2>3, <2>4, <2>5, <3>3
    <3> QED
      BY <2>3, <3>1, <3>2, <3>3
  <2> QED
    BY <2>6, <2>7, SameKey
<1>5. CASE w = "netlink"
  <2> DEFINE some == (Present(h) \cap Interfaces) \cup (Present(h) \ Interfaces)
             other == (Present(g) \cap Interfaces) \cup (Present(g) \ Interfaces)
  <2>1. /\ FirstOf(Limit, Present(h) \ Interfaces) = Present(h) \ Interfaces
        /\ FirstOf(Limit, Present(g) \ Interfaces) = Present(g) \ Interfaces
    BY <1>5, ListedRows DEF Rows
  <2>2. r = [p \in some |-> 1] /\ s = [p \in other |-> 1]
    BY <1>5, <2>1, NothingIsLost DEF Reading, net_sys_stats, proc_tcp_sample
  <2>3. h[k] = g[k]
    BY <1>5 DEF PlacesOf
  <2>4. k \in some <=> k \in other
    BY <2>3 DEF Present
  <2> HIDE DEF r, s, some, other
  <2> QED
    BY <2>2, <2>4, SameKey
<1>6. CASE w = "autorun"
  <2> DEFINE entries(f) == {Item("run", p, f[p]) : p \in Present(f) \cap RunValues}
                              \cup {Item("startup", p, 1) : p \in Present(f) \ RunValues}
             keys(f) == {<<i.place, i.value>> : i \in entries(f)}
  <2>1. r = [q \in keys(h) |-> 1] /\ s = [q \in keys(g) |-> 1]
    BY <1>6, NothingIsLost DEF Reading, autoruns_fingerprint, windows_autoruns, reg_values,
       startup_folder_entries
  <2>2. h[k[1]] = g[k[1]]
    BY <1>6 DEF PlacesOf
  <2>3. \A f : k \in keys(f) <=> \/ \E p \in Present(f) \cap RunValues : k = <<p, f[p]>>
                                 \/ \E p \in Present(f) \ RunValues : k = <<p, 1>>
    <3> TAKE f
    <3>1. \A kind, p, v : Item(kind, p, v).place = p /\ Item(kind, p, v).value = v
      BY DEF Item
    <3>2. ASSUME k \in keys(f)
          PROVE  \/ \E p \in Present(f) \cap RunValues : k = <<p, f[p]>>
                 \/ \E p \in Present(f) \ RunValues : k = <<p, 1>>
      <4>1. PICK i \in entries(f) : k = <<i.place, i.value>>
        BY <3>2
      <4> QED
        BY <3>1, <4>1
    <3>3. ASSUME NEW p \in Present(f) \cap RunValues, k = <<p, f[p]>> PROVE k \in keys(f)
      <4>1. Item("run", p, f[p]) \in entries(f)
        OBVIOUS
      <4> QED
        BY <3>1, <3>3, <4>1
    <3>4. ASSUME NEW p \in Present(f) \ RunValues, k = <<p, 1>> PROVE k \in keys(f)
      <4>1. Item("startup", p, 1) \in entries(f)
        OBVIOUS
      <4> QED
        BY <3>1, <3>4, <4>1
    <3> QED
      BY <3>2, <3>3, <3>4
  <2>4. \A p, v : k = <<p, v>> => h[p] = g[p]
    BY <2>2
  <2> HIDE DEF r, s, keys, entries
  <2>5. k \in keys(h) <=> k \in keys(g)
    BY <2>3, <2>4 DEF Present
  <2> QED
    BY <2>1, <2>5, SameKey
<1>7. CASE w = "persistence"
  <2>1. /\ r = persistence_fingerprint(persistence_scan("Linux", h, {}))
        /\ s = persistence_fingerprint(persistence_scan("Linux", g, {}))
    BY <1>7 DEF Reading
  <2>2. Filed(persistence_scan("Linux", h, {}), k)
              \subseteq Filed(persistence_scan("Linux", g, {}), k)
    BY <1>7, FiledOnLinux
  <2>3. Filed(persistence_scan("Linux", g, {}), k)
              \subseteq Filed(persistence_scan("Linux", h, {}), k)
    BY <1>7, FiledOnLinux
  <2>4. Filed(persistence_scan("Linux", h, {}), k) = Filed(persistence_scan("Linux", g, {}), k)
    BY <2>2, <2>3
  <2> HIDE DEF r, s
  <2> QED
    BY <2>1, <2>4, FiledTheSame
<1>8. CASE w = "persistence_windows"
  <2>1. /\ r = persistence_fingerprint(persistence_scan("Windows", h, {}))
        /\ s = persistence_fingerprint(persistence_scan("Windows", g, {}))
    BY <1>8 DEF Reading
  <2>2. /\ Filed(persistence_scan("Windows", h, {}), k)
              \subseteq Filed(persistence_scan("Windows", g, {}), k)
        /\ Filed(persistence_scan("Windows", g, {}), k)
              \subseteq Filed(persistence_scan("Windows", h, {}), k)
    BY <1>8, FiledOnWindows
  <2>3. Filed(persistence_scan("Windows", h, {}), k) = Filed(persistence_scan("Windows", g, {}), k)
    BY <2>2
  <2> HIDE DEF r, s
  <2> QED
    BY <2>1, <2>3, FiledTheSame
<1>9. CASE w \in {"fim", "fim_default"}
  <2> DEFINE always == IF w = "fim" THEN Explicit ELSE {}
  <2>1. /\ r = [p \in always \cup Present(h) |-> h[p]]
        /\ s = [p \in always \cup Present(g) |-> g[p]]
    <3>1. r = AllFiles(w, h) /\ s = AllFiles(w, g)
      BY <1>9, FilesRead
    <3> HIDE DEF r, s
    <3> QED
      BY <3>1 DEF AllFiles
  <2>2. h[k] = g[k]
    BY <1>9 DEF PlacesOf
  <2>3. k \in Present(h) <=> k \in Present(g)
    BY <2>2 DEF Present
  <2> HIDE DEF r, s, always
  <2> QED
    BY <2>1, <2>2, <2>3, SameKey
<1>10. CASE w = "dns"
  <2> DEFINE keys(f) == {<<p, 1>> : p \in Present(f) \cap Explicit}
                          \cup {<<p, 0>> : p \in Present(f) \ Explicit}
  <2>1. /\ FirstOf(Limit, Present(h) \cap Explicit) = Present(h) \cap Explicit
        /\ FirstOf(Limit, Present(h) \ Explicit) = Present(h) \ Explicit
        /\ FirstOf(Limit, Present(g) \cap Explicit) = Present(g) \cap Explicit
        /\ FirstOf(Limit, Present(g) \ Explicit) = Present(g) \ Explicit
    BY <1>10, ListedRows DEF Rows
  <2>2. r = [q \in keys(h) |-> 1] /\ s = [q \in keys(g) |-> 1]
    <3>1. \A f : FirstOf(Limit, Present(f) \cap Explicit) = Present(f) \cap Explicit
                 /\ FirstOf(Limit, Present(f) \ Explicit) = Present(f) \ Explicit =>
                    Reading(w, f, d, {}) = [q \in keys(f) |-> 1]
      <4> TAKE f
      <4> HAVE FirstOf(Limit, Present(f) \cap Explicit) = Present(f) \cap Explicit
                 /\ FirstOf(Limit, Present(f) \ Explicit) = Present(f) \ Explicit
      <4>1. /\ dns_from_connections(f, {}) = {<<p, 1>> : p \in Present(f) \cap Explicit}
            /\ dns_cache_linux(f, {}) = {<<p, 0>> : p \in Present(f) \ Explicit}
        BY NothingIsLost DEF dns_from_connections, dns_cache_linux
      <4> QED
        BY <1>10, <4>1 DEF Reading, dns_monitor
    <3> HIDE DEF keys
    <3> QED
      BY <2>1, <3>1
  <2>3. h[k[1]] = g[k[1]]
    BY <1>10 DEF PlacesOf
  <2>4. \A p, v : k = <<p, v>> => h[p] = g[p]
    BY <2>3
  <2>5. k \in keys(h) <=> k \in keys(g)
    BY <2>4 DEF Present
  <2> HIDE DEF r, s, keys
  <2> QED
    BY <2>2, <2>5, SameKey
<1> QED
  BY <1>1, <1>2, <1>3, <1>4, <1>5, <1>6, <1>7, <1>8, <1>9, <1>10 DEF WatcherNames

(* A baseline that is whole is the reading of the host at the last tick, by  *)
(* the clock of now.                                                         *)
WholeIsRead ==
    /\ before \in [Places -> 0 .. 3]
    /\ whole \in BOOLEAN
    /\ whole /\ HasBaseline =>
          /\ seen = Reading(watcher, before, drift, {})
          /\ Listed(watcher, before)

LEMMA WholeInit == Init => WholeIsRead
<1> SUFFICES ASSUME Init PROVE WholeIsRead
  OBVIOUS
<1>1. before = host /\ whole = FALSE
  BY DEF Init, WatchersInit
<1>2. host \in [Places -> 0 .. 3]
  BY WatchersTypedInit DEF WatchersTyped
<1> QED
  BY <1>1, <1>2 DEF WholeIsRead

LEMMA TickIsWhole ==
    ASSUME WatchersTyped, WatcherTick \/ WatcherTickBlind
    PROVE  /\ Baseline(seen') \/ Compares(seen')
           /\ UNCHANGED <<watcher, host, drift>> /\ before' = host
           /\ whole' \in BOOLEAN
           /\ whole' => seen' = Reading(watcher, host, drift, {}) /\ Listed(watcher, host)
<1>1. PICK lost, complete : /\ Tick(Reading(watcher, host, drift, lost), complete)
                            /\ complete => lost = {} /\ Listed(watcher, host)
                            /\ complete \in BOOLEAN
  BY TicksRead
<1> DEFINE reading == Reading(watcher, host, drift, lost)
<1>2. complete => reading = Reading(watcher, host, drift, {})
  BY <1>1
<1> HIDE DEF reading
<1>3. /\ Baseline(reading) \/ Compares(reading)
      /\ seen' = reading /\ before' = host /\ whole' = complete
      /\ UNCHANGED <<watcher, host, drift>>
  BY <1>1 DEF Tick, reading
<1>4. Baseline(seen') \/ Compares(seen')
  BY <1>3
<1> QED
  BY <1>1, <1>2, <1>3, <1>4

LEMMA WholeNext == WatchersTyped /\ WholeIsRead /\ [Next]_vars => WholeIsRead'
<1> SUFFICES ASSUME WatchersTyped, WholeIsRead, [Next]_vars PROVE WholeIsRead'
  OBVIOUS
<1>1. CASE WatcherTick \/ WatcherTickBlind
  <2>1. /\ UNCHANGED <<watcher, host, drift>> /\ before' = host
        /\ whole' \in BOOLEAN
        /\ whole' => seen' = Reading(watcher, host, drift, {}) /\ Listed(watcher, host)
    BY <1>1, TickIsWhole
  <2>2. host \in [Places -> 0 .. 3]
    BY DEF WatchersTyped
  <2>3. whole' => seen' = Reading(watcher', before', drift', {}) /\ Listed(watcher', before')
    BY <2>1
  <2> QED
    BY <2>1, <2>2, <2>3 DEF WholeIsRead
<1>2. CASE HostChanges
  <2>1. UNCHANGED <<watcher, drift, seen, before, whole>>
    BY <1>2 DEF HostChanges
  <2> QED
    BY <2>1 DEF WholeIsRead, HasBaseline
<1>3. CASE ClockIsSet
  <2>1. before' = before /\ whole' = FALSE
    BY <1>3 DEF ClockIsSet
  <2> QED
    BY <2>1 DEF WholeIsRead
<1>4. CASE WatcherRestarts
  <2>1. before' = before /\ whole' = FALSE
    BY <1>4 DEF WatcherRestarts
  <2> QED
    BY <2>1 DEF WholeIsRead
<1>5. CASE UNCHANGED watcherVars
  <2>1. UNCHANGED <<watcher, drift, seen, before, whole>>
    BY <1>5 DEF watcherVars
  <2> QED
    BY <2>1 DEF WholeIsRead, HasBaseline
<1> QED
  BY <1>1, <1>2, <1>3, <1>4, <1>5 DEF Next, WatchersNext, vars

Alarmed ==
    whole /\ whole' /\ seen # NoBaseline =>
        \A k \in reported' : \E p \in PlacesOf(watcher, k) : before[p] # before'[p]

LEMMA AlarmsOfAStep == WatchersTyped /\ WholeIsRead /\ [Next]_vars => [Alarmed]_watcherVars
<1> SUFFICES ASSUME WatchersTyped, WholeIsRead, [Next]_vars,
                    whole, whole', seen # NoBaseline, watcherVars' # watcherVars,
                    NEW k \in reported'
             PROVE  \E p \in PlacesOf(watcher, k) : before[p] # before'[p]
  BY DEF Alarmed
<1>1. CASE WatcherTick \/ WatcherTickBlind
  <2>1. /\ Baseline(seen') \/ Compares(seen')
        /\ before' = host
        /\ seen' = Reading(watcher, host, drift, {}) /\ Listed(watcher, host)
    BY <1>1, TickIsWhole
  <2>2. seen = Reading(watcher, before, drift, {}) /\ Listed(watcher, before)
    BY DEF WholeIsRead, HasBaseline
  <2>3. Compares(seen')
    BY <2>1 DEF Baseline, HasBaseline
  <2>4. reported' \in Reports(watcher, seen, seen')
    BY <2>3 DEF Compares
  <2>5. watcher \in WatcherNames
    BY <1>1 DEF WatchersTyped, WatcherTick, WatcherTickBlind
  <2>6. k \in Differences(seen, seen')
    BY <2>4, <2>5, ReportsAreDifferences
  <2>7. k \in Differences(Reading(watcher, before, drift, {}), Reading(watcher, host, drift, {}))
    BY <2>1, <2>2, <2>6
  <2>8. DOMAIN before = Places /\ DOMAIN host = Places
    BY DEF WholeIsRead, WatchersTyped
  <2>9. ~ \A p \in PlacesOf(watcher, k) : before[p] = host[p]
    BY <2>1, <2>2, <2>5, <2>7, <2>8, SamePlaces
  <2> QED
    BY <2>1, <2>9
<1>2. CASE HostChanges \/ ClockIsSet \/ WatcherRestarts
  <2>1. reported' = {}
    BY <1>2 DEF HostChanges, ClockIsSet, WatcherRestarts
  <2> QED
    BY <2>1
<1> QED
  BY <1>1, <1>2 DEF Next, WatchersNext, vars

(* An event is about something that changed: whatever order a listing has,   *)
(* whatever shares a key or a limit with it, a key is reported between two   *)
(* complete readings only if one of its places is not as it was.             *)
THEOREM AlarmsHaveACause == Spec => AlarmsAreTrue
<1>1. Safe => [][Alarmed]_watcherVars
  BY WatchersTypedInit, WatchersTypedNext, WholeInit, WholeNext, AlarmsOfAStep, PTL DEF Safe
<1> QED
  BY <1>1, SpecIsSafe, PTL DEF AlarmsAreTrue, Alarmed
=============================================================================
