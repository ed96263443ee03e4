----------------------------- MODULE LogWatchers -----------------------------
(***************************************************************************)
(* The loops that poll a log and report the lines they had not seen:       *)
(* AuthAuditLoop (sec_monitors.py), AuditdWatcher (linux_monitors.py),     *)
(* EventLogWatcher and SysmonWatcher (win_monitors.py).                    *)
(*                                                                         *)
(* They share a pattern, the first tick takes what is there as known, and  *)
(* differ in what makes it right or wrong: which end of the log a limited  *)
(* read returns, whether "seen" is the last reading or everything so far,  *)
(* what happens when it grows too large and when a read fails.             *)
(***************************************************************************)
EXTENDS Collectors

CONSTANTS
    Logs,       \* the loops an instance starts
    Channels,   \* the Windows event channels, 1..n in the order they are read
    Most,       \* max_events_per_tick, max_entries
    SeenMax,    \* keys kept before half of them are dropped (8000)
    MaxLine,    \* bound: lines written to the log
    MaxBlind    \* bound: reads that fail

ASSUME LogsAssumption ==
    /\ Logs \subseteq {"auth", "auth_windows", "audit", "audit_tail", "eventlog", "sysmon"}
    /\ Channels # {}
    /\ Most \in Nat \ {0}
    /\ {MaxLine, MaxBlind, SeenMax} \subseteq Nat

VARIABLES
    loop,       \* which one runs, "off" for none
    log,        \* the lines, each [channel, plain]; plain lines are no event:
                \* they match no pattern, or have an ignored event id
    expired,    \* lines too old for "recent"
    installed,  \* Sysmon is there
    known,      \* _seen, positions of lines
    primed,
    blinds,
    \* history
    old,        \* lines that were in the log at the first tick
    times,      \* how often each line was reported, at most twice counted
    dropped,    \* the loop once dropped half of what it had seen
    lapse       \* a read failed

logVars == <<loop, log, expired, installed, known, primed, blinds, old, times,
             dropped, lapse>>

Positions == 1..MaxLine
Lines == DOMAIN log
Of(c) == {l \in Lines : log[l].channel = c}
Telling == {l \in Lines : ~log[l].plain}
Multichannel == loop = "eventlog"

LogsInit ==
    /\ loop \in Logs \cup {"off"}
    /\ log = <<>>
    /\ expired = 0
    /\ installed \in IF loop = "sysmon" THEN BOOLEAN ELSE {FALSE}
    /\ known = {}
    /\ primed = FALSE
    /\ blinds = 0
    /\ old = {}
    /\ times = [l \in Positions |-> 0]
    /\ dropped = FALSE
    /\ lapse = FALSE

-----------------------------------------------------------------------------
(* A line is written. *)
LineIsWritten ==
    /\ loop # "off"
    /\ Len(log) < MaxLine
    /\ \E c \in IF Multichannel THEN Channels ELSE {1} : \E plain \in BOOLEAN :
            /\ plain => loop \in {"auth", "auth_windows", "eventlog"}
            /\ log' = Append(log, [channel |-> c, plain |-> plain])
    /\ UNCHANGED <<loop, expired, installed, known, primed, blinds, old, times, dropped, lapse>>

(* Time passes: the oldest recent line is recent no more. *)
LineExpires ==
    /\ loop = "audit"
    /\ expired < Len(log)
    /\ expired' = expired + 1
    /\ UNCHANGED <<loop, log, installed, known, primed, blinds, old, times, dropped, lapse>>

SysmonIsInstalled ==
    /\ loop = "sysmon"
    /\ ~installed
    /\ installed' = TRUE
    /\ UNCHANGED <<loop, log, expired, known, primed, blinds, old, times, dropped, lapse>>

-----------------------------------------------------------------------------
(* A tick ends with the lines "fresh" reported and "seen" as what is known. *)
Reported(fresh, seen) ==
    /\ times' = [l \in Positions |-> IF l \in fresh /\ times[l] < 2 THEN times[l] + 1
                                                                  ELSE times[l]]
    /\ known' = seen
    /\ primed' = TRUE
    /\ old' = IF primed THEN old ELSE Lines
    /\ UNCHANGED <<loop, log, expired, installed>>

(* The set is cut to half when it is too large; a set has no order, so the  *)
(* half that is kept is any.                                                *)
Trimmed(seen) ==
    IF Cardinality(seen) > SeenMax THEN kSubset(SeenMax \div 2, seen) ELSE {seen}

NotesTrim(seen) == dropped' = (dropped \/ Cardinality(seen) > SeenMax)

(* What is known is what the last reading had, nothing after a failed one. *)
AuthAuditTick(entries) ==
    /\ Reported(IF primed THEN entries \ known ELSE {}, entries)
    /\ UNCHANGED dropped

AuditdTick(entries) ==
    LET fresh == entries \ known
    IN /\ \E kept \in Trimmed(known \cup fresh) : Reported(IF primed THEN fresh ELSE {}, kept)
       /\ NotesTrim(known \cup fresh)

(* Variant: the seen set is saved after the loop, which the return skips. *)
EventLogTickUnsaved(entries) ==
    LET fresh == entries \ known
        told == fresh \cap Telling
    IN IF primed /\ Cardinality(told) >= Most
       THEN Reported({Min(told)}, known) /\ UNCHANGED dropped
       ELSE Reported(IF primed THEN told ELSE {}, known \cup fresh) /\ UNCHANGED dropped


(* The channels one after the other, each newest first. *)
ReadUpTo(l, S) ==
    {m \in S : \/ log[m].channel < log[l].channel
               \/ log[m].channel = log[l].channel /\ m >= l}

(* At the line that makes the maximum the tick returns: the rest of its     *)
(* channel and the channels after it wait, and nothing is trimmed.  Ignored *)
(* events are known from then on but not counted.                           *)
EventLogTick(entries) ==
    LET fresh == entries \ known
        told == fresh \cap Telling
        full == {l \in told : primed /\ Cardinality(ReadUpTo(l, told)) = Most}
    IN \/ /\ \E l \in full : Reported(ReadUpTo(l, told), known \cup ReadUpTo(l, fresh))
          /\ UNCHANGED dropped
       \/ /\ full = {}
          /\ \E kept \in Trimmed(known \cup fresh) :
                Reported(IF primed THEN told ELSE {}, kept)
          /\ NotesTrim(known \cup fresh)

(* Variant: the first tick only notes that it was there. *)
SysmonTickForgetful(snap) ==
    /\ snap.installed
    /\ LET fresh == snap.entries \ known
       IN Reported(IF primed THEN fresh ELSE {}, IF primed THEN known \cup fresh ELSE known)
    /\ UNCHANGED dropped

(* Idle, and not primed, while Sysmon is not there; nothing is ever dropped. *)
SysmonTick(snap) ==
    /\ snap.installed
    /\ LET fresh == snap.entries \ known
       IN Reported(IF primed THEN fresh ELSE {}, known \cup fresh)
    /\ UNCHANGED dropped

EventLogEntries(channels) == UNION {windows_event_log(Most, Of(c)) : c \in channels}

(* One round of run_forever; "readable": the channels whose read works. *)
LogTick(readable) ==
    \/ /\ loop \in {"auth", "auth_windows"}
       /\ AuthAuditTick(IF readable = {} THEN {}
                        ELSE auth_audit(IF loop = "auth" THEN "Linux" ELSE "Windows",
                                        Most, Lines, Telling))
    \/ /\ loop \in {"audit", "audit_tail"}
       /\ AuditdTick(IF readable = {} THEN {}
                     ELSE linux_auditd(Most, Lines, (expired + 1)..Len(log), loop = "audit"))
    \/ /\ loop = "eventlog"
       /\ EventLogTick(EventLogEntries(readable))
    \/ /\ loop = "sysmon"
       /\ SysmonTick(IF readable = {} THEN [installed |-> installed, entries |-> {}]
                     ELSE windows_sysmon(Most, Lines, installed))

LogIsPolled == LogTick(Channels) /\ UNCHANGED <<blinds, lapse>>

(* A read fails: one channel, or the one command that reads the log. *)
LogIsPolledBlind ==
    /\ blinds < MaxBlind
    /\ blinds' = blinds + 1
    /\ lapse' = TRUE
    /\ \E c \in IF Multichannel THEN Channels ELSE {1} :
            LogTick(IF Multichannel THEN Channels \ {c} ELSE {})

LogsNext ==
    LineIsWritten \/ LineExpires \/ SysmonIsInstalled \/ LogIsPolled \/ LogIsPolledBlind
-----------------------------------------------------------------------------
Newest(c) == LastOf(Most, Of(c))

(* No line is reported twice, unless the loop had dropped half of what it   *)
(* knew, which may be lines that are still read, or AuthAuditLoop, which    *)
(* knows the last reading only, had a reading that failed.                  *)
ReportedOnce ==
    \A l \in Lines : times[l] > 1 => dropped \/ (loop \in {"auth", "auth_windows"} /\ lapse)

(* The loops that read the newest lines first never report, as new, a line  *)
(* that was in the log when they started, as long as no read fails: what    *)
(* the first tick did not read is never read later.                         *)
NewestFirstIsNews ==
    loop \in {"auth_windows", "eventlog", "sysmon"} /\ ~lapse /\ ~dropped =>
        \A l \in old : times[l] = 0

(* A line written after the first tick that stays among the newest of its        *)
(* channel is reported in the end, also when earlier channels keep a tick   *)
(* full.                                                                    *)
Waits(l) ==
    /\ loop \in {"eventlog", "sysmon"} /\ primed
    /\ l \in Telling \ old
    /\ l \in Newest(log[l].channel)
    /\ times[l] = 0
=============================================================================
