---------------------------- MODULE AgentProcess ----------------------------
(***************************************************************************)
(* The processes of an agent on one host: who starts, takes the lock file, *)
(* runs sessions that append to the audit log, restarts by command, stops  *)
(* or dies (main, AgentInstanceLock, AuditLog and restart_agent).          *)
(*                                                                         *)
(* Several processes may be started for one identity: the lock is what     *)
(* should leave one of them.  A lock file is an inode: flock holds the     *)
(* inode, os.remove takes away the name.                                   *)
(***************************************************************************)
EXTENDS Integers, FiniteSets, Sequences

CONSTANTS
    Procs,        \* processes somebody may start for the identity
    Arguments,    \* what they may be started with: "plain", "token", "token_dir"
    MaxInode,     \* lock files ever created (bound)
    MaxStart,     \* starts by hand (bound)
    MaxRecord,    \* records appended to the audit log (bound)
    MaxTear,      \* writes that stop in the middle (bound)
    MaxRestart,   \* restarts by command (bound)
    None

Inodes == 1 .. MaxInode
Genesis == 0

ASSUME ProcessAssumption == MaxInode \in Nat /\ None \notin Procs \cup Inodes

VARIABLES
    stage,      \* [Procs -> where the process is]
    args,       \* [Procs -> Arguments]
    token,      \* the enrollment token of the command line: "unused" or "consumed"
    name,       \* the inode the path of the lock file names, or None
    opened,     \* [Procs -> the inode it has open, or None]
    owner,      \* [Inodes -> the process that holds flock on it, or None]
    inodes,     \* lock files created so far
    starts,     \* starts by hand so far
    audit,      \* the lines of the audit log: [whole, prev, hash]
    ended,      \* the last line of the audit log ends with a newline
    readable,   \* no torn line of it stops inside a multibyte character
    prev,       \* [Procs -> _prev_hash of its session, or None without a session]
    records,    \* records appended so far; a record's number stands for its hash
    tears,      \* writes torn so far
    asked,      \* processes whose restart is scheduled, not yet done
    restarts,   \* restarts so far
    exit,       \* [Procs -> why it ended last]
    robbed      \* ghost: a release has removed a lock file that another process had open

processVars == <<stage, args, token, name, opened, owner, inodes, starts, audit, ended, readable,
                 prev, records, tears, asked, restarts, exit, robbed>>
lockVars == <<name, opened, owner, inodes, robbed>>
auditVars == <<audit, ended, readable, prev, records, tears>>
lifeVars == <<stage, args, token, starts, asked, restarts, exit>>

Running == {p \in Procs : stage[p] = "running"}

ProcessesInit ==
    /\ stage = [p \in Procs |-> "down"]
    /\ args \in [Procs -> Arguments]
    /\ token = "unused"
    /\ name = None
    /\ opened = [p \in Procs |-> None]
    /\ owner = [i \in Inodes |-> None]
    /\ inodes = 0 /\ starts = 0
    /\ audit = <<>> /\ ended = TRUE /\ readable = TRUE
    /\ prev = [p \in Procs |-> None]
    /\ records = 0 /\ tears = 0 /\ restarts = 0
    /\ asked = {}
    /\ exit = [p \in Procs |-> "none"]
    /\ robbed = FALSE

-----------------------------------------------------------------------------
(* Starting *)

(* Before the enrollment the agent has another name, and another lock. *)
HasIdentity(p) == args[p] # "plain" \/ token = "consumed" \/ \A q \in Procs : args[q] = "plain"

StartedByHand(p) ==
    /\ stage[p] = "down" /\ starts < MaxStart
    /\ HasIdentity(p)
    /\ stage' = [stage EXCEPT ![p] = "starting"]
    /\ starts' = starts + 1
    /\ exit' = [exit EXCEPT ![p] = "none"]
    /\ UNCHANGED <<lockVars, auditVars, args, token, asked, restarts>>

(* --enroll without --enroll-dir asks for a directory that no identity has, *)
(* so the token of the command line is sent whatever was enrolled before.   *)
Enrolls(p) == args[p] = "token" \/ (args[p] = "token_dir" /\ token = "unused")

EnrollmentIsRefused(p) ==
    /\ stage[p] = "starting" /\ Enrolls(p) /\ token = "consumed"
    /\ stage' = [stage EXCEPT ![p] = "down"]
    /\ exit' = [exit EXCEPT ![p] = "refused"]
    /\ UNCHANGED <<lockVars, auditVars, args, token, starts, asked, restarts>>

(* open(path, "a+") creates the file when the path names none. *)
OpensLock(p) ==
    /\ stage[p] = "starting"
    /\ Enrolls(p) => token = "unused"
    /\ token' = IF Enrolls(p) THEN "consumed" ELSE token
    /\ \/ /\ name # None
          /\ UNCHANGED <<name, inodes>>
       \/ /\ name = None /\ inodes < MaxInode
          /\ inodes' = inodes + 1
          /\ name' = inodes'
    /\ opened' = [opened EXCEPT ![p] = name']
    /\ stage' = [stage EXCEPT ![p] = "opened"]
    /\ UNCHANGED <<owner, robbed, auditVars, args, starts, asked, restarts, exit>>

TakesLock(p) ==
    /\ stage[p] = "opened" /\ owner[opened[p]] = None
    /\ owner' = [owner EXCEPT ![opened[p]] = p]
    /\ stage' = [stage EXCEPT ![p] = "running"]
    /\ UNCHANGED <<name, opened, inodes, robbed, auditVars, args, token, starts, asked,
                   restarts, exit>>

(* LOCK_NB: the process that comes second says who runs and exits. *)
FindsLockTaken(p) ==
    /\ stage[p] = "opened" /\ owner[opened[p]] # None
    /\ opened' = [opened EXCEPT ![p] = None]
    /\ stage' = [stage EXCEPT ![p] = "down"]
    /\ exit' = [exit EXCEPT ![p] = "locked"]
    /\ UNCHANGED <<name, owner, inodes, robbed, auditVars, args, token, starts, asked, restarts>>

-----------------------------------------------------------------------------
(* Ending *)

(* The kernel drops the flock of a descriptor that is closed. *)
Unheld(p) == [i \in Inodes |-> IF owner[i] = p THEN None ELSE owner[i]]

(* run_forever returns, after a signal or with its retries used up, and     *)
(* release() unlocks and closes...                                          *)
Unlocks(p) ==
    /\ stage[p] = "running"
    /\ owner' = Unheld(p)
    /\ opened' = [opened EXCEPT ![p] = None]
    /\ prev' = [prev EXCEPT ![p] = None]
    /\ asked' = asked \ {p}
    /\ stage' = [stage EXCEPT ![p] = "unlocked"]
    /\ exit' = [exit EXCEPT ![p] = "stopped"]
    /\ UNCHANGED <<name, inodes, robbed, audit, ended, readable, records, tears, args, token,
                   starts, restarts>>

(* ...and then removes whatever the path names by now. *)
Removes(p) ==
    /\ stage[p] = "unlocked"
    /\ robbed' = (robbed \/ \E q \in Procs : opened[q] # None /\ opened[q] = name)
    /\ name' = None
    /\ stage' = [stage EXCEPT ![p] = "down"]
    /\ UNCHANGED <<opened, owner, inodes, auditVars, args, token, starts, asked, restarts, exit>>

(* A kill, or the second signal, which leaves by os._exit: no release. *)
Dies(p) ==
    /\ stage[p] # "down"
    /\ owner' = Unheld(p)
    /\ opened' = [opened EXCEPT ![p] = None]
    /\ prev' = [prev EXCEPT ![p] = None]
    /\ asked' = asked \ {p}
    /\ stage' = [stage EXCEPT ![p] = "down"]
    /\ exit' = [exit EXCEPT ![p] = "died"]
    /\ UNCHANGED <<name, inodes, robbed, audit, ended, readable, records, tears, args, token,
                   starts, restarts>>

(* Variant: the new image inherits the descriptor of the lock. *)
ReExecsHolding(p) ==
    /\ stage[p] = "running" /\ p \in asked
    /\ asked' = asked \ {p}
    /\ opened' = [opened EXCEPT ![p] = None]
    /\ prev' = [prev EXCEPT ![p] = None]
    /\ stage' = [stage EXCEPT ![p] = "starting"]
    /\ exit' = [exit EXCEPT ![p] = "restarted"]
    /\ UNCHANGED <<name, owner, inodes, robbed, audit, ended, readable, records, tears, args, token,
                   starts, restarts>>

(* schedule_agent_restart: execv in the same process with the same          *)
(* arguments, without release(); the descriptor of the lock is closed.      *)
ReExecs(p) ==
    /\ stage[p] = "running" /\ p \in asked
    /\ asked' = asked \ {p}
    /\ owner' = Unheld(p)
    /\ opened' = [opened EXCEPT ![p] = None]
    /\ prev' = [prev EXCEPT ![p] = None]
    /\ stage' = [stage EXCEPT ![p] = "starting"]
    /\ exit' = [exit EXCEPT ![p] = "restarted"]
    /\ UNCHANGED <<name, inodes, robbed, audit, ended, readable, records, tears, args, token,
                   starts, restarts>>

-----------------------------------------------------------------------------
(* Sessions and the audit log *)

(* Variant: the first line of the log is taken for its end. *)
TailHashOfFirst == IF audit = <<>> \/ ~audit[1].whole THEN Genesis ELSE audit[1].hash

(* _load_tail_hash: the last line, or the start of a chain when there is    *)
(* none or it is no JSON.                                                   *)
TailHash ==
    IF audit = <<>> \/ ~audit[Len(audit)].whole THEN Genesis ELSE audit[Len(audit)].hash

(* client_session opens the log anew, at every reconnection.  Bytes that    *)
(* are no UTF-8 raise outside of the try of _load_tail_hash, and every      *)
(* session ends there before it connects.                                   *)
SessionOpens(p) ==
    /\ stage[p] = "running" /\ prev[p] = None
    /\ readable
    /\ prev' = [prev EXCEPT ![p] = TailHash]
    /\ UNCHANGED <<lifeVars, lockVars, audit, ended, readable, records, tears>>

SessionCloses(p) ==
    /\ prev[p] # None
    /\ prev' = [prev EXCEPT ![p] = None]
    /\ UNCHANGED <<lifeVars, lockVars, audit, ended, readable, records, tears>>

Garbage == [whole |-> FALSE, prev |-> None, hash |-> None]
RecordOf(p) == [whole |-> TRUE, prev |-> prev[p], hash |-> records + 1]

(* What a write leaves: after a line without its end, the text is glued to  *)
(* that line and the two are unreadable.                                    *)
Written(line) == IF ended THEN Append(audit, line) ELSE [audit EXCEPT ![Len(audit)] = Garbage]

(* A command is refused or has run: its record is appended and synced.  The *)
(* command restart_agent schedules the restart after its answer.            *)
Appends(p) ==
    /\ prev[p] # None /\ records < MaxRecord
    /\ audit' = Written(RecordOf(p))
    /\ ended' = TRUE
    /\ records' = records + 1
    /\ prev' = [prev EXCEPT ![p] = records']
    /\ \/ UNCHANGED <<asked, restarts>>
       \/ /\ restarts < MaxRestart
          /\ restarts' = restarts + 1
          /\ asked' = asked \cup {p}
    /\ UNCHANGED <<stage, args, token, starts, exit, lockVars, readable, tears>>

(* The disk is full in the middle of the line, or just before its newline:  *)
(* append raises, nothing catches it and the session ends.                  *)
AppendFails(p) ==
    /\ prev[p] # None /\ records < MaxRecord /\ tears < MaxTear
    /\ \E line \in {Garbage, RecordOf(p)} :
        /\ audit' = Written(line)
        /\ \/ UNCHANGED readable
           \/ line = Garbage /\ readable' = FALSE
    /\ ended' = FALSE
    /\ records' = records + 1
    /\ tears' = tears + 1
    /\ prev' = [prev EXCEPT ![p] = None]
    /\ UNCHANGED <<lifeVars, lockVars>>

-----------------------------------------------------------------------------
Goes(p) ==
    \/ EnrollmentIsRefused(p) \/ OpensLock(p) \/ TakesLock(p) \/ FindsLockTaken(p)
    \/ ReExecs(p)

ProcessesNext == \E p \in Procs :
    \/ Goes(p)
    \/ StartedByHand(p)
    \/ Unlocks(p) \/ Removes(p) \/ Dies(p)
    \/ SessionOpens(p) \/ SessionCloses(p) \/ Appends(p) \/ AppendFails(p)

-----------------------------------------------------------------------------
ChainLinks ==
    \A i \in 1 .. Len(audit) :
        audit[i].whole /\ (i > 1 => audit[i - 1].whole) =>
            audit[i].prev = IF i = 1 THEN Genesis ELSE audit[i - 1].hash

(* "Evita dos agentes con el mismo agent_id en paralelo" and "alterar       *)
(* cualquier entrada invalida todos los hashes posteriores": as long as no  *)
(* release has removed a lock file that another process had open, one agent *)
(* runs, and every two whole lines that follow each other in its audit log  *)
(* are links of one chain, whatever sessions, restarts, kills and torn      *)
(* writes came between them.  A break means a line that cannot be read.     *)
OneWriterOneChain == ~robbed => Cardinality(Running) <= 1 /\ ChainLinks

(* "Agente se reiniciará": a process whose restart was asked for runs again *)
(* in the end, or was stopped, or found another agent in its place, or was  *)
(* started with an enrollment token, which its own arguments send again.    *)
RestartComesBack == \A p \in Procs :
    (p \in asked) ~> \/ stage[p] = "running" /\ p \notin asked
                     \/ exit[p] \in {"stopped", "died"}
                     \/ exit[p] = "locked" /\ Running \ {p} # {}
                     \/ exit[p] = "refused" /\ args[p] = "token"
=============================================================================
