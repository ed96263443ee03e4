---------------------------- MODULE CommandQueue ----------------------------
(***************************************************************************)
(* The command queue of the control server (server/command_queue.py): one  *)
(* record per command, held in memory and mirrored in one JSON file per    *)
(* command.  The module gives the state and the operations; the processes  *)
(* that call them are in ControlPlane.                                     *)
(*                                                                         *)
(* A record is reduced to its "state" field.  message_id is the number of  *)
(* the command: ids are handed out in the order of "issued_at", which is   *)
(* the order list_for_agent sorts by.  Only the records of one agent_id    *)
(* are modelled: the queue never relates the records of two agents.        *)
(*                                                                         *)
(* An operator introduced as "Variant" is no part of the model: it is a    *)
(* plausible mistake in the definition after it, which the properties of   *)
(* ControlPlaneProperties are shown to notice.                             *)
(***************************************************************************)
EXTENDS Naturals, FiniteSets

CONSTANTS
    MaxCmd,       \* bound: commands issued in a behaviour
    DiskMayFail   \* TRUE: a write of a record file may fail (_persist)

ASSUME MaxCmdAssumption == MaxCmd \in Nat \ {0}
ASSUME DiskAssumption == DiskMayFail \in BOOLEAN

Cmd == 1..MaxCmd

Terminal == {"completed", "failed", "expired", "rejected"}
CmdState == {"pending", "sent", "acked", "running"} \cup Terminal

VARIABLES
    records,   \* _records: the state of each command, "absent" before enqueue
    disk,      \* the same, in the files of results_logs/queue
    late       \* the commands whose expires_at has passed

queueVars == <<records, disk, late>>

QueueTypeOK ==
    /\ records \in [Cmd -> CmdState \cup {"absent"}]
    /\ disk \in [Cmd -> CmdState \cup {"absent"}]
    /\ late \subseteq Cmd

QueueInit ==
    /\ records = [m \in Cmd |-> "absent"]
    /\ disk = [m \in Cmd |-> "absent"]
    /\ late = {}

-----------------------------------------------------------------------------
(* _persist writes a temporary file and renames it over the record's: the  *)
(* file holds the old state or the new one.  An OSError is only logged.    *)
Persist(m, st) ==
    \/ disk' = [disk EXCEPT ![m] = st]
    \/ DiskMayFail /\ disk' = disk

Enqueue(m) ==
    /\ records' = [records EXCEPT ![m] = "pending"]
    /\ Persist(m, "pending")
    /\ UNCHANGED late

(* Variant: a mark that is not written to the file. *)
MarkInMemoryOnly(m, st) ==
    /\ records' = IF records[m] = "absent" THEN records
                  ELSE [records EXCEPT ![m] = st]
    /\ UNCHANGED <<disk, late>>

(* mark looks at no state but the record's existence: whatever the record  *)
(* held is overwritten.                                                    *)
Mark(m, st) ==
    \/ /\ records[m] # "absent"
       /\ records' = [records EXCEPT ![m] = st]
       /\ Persist(m, st)
       /\ UNCHANGED late
    \/ /\ records[m] = "absent"
       /\ UNCHANGED queueVars

Expire(m) == Mark(m, "expired")

NonTerminal == {m \in Cmd : records[m] \notin Terminal \cup {"absent"}}

(* A new process reads every record file back. *)
Load ==
    /\ records' = disk
    /\ UNCHANGED <<disk, late>>

(* The clock of both ends reaches expires_at (one clock for both). *)
TTLPasses(m) ==
    /\ m \notin late
    /\ late' = late \cup {m}
    /\ UNCHANGED <<records, disk>>
=============================================================================
