-------------------------- MODULE CommandContract ---------------------------
(***************************************************************************)
(* What the control plane promises about a command, whatever happens to    *)
(* connections and processes: the agent decides on a command at most once  *)
(* per life of its process and never takes on one whose TTL has passed,    *)
(* and the server claims nothing that did not happen.  Queues, sessions    *)
(* and frames are absent.                                                  *)
(***************************************************************************)
EXTENDS Naturals

CONSTANT Cmd

VARIABLES
    issued,    \* commands that were issued
    lapsed,    \* commands whose TTL has passed
    decided,   \* commands this process of the agent has decided on
    current,   \* the command it has taken on and not started, as a set
    taken,     \* commands some process of the agent took on
    refused,   \* commands some process of the agent refused
    runs,      \* how often each command was started
    claim      \* the state of each command as the server reports it

vars == <<issued, lapsed, decided, current, taken, refused, runs, claim>>

(* What must have happened for the server to report a state. *)
Backed(m, st) ==
    CASE st \in {"absent", "pending", "sent"} -> TRUE
      [] st = "acked" -> m \in taken
      [] st \in {"running", "completed", "failed"} -> runs[m] > 0
      [] st = "rejected" -> m \in refused
      [] st = "expired" -> m \in lapsed

State == {"absent", "pending", "sent", "acked", "running", "completed", "failed",
          "rejected", "expired"}

Init ==
    /\ issued = {} /\ lapsed = {}
    /\ decided = {} /\ current = {} /\ taken = {} /\ refused = {}
    /\ runs = [m \in Cmd |-> 0]
    /\ claim = [m \in Cmd |-> "absent"]

Issue(m) ==
    /\ m \notin issued
    /\ issued' = issued \cup {m}
    /\ claim' = [claim EXCEPT ![m] = "pending"]
    /\ UNCHANGED <<lapsed, decided, current, taken, refused, runs>>

Lapse(m) ==
    /\ m \in issued
    /\ lapsed' = lapsed \cup {m}
    /\ UNCHANGED <<issued, decided, current, taken, refused, runs, claim>>

Decide(m) ==
    /\ m \in issued \ decided
    /\ current = {}
    /\ decided' = decided \cup {m}
    /\ UNCHANGED <<issued, lapsed, runs, claim>>

TakeOn(m) ==
    /\ Decide(m)
    /\ m \notin lapsed
    /\ current' = {m}
    /\ taken' = taken \cup {m}
    /\ UNCHANGED refused

Refuse(m) ==
    /\ Decide(m)
    /\ refused' = refused \cup {m}
    /\ UNCHANGED <<current, taken>>

(* The command has expired, or the agent cannot answer. *)
Discard(m) ==
    /\ Decide(m)
    /\ UNCHANGED <<current, taken, refused>>

Start(m) ==
    /\ m \in current
    /\ current' = {}
    /\ runs' = [runs EXCEPT ![m] = @ + 1]
    /\ UNCHANGED <<issued, lapsed, decided, taken, refused, claim>>

GiveUp ==
    /\ current' = {}
    /\ UNCHANGED <<issued, lapsed, decided, taken, refused, runs, claim>>

AgentReboots ==
    /\ decided' = {}
    /\ current' = {}
    /\ UNCHANGED <<issued, lapsed, taken, refused, runs, claim>>

(* The server learns, forgets or reloads: it may say anything that is true. *)
Report ==
    /\ claim' \in [Cmd -> State]
    /\ \A m \in Cmd : claim'[m] # claim[m] => Backed(m, claim'[m])
    /\ UNCHANGED <<issued, lapsed, decided, current, taken, refused, runs>>

Next ==
    \/ \E m \in Cmd : Issue(m) \/ Lapse(m) \/ TakeOn(m) \/ Refuse(m) \/ Discard(m)
                      \/ Start(m)
    \/ GiveUp
    \/ AgentReboots
    \/ Report

Spec == Init /\ [][Next]_vars
=============================================================================
