------------------------------ MODULE Monitors ------------------------------
(***************************************************************************)
(* The monitors of the agent (spawn_obs_tasks, spawn_sec_tasks,            *)
(* spawn_linux_tasks, spawn_win_tasks).  Each is a task of its own that    *)
(* shares no state with the others, and a tick is never interrupted        *)
(* between what it reads and what it remembers of it, so all there is to   *)
(* know of them together is known of each: a behaviour runs one of them,   *)
(* from every state of the host, and an exception of a collector is a      *)
(* reading with nothing in it.                                             *)
(***************************************************************************)
EXTENDS ChangeWatchers, LogWatchers, LevelWatchers

vars == <<watcherVars, logVars, levelVars>>

Init ==
    /\ WatchersInit
    /\ LogsInit
    /\ LevelsInit
    /\ Cardinality({t \in {<<"watcher", watcher>>, <<"loop", loop>>, <<"engine", engine>>} :
                        t[2] # "off"}) = 1

Next ==
    \/ WatchersNext /\ UNCHANGED <<logVars, levelVars>>
    \/ LogsNext /\ UNCHANGED <<watcherVars, levelVars>>
    \/ LevelsNext /\ UNCHANGED <<watcherVars, logVars>>

(* run_forever sleeps and ticks for as long as the agent runs.  A log is    *)
(* read in the end by a read that works; nothing obliges the host to change *)
(* or a response to raise.                                                  *)
Spec ==
    /\ Init
    /\ [][Next]_vars
    /\ WF_logVars(LogIsPolled)
    /\ WF_levelVars(DetectionTick \/ RootkitTick)
=============================================================================
