----------------------------- MODULE AgentHost ------------------------------
(***************************************************************************)
(* An agent on its host, in the three parts of it that share no variable:  *)
(* its processes, its files and its event loop.  A behaviour follows one   *)
(* of them; what an interleaving with the others could show, each shows    *)
(* alone.                                                                  *)
(***************************************************************************)
EXTENDS AgentProcess, AgentFiles, AgentLoop

VARIABLE part

vars == <<part, processVars, fileVars, loopVars>>

Init ==
    /\ part \in {"processes", "files", "loop"}
    /\ ProcessesInit /\ FilesInit /\ LoopInit
    /\ part # "processes" => \A p \in Procs : args[p] = "plain"
    /\ part # "files" => disk = Absent /\ dirs = NoDirs

Next ==
    /\ UNCHANGED part
    /\ \/ part = "processes" /\ ProcessesNext /\ UNCHANGED <<fileVars, loopVars>>
       \/ part = "files" /\ FilesNext /\ UNCHANGED <<processVars, loopVars>>
       \/ part = "loop" /\ LoopNext /\ UNCHANGED <<processVars, fileVars>>

(* A process that has begun to start, or to restart, gets on with it.  The *)
(* loop runs what is ready in turn: a tool returns, a send goes out or     *)
(* fails, the session of a failed send ends, and an agent without a        *)
(* session connects, with max_retries negative as by default, to a server  *)
(* that lets it in.                                                        *)
Fairness ==
    /\ \A p \in Procs : WF_processVars(Goes(p))
    /\ WF_loopVars(part = "loop" /\ Connects)
    /\ WF_loopVars(part = "loop" /\ IsAuthenticated)
    /\ WF_loopVars(part = "loop" /\ ForwarderTakes)
    /\ WF_loopVars(part = "loop" /\ (ForwarderSends \/ ForwarderFails))
    /\ WF_loopVars(part = "loop" /\ SessionIsClosed)
    /\ \A t \in Tasks : WF_loopVars(part = "loop" /\ Finishes(t))

Spec == Init /\ [][Next]_vars /\ Fairness
=============================================================================
