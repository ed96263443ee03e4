----------------------------- MODULE AgentLoop ------------------------------
(***************************************************************************)
(* The event loop of the agent: the session, its forwarder of detections,  *)
(* the commands it runs and the tools of the scheduler are tasks of one    *)
(* thread (run_forever, client_session, AgentScheduler).                   *)
(*                                                                         *)
(* A tool that execute_tool calls directly holds the thread until it       *)
(* returns; one it hands to asyncio.to_thread does not.  The other users   *)
(* of the socket's lock (heartbeats, acks, responses) only delay the       *)
(* forwarder; time itself is not modelled.                                 *)
(***************************************************************************)
EXTENDS CommandPolicy, Sequences

CONSTANTS
    QueueSize,      \* maxsize of priority_queue
    Policies,       \* local policies of the configuration
    MaxDetection,   \* detections emitted (bound)
    MaxRun,         \* tools run (bound)
    MaxFault        \* sends that fail and sessions that end for another reason (bound)

Tasks == {"command", "scheduler"}

VARIABLES
    link,        \* "off", "open" before auth_ack, "authed"
    forwarder,   \* "none", "alive", "dead" after a send that failed
    queue,       \* priority_queue: numbers of detections
    hand,        \* what the forwarder is sending: <<>> or <<number>>
    run,         \* [Tasks -> the kind of the tool it waits for, or "none"]
    detections, runs, faults,
    \* history
    wire,        \* detections the forwarder sent over the WebSocket
    overflows    \* detections that found the queue full

loopVars == <<link, forwarder, queue, hand, run, detections, runs, faults, wire, overflows>>
sessionVars == <<link, forwarder>>

LoopInit ==
    /\ link = "off" /\ forwarder = "none"
    /\ queue = <<>> /\ hand = <<>> /\ wire = <<>>
    /\ run = [t \in Tasks |-> "none"]
    /\ detections = 0 /\ runs = 0 /\ faults = 0 /\ overflows = 0

Blocked == \E t \in Tasks : run[t] = "blocking"

-----------------------------------------------------------------------------
(* Detections *)

(* _telemetry_sink: every event enters the buffer, one that passes          *)
(* is_control_plane_event the queue too, if it has room.                    *)
Emits ==
    /\ ~Blocked /\ detections < MaxDetection
    /\ detections' = detections + 1
    /\ IF Len(queue) < QueueSize
       THEN queue' = Append(queue, detections') /\ UNCHANGED overflows
       ELSE overflows' = overflows + 1 /\ UNCHANGED queue
    /\ UNCHANGED <<sessionVars, hand, run, runs, faults, wire>>

(* _forward_priority_events waits for the authentication and then takes one *)
(* event after the other.                                                   *)
ForwarderTakes ==
    /\ ~Blocked /\ link = "authed" /\ forwarder = "alive"
    /\ hand = <<>> /\ queue # <<>>
    /\ hand' = <<Head(queue)>>
    /\ queue' = Tail(queue)
    /\ UNCHANGED <<sessionVars, run, detections, runs, faults, wire, overflows>>

ForwarderSends ==
    /\ ~Blocked /\ hand # <<>>
    /\ wire' = wire \o hand
    /\ hand' = <<>>
    /\ UNCHANGED <<sessionVars, queue, run, detections, runs, faults, overflows>>

(* Variant: what could not be sent is queued again. *)
ForwarderPutsBack ==
    /\ ~Blocked /\ hand # <<>> /\ faults < MaxFault
    /\ faults' = faults + 1
    /\ hand' = <<>>
    /\ queue' = queue \o hand
    /\ UNCHANGED <<sessionVars, run, detections, runs, wire, overflows>>

(* A send that raises ends the task, and no other takes its place before    *)
(* the next session.                                                        *)
ForwarderFails ==
    /\ ~Blocked /\ hand # <<>> /\ faults < MaxFault
    /\ faults' = faults + 1
    /\ hand' = <<>>
    /\ forwarder' = "dead"
    /\ UNCHANGED <<link, queue, run, detections, runs, wire, overflows>>

-----------------------------------------------------------------------------
(* The session *)

(* Variant: only the first session has a forwarder. *)
ConnectsWithoutForwarder ==
    /\ ~Blocked /\ link = "off"
    /\ link' = "open"
    /\ forwarder' = IF faults = 0 THEN "alive" ELSE "none"
    /\ UNCHANGED <<queue, hand, run, detections, runs, faults, wire, overflows>>

Connects ==
    /\ ~Blocked /\ link = "off"
    /\ link' = "open" /\ forwarder' = "alive"
    /\ UNCHANGED <<queue, hand, run, detections, runs, faults, wire, overflows>>

(* auth_ack *)
IsAuthenticated ==
    /\ ~Blocked /\ link = "open"
    /\ link' = "authed"
    /\ UNCHANGED <<forwarder, queue, hand, run, detections, runs, faults, wire, overflows>>

(* The loop over the socket ends, which it finds out between two commands;  *)
(* the forwarder is cancelled.                                              *)
SessionEndsNow ==
    /\ ~Blocked /\ link # "off" /\ run["command"] = "none"
    /\ link' = "off" /\ forwarder' = "none"
    /\ hand' = <<>>
    /\ UNCHANGED <<queue, run, detections, runs, wire, overflows>>

SessionBreaks == SessionEndsNow /\ faults < MaxFault /\ faults' = faults + 1

(* The socket a send failed on is closed. *)
SessionIsClosed == SessionEndsNow /\ forwarder = "dead" /\ UNCHANGED faults

-----------------------------------------------------------------------------
(* Tools *)

(* A command of the session, or an item of the scheduler, that the policy   *)
(* of the session, or of the start, allows: at most one of each at a time.  *)
Starts(t) ==
    /\ ~Blocked /\ run[t] = "none" /\ runs < MaxRun
    /\ t = "command" => link = "authed"
    /\ \E policy \in Policies, tool \in Tools :
        Allows(policy, tool) /\ run' = [run EXCEPT ![t] = Kind(tool)]
    /\ runs' = runs + 1
    /\ UNCHANGED <<sessionVars, queue, hand, detections, faults, wire, overflows>>

(* The tool returns or raises; or wait_for gives a threaded one up.  A      *)
(* blocking one that is late is answered with its result: it holds the      *)
(* thread the timer of wait_for needs.                                      *)
Finishes(t) ==
    /\ run[t] # "none"
    /\ run[t] = "threaded" => ~Blocked
    /\ run' = [run EXCEPT ![t] = "none"]
    /\ UNCHANGED <<sessionVars, queue, hand, detections, runs, faults, wire, overflows>>

-----------------------------------------------------------------------------
LoopNext ==
    \/ Emits \/ ForwarderTakes \/ ForwarderSends \/ ForwarderFails
    \/ Connects \/ IsAuthenticated \/ SessionBreaks \/ SessionIsClosed
    \/ \E t \in Tasks : Starts(t) \/ Finishes(t)

-----------------------------------------------------------------------------
(* The forwarder sends detections in the order they were emitted and none   *)
(* twice, across sessions; a send that fails or a session that ends costs   *)
(* at most the one in hand, a full queue the one that finds it full.        *)
OneLossPerFault ==
    LET out == wire \o hand \o queue IN
    /\ \A i \in 1 .. Len(out) - 1 : out[i] < out[i + 1]
    /\ detections - Len(out) <= overflows + faults

(* No detection stays in the queue for ever, though a failed send leaves    *)
(* its session without a forwarder and tools hold the thread: it is sent,   *)
(* or lost with the fault of a send or of a session.                        *)
Waits(n) == n \in {queue[i] : i \in 1 .. Len(queue)} \cup {hand[i] : i \in 1 .. Len(hand)}
DetectionsLeave == \A n \in 1 .. MaxDetection : Waits(n) ~> ~Waits(n)
=============================================================================
