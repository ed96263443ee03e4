---------------------------- MODULE ControlPlane ----------------------------
(***************************************************************************)
(* The control plane of Robin Client Monitor: the REST calls that issue    *)
(* commands, the registry of WebSocket sessions and its handlers           *)
(* (server/connection_manager.py, server/controllers.py), the connection,  *)
(* and the command handler of the agent (ws_tools_client_embedded.py).     *)
(*                                                                         *)
(* The server is one asyncio loop: code between two awaits is one step.    *)
(* An `await send_text` may suspend its task for as long as the peer's     *)
(* buffer is full; such a suspended send is an element of "sends", and     *)
(* every other task may run before it resumes (with SendsSuspend FALSE it  *)
(* resumes before any other task of the server).  One agent_id is          *)
(* modelled; the server keeps separate state for each.                     *)
(***************************************************************************)
EXTENDS CommandQueue, Sequences

CONSTANTS
    MaxSession,   \* bound: WebSocket sessions the agent opens
    MaxBoot,      \* bound: restarts of the agent process
    MaxCrash,     \* bound: restarts of the server process
    SendsSuspend, \* FALSE: every send_text finds room and returns at once
    Heartbeats,   \* TRUE: a live session's heartbeats are read within 90 s
    DedupMax,     \* _CMD_DEDUP_MAX: ids the agent remembers
    LongRunning,  \* commands in LONG_RUNNING_COMMANDS
    Refusable,    \* commands the agent's own checks may reject
    Expiring,     \* bound: commands that may live to see their expires_at
    Outcomes      \* bound: how a command may end on the agent

ASSUME ControlAssumption ==
    /\ MaxSession \in Nat \ {0}
    /\ MaxBoot \in Nat
    /\ MaxCrash \in Nat
    /\ SendsSuspend \in BOOLEAN
    /\ Heartbeats \in BOOLEAN
    /\ DedupMax \in Nat \ {0}
    /\ LongRunning \subseteq Cmd
    /\ Refusable \subseteq Cmd
    /\ Expiring \subseteq Cmd
    /\ Outcomes \subseteq {"success", "error"}

Session == 1..MaxSession
None == 0          \* no session; as the "by" of a send, a REST call

VARIABLES
    active,    \* active_connections[agent_id]: a session or None
    hand,      \* where the handler of each session stands
    todo,      \* dispatch_pending: the records a handler has still to visit
    sends,     \* the suspended send_text calls of command_requests
    caller,    \* the REST call that issued each command
    fut,       \* its future: "open" iff it is an entry of pending_requests
    link,      \* the TCP connection of each session
    down,      \* command_requests on their way to the agent
    up,        \* acknowledgements and responses on their way to the server
    cli,       \* the session client_session serves, or None
    job,       \* the command the agent is busy with
    dedup,     \* _cmd_dedup_ids, oldest first
    boots,     \* restarts of the agent so far
    crashes,   \* restarts of the server so far
    \* history, read by the properties only
    runs,      \* how often each command was started by the agent
    accepted,  \* commands the agent has acknowledged
    refused,   \* commands the agent has rejected
    evicted    \* ids that fell out of the window of the agent

serverVars == <<active, hand, todo, sends, caller, fut>>
linkVars == <<link, down, up>>
agentVars == <<cli, job, dedup>>
history == <<runs, accepted, refused, evicted>>
bounds == <<boots, crashes>>
vars == <<queueVars, serverVars, linkVars, agentVars, history, bounds>>

HandState == {"unused", "auth", "acking", "dispatch", "loop", "ended"}
CallState == {"idle", "sending", "waiting", "queued", "answered", "timeout",
              "failed"}
FrameKind == {"ack", "running", "success", "error", "rejected", "expired"}
Frame == [cmd : Cmd, kind : FrameKind]
Send == [cmd : Cmd, via : Session, by : Session \cup {None}]
Idle == [cmd |-> None, phase |-> "idle"]
Job == {Idle} \cup [cmd : Cmd, phase : {"accepted", "running"}]

TypeOK ==
    /\ QueueTypeOK
    /\ active \in Session \cup {None}
    /\ hand \in [Session -> HandState]
    /\ todo \in [Session -> SUBSET Cmd]
    /\ sends \subseteq Send
    /\ caller \in [Cmd -> CallState]
    /\ fut \in [Cmd -> {"none", "open", "set"}]
    /\ link \in [Session -> {"unused", "up", "down"}]
    /\ down \in [Session -> Seq(Cmd)]
    /\ up \in [Session -> Seq(Frame)]
    /\ cli \in Session \cup {None}
    /\ job \in Job
    /\ dedup \in Seq(Cmd)
    /\ boots \in 0..MaxBoot
    /\ crashes \in 0..MaxCrash
    /\ runs \in [Cmd -> Nat]
    /\ accepted \subseteq Cmd
    /\ refused \subseteq Cmd
    /\ evicted \subseteq Cmd

Init ==
    /\ QueueInit
    /\ active = None
    /\ hand = [s \in Session |-> "unused"]
    /\ todo = [s \in Session |-> {}]
    /\ sends = {}
    /\ caller = [m \in Cmd |-> "idle"]
    /\ fut = [m \in Cmd |-> "none"]
    /\ link = [s \in Session |-> "unused"]
    /\ down = [s \in Session |-> <<>>]
    /\ up = [s \in Session |-> <<>>]
    /\ cli = None
    /\ job = Idle
    /\ dedup = <<>>
    /\ boots = 0
    /\ crashes = 0
    /\ runs = [m \in Cmd |-> 0]
    /\ accepted = {}
    /\ refused = {}
    /\ evicted = {}

-----------------------------------------------------------------------------
(* Frames.  What is written to a broken connection is lost.                *)

ToAgent(s, m) ==
    down' = IF link[s] = "up" THEN [down EXCEPT ![s] = Append(@, m)] ELSE down

ToServer(s, m, kind) ==
    up' = IF link[s] = "up"
          THEN [up EXCEPT ![s] = Append(@, [cmd |-> m, kind |-> kind])] ELSE up

-----------------------------------------------------------------------------
(* Server: sending a command (_dispatch_record).                           *)

(* A task of the server that is not in a send may run. *)
LoopIsFree == SendsSuspend \/ sends = {}

(* Variant: a queued command is marked without being written. *)
BeginSendUnwritten(m, by) ==
    /\ sends' = sends \cup {[cmd |-> m, via |-> active, by |-> by]}
    /\ IF by = None THEN ToAgent(active, m) ELSE UNCHANGED down

(* Up to the await: the frame goes to the session registered now, whoever  *)
(* sends it.  The server's signing key is taken to load: a send that ends  *)
(* before its frame for want of it is not modelled.                        *)
BeginSend(m, by) ==
    /\ sends' = sends \cup {[cmd |-> m, via |-> active, by |-> by]}
    /\ ToAgent(active, m)

(* send_command_to_agent, from the enqueue to the first await. *)
IssueOffline(m) ==
    /\ active = None
    /\ caller' = [caller EXCEPT ![m] = "queued"]
    /\ UNCHANGED <<sends, fut, down>>

IssueOnline(m) ==
    /\ active # None
    /\ BeginSend(m, None)
    /\ fut' = [fut EXCEPT ![m] = "open"]
    /\ caller' = [caller EXCEPT ![m] = "sending"]

Issue(m) ==
    /\ LoopIsFree
    /\ caller[m] = "idle"
    /\ \A k \in 1..(m - 1) : caller[k] # "idle"
    /\ Enqueue(m)
    /\ IssueOffline(m) \/ IssueOnline(m)
    /\ UNCHANGED <<active, hand, todo, link, up, agentVars, history, bounds>>

(* The send returns: the record is marked sent, whatever it is by now, and *)
(* a REST call goes on to wait for its future.  If the response has been   *)
(* handled during the await its entry is gone: KeyError, HTTP 500.         *)
SendReturns(x) ==
    /\ x \in sends
    /\ sends' = sends \ {x}
    /\ Mark(x.cmd, "sent")
    /\ caller' = IF x.by # None THEN caller
                 ELSE [caller EXCEPT ![x.cmd] =
                          IF fut[x.cmd] = "open" THEN "waiting" ELSE "failed"]
    /\ UNCHANGED <<active, hand, todo, fut, linkVars, agentVars, history, bounds>>

(* The send raises: the record stays as it is and a REST call is told that *)
(* its command is queued.                                                  *)
SendRaises(x) ==
    /\ x \in sends
    /\ link[x.via] = "down"
    /\ sends' = sends \ {x}
    /\ IF x.by # None THEN UNCHANGED <<caller, fut>>
       ELSE /\ fut' = [fut EXCEPT ![x.cmd] = "none"]
            /\ caller' = [caller EXCEPT ![x.cmd] = "queued"]
    /\ UNCHANGED <<queueVars, active, hand, todo, linkVars, agentVars, history,
                   bounds>>

(* The REST call returns the response, or 504 when wait_for times out. *)
CallAnswered(m) ==
    /\ LoopIsFree
    /\ caller[m] = "waiting"
    /\ fut[m] = "set"
    /\ caller' = [caller EXCEPT ![m] = "answered"]
    /\ UNCHANGED <<queueVars, active, hand, todo, sends, fut, linkVars, agentVars,
                   history, bounds>>

(* Variant: the finally that removes the entry is missing. *)
CallTimesOutLeaking(m) ==
    /\ LoopIsFree
    /\ caller[m] = "waiting"
    /\ fut[m] = "open"
    /\ caller' = [caller EXCEPT ![m] = "timeout"]
    /\ UNCHANGED <<queueVars, active, hand, todo, sends, fut, linkVars, agentVars,
                   history, bounds>>

(* Variant: no time limit of its own, only the TTL of the command. *)
CallTimesOutAtTTL(m) ==
    /\ LoopIsFree
    /\ caller[m] = "waiting"
    /\ fut[m] = "open"
    /\ m \in late
    /\ caller' = [caller EXCEPT ![m] = "timeout"]
    /\ fut' = [fut EXCEPT ![m] = "none"]
    /\ UNCHANGED <<queueVars, active, hand, todo, sends, linkVars, agentVars,
                   history, bounds>>

CallTimesOut(m) ==
    /\ LoopIsFree
    /\ caller[m] = "waiting"
    /\ fut[m] = "open"
    /\ caller' = [caller EXCEPT ![m] = "timeout"]
    /\ fut' = [fut EXCEPT ![m] = "none"]
    /\ UNCHANGED <<queueVars, active, hand, todo, sends, linkVars, agentVars,
                   history, bounds>>

-----------------------------------------------------------------------------
(* Server: the handler of a session (websocket_endpoint).                  *)

(* The challenge is answered: register_connection replaces whatever socket *)
(* the agent_id had.  The handler then awaits the send of auth_ack.        *)
Register(s) ==
    /\ LoopIsFree
    /\ hand[s] = "auth"
    /\ hand' = [hand EXCEPT ![s] = "acking"]
    /\ active' = s
    /\ UNCHANGED <<queueVars, todo, sends, caller, fut, linkVars, agentVars,
                   history, bounds>>

AuthFails(s) ==
    /\ LoopIsFree
    /\ hand[s] = "auth"
    /\ link[s] = "down"
    /\ hand' = [hand EXCEPT ![s] = "ended"]
    /\ UNCHANGED <<queueVars, active, todo, sends, caller, fut, linkVars,
                   agentVars, history, bounds>>

(* dispatch_pending lists the records that are not terminal, unless the    *)
(* agent has no registered socket any more.                                *)
StartDispatch(s) ==
    /\ LoopIsFree
    /\ hand[s] = "acking"
    /\ \/ /\ active # None
          /\ hand' = [hand EXCEPT ![s] = "dispatch"]
          /\ todo' = [todo EXCEPT ![s] = NonTerminal]
       \/ /\ active = None
          /\ hand' = [hand EXCEPT ![s] = "loop"]
          /\ UNCHANGED todo
    /\ UNCHANGED <<queueVars, active, sends, caller, fut, linkVars, agentVars,
                   history, bounds>>

(* The send of auth_ack raises outside the try of the handler: the handler *)
(* ends and the registry keeps its socket.                                 *)
AckRaises(s) ==
    /\ LoopIsFree
    /\ hand[s] = "acking"
    /\ link[s] = "down"
    /\ hand' = [hand EXCEPT ![s] = "ended"]
    /\ UNCHANGED <<queueVars, active, todo, sends, caller, fut, linkVars,
                   agentVars, history, bounds>>

Visiting(s, m) ==
    /\ LoopIsFree
    /\ hand[s] = "dispatch"
    /\ \A x \in sends : x.by # s
    /\ m \in todo[s]
    /\ \A k \in todo[s] : m <= k
    /\ todo' = [todo EXCEPT ![s] = @ \ {m}]

(* One round of the loop of dispatch_pending. *)
VisitExpired(s, m) ==
    /\ Visiting(s, m)
    /\ m \in late
    /\ Expire(m)
    /\ UNCHANGED <<active, hand, sends, caller, fut, linkVars, agentVars, history,
                   bounds>>

VisitSkipped(s, m) ==
    /\ Visiting(s, m)
    /\ m \notin late
    /\ records[m] # "pending" \/ active = None
    /\ UNCHANGED <<queueVars, active, hand, sends, caller, fut, linkVars,
                   agentVars, history, bounds>>

VisitPending(s, m) ==
    /\ Visiting(s, m)
    /\ m \notin late
    /\ records[m] = "pending"
    /\ active # None
    /\ BeginSend(m, s)
    /\ UNCHANGED <<queueVars, active, hand, caller, fut, link, up, agentVars,
                   history, bounds>>

(* Variant: the loop returns where it should go on. *)
DispatchStopsEarly(s) ==
    /\ LoopIsFree
    /\ hand[s] = "dispatch"
    /\ \A x \in sends : x.by # s
    /\ hand' = [hand EXCEPT ![s] = "loop"]
    /\ todo' = [todo EXCEPT ![s] = {}]
    /\ UNCHANGED <<queueVars, active, sends, caller, fut, linkVars, agentVars,
                   history, bounds>>

DispatchDone(s) ==
    /\ LoopIsFree
    /\ hand[s] = "dispatch"
    /\ todo[s] = {}
    /\ \A x \in sends : x.by # s
    /\ hand' = [hand EXCEPT ![s] = "loop"]
    /\ UNCHANGED <<queueVars, active, todo, sends, caller, fut, linkVars,
                   agentVars, history, bounds>>

(* Variants: a status that is not translated, or translated wrongly. *)
StateOfUntranslated(kind) == kind

StateOfRejectedIsFailed(kind) ==
    CASE kind = "ack" -> "acked"
      [] kind = "success" -> "completed"
      [] kind \in {"error", "rejected"} -> "failed"
      [] OTHER -> kind

(* RESP_TO_STATE, and CMD_ACKED for an acknowledgement. *)
StateOf(kind) ==
    CASE kind = "ack" -> "acked"
      [] kind = "success" -> "completed"
      [] kind = "error" -> "failed"
      [] OTHER -> kind

(* handle_agent_message: the record takes the state of the frame; a        *)
(* terminal response resolves the future and removes its entry.            *)
ServerReceives(s) ==
    /\ LoopIsFree
    /\ hand[s] = "loop"
    /\ up[s] # <<>>
    /\ up' = [up EXCEPT ![s] = Tail(@)]
    /\ LET m == Head(up[s]).cmd
           st == StateOf(Head(up[s]).kind)
       IN  /\ Mark(m, st)
           /\ fut' = IF st \in Terminal /\ fut[m] = "open"
                     THEN [fut EXCEPT ![m] = "set"] ELSE fut
    /\ UNCHANGED <<active, hand, todo, sends, caller, link, down, agentVars,
                   history, bounds>>

(* WebSocketDisconnect: disconnect(agent_id) removes the socket that is    *)
(* registered, be it this handler's or not.  Frames still unread are lost. *)
ServerNotices(s) ==
    /\ LoopIsFree
    /\ hand[s] = "loop"
    /\ link[s] = "down"
    /\ hand' = [hand EXCEPT ![s] = "ended"]
    /\ active' = None
    /\ up' = [up EXCEPT ![s] = <<>>]
    /\ UNCHANGED <<queueVars, todo, sends, caller, fut, link, down, agentVars,
                   history, bounds>>

(* prune_stale_connections (/health and others): no heartbeat was read for *)
(* 90 s.  The connection is broken, or the interval of the agent is too    *)
(* long, or the server did not get to read.                                *)
Prune ==
    /\ LoopIsFree
    /\ active # None
    /\ link[active] = "down" \/ ~Heartbeats
    /\ active' = None
    /\ UNCHANGED <<queueVars, hand, todo, sends, caller, fut, linkVars, agentVars,
                   history, bounds>>

(* The server process dies and a new one reads the queue from the disk.    *)
ServerRestarts ==
    /\ crashes < MaxCrash
    /\ crashes' = crashes + 1
    /\ Load
    /\ active' = None
    /\ hand' = [s \in Session |-> IF hand[s] = "unused" THEN "unused" ELSE "ended"]
    /\ todo' = [s \in Session |-> {}]
    /\ sends' = {}
    /\ caller' = [m \in Cmd |-> IF caller[m] \in {"sending", "waiting"}
                                THEN "failed" ELSE caller[m]]
    /\ fut' = [m \in Cmd |-> "none"]
    /\ link' = [s \in Session |-> IF link[s] = "unused" THEN "unused" ELSE "down"]
    /\ up' = [s \in Session |-> <<>>]
    /\ UNCHANGED <<down, agentVars, history, boots>>

-----------------------------------------------------------------------------
(* The connection.                                                         *)

(* It breaks; neither end knows until it reads or writes.  Frames on their *)
(* way may still arrive: an end that notices drops the rest.               *)
LinkBreaks(s) ==
    /\ link[s] = "up"
    /\ link' = [link EXCEPT ![s] = "down"]
    /\ UNCHANGED <<queueVars, serverVars, down, up, agentVars, history, bounds>>

(* run_forever opens the next session. *)
Connect(s) ==
    /\ cli = None
    /\ link[s] = "unused"
    /\ \A t \in 1..(s - 1) : link[t] # "unused"
    /\ cli' = s
    /\ link' = [link EXCEPT ![s] = "up"]
    /\ hand' = [hand EXCEPT ![s] = "auth"]
    /\ UNCHANGED <<queueVars, active, todo, sends, caller, fut, down, up, job,
                   dedup, history, bounds>>

Expires(m) ==
    /\ caller[m] # "idle"
    /\ m \in Expiring
    /\ TTLPasses(m)
    /\ UNCHANGED <<serverVars, linkVars, agentVars, history, bounds>>

-----------------------------------------------------------------------------
(* Agent: the command_request branch of client_session.                    *)

Seen == {dedup[i] : i \in DOMAIN dedup}

(* The session loop takes the next frame, one command at a time. *)
Take(m) ==
    /\ cli # None
    /\ job = Idle
    /\ down[cli] # <<>>
    /\ m = Head(down[cli])

Consume == down' = [down EXCEPT ![cli] = Tail(@)]

(* Variants: the id is not kept, or not looked for. *)
RememberNothing(m) ==
    /\ m \notin Seen
    /\ UNCHANGED <<dedup, evicted>>

RememberUnchecked(m) ==
    \/ /\ Len(dedup) < DedupMax
       /\ dedup' = Append(dedup, m)
       /\ UNCHANGED evicted
    \/ /\ Len(dedup) >= DedupMax
       /\ dedup' = Append(Tail(dedup), m)
       /\ evicted' = evicted \cup ({Head(dedup)} \ {m})

(* _is_duplicate_message for an id that is not in the window. *)
Remember(m) ==
    /\ m \notin Seen
    /\ \/ /\ Len(dedup) < DedupMax
          /\ dedup' = Append(dedup, m)
          /\ UNCHANGED evicted
       \/ /\ Len(dedup) >= DedupMax
          /\ dedup' = Append(Tail(dedup), m)
          /\ evicted' = evicted \cup {Head(dedup)}

(* The exception of a failed send ends client_session; frames that were    *)
(* not read yet are dropped with it.                                       *)
SessionEnds ==
    /\ cli' = None
    /\ down' = [down EXCEPT ![cli] = <<>>]

AgentIgnores(m) ==
    /\ Take(m)
    /\ m \in Seen
    /\ Consume
    /\ UNCHANGED <<queueVars, serverVars, link, up, agentVars, history, bounds>>

(* Signature, policy, rate limit and catalogue come before the TTL. *)
AgentRejects(m) ==
    /\ Take(m)
    /\ m \in Refusable
    /\ Remember(m)
    /\ Consume
    /\ ToServer(cli, m, "rejected")
    /\ refused' = refused \cup {m}
    /\ UNCHANGED <<queueVars, serverVars, link, cli, job, runs, accepted, bounds>>

AgentFindsExpired(m) ==
    /\ Take(m)
    /\ m \in late
    /\ Remember(m)
    /\ Consume
    /\ ToServer(cli, m, "expired")
    /\ UNCHANGED <<queueVars, serverVars, link, cli, job, runs, accepted, refused,
                   bounds>>

(* Variant: the expires_at of the request is not looked at. *)
AgentAcceptsLate(m) ==
    /\ Take(m)
    /\ Remember(m)
    /\ Consume
    /\ ToServer(cli, m, "ack")
    /\ job' = [cmd |-> m, phase |-> "accepted"]
    /\ accepted' = accepted \cup {m}
    /\ UNCHANGED <<queueVars, serverVars, link, cli, runs, refused, bounds>>

AgentAccepts(m) ==
    /\ Take(m)
    /\ m \notin late
    /\ Remember(m)
    /\ Consume
    /\ ToServer(cli, m, "ack")
    /\ job' = [cmd |-> m, phase |-> "accepted"]
    /\ accepted' = accepted \cup {m}
    /\ UNCHANGED <<queueVars, serverVars, link, cli, runs, refused, bounds>>

(* The first frame the agent sends about a command fails: the command is   *)
(* remembered and never answered.                                          *)
AgentSendRaises(m) ==
    /\ Take(m)
    /\ link[cli] = "down"
    /\ Remember(m)
    /\ SessionEnds
    /\ UNCHANGED <<queueVars, serverVars, link, up, job, runs, accepted, refused,
                   bounds>>

(* execute_tool starts.  A long-running command announces itself first;    *)
(* if that send fails it is abandoned.                                     *)
AgentStarts(m) ==
    /\ job = [cmd |-> m, phase |-> "accepted"]
    /\ job' = [cmd |-> m, phase |-> "running"]
    /\ runs' = [runs EXCEPT ![m] = @ + 1]
    /\ IF m \in LongRunning THEN ToServer(cli, m, "running")
       ELSE UNCHANGED up
    /\ UNCHANGED <<queueVars, serverVars, link, down, cli, dedup, accepted,
                   refused, evicted, bounds>>

AgentAbandons(m) ==
    /\ job = [cmd |-> m, phase |-> "accepted"]
    /\ m \in LongRunning
    /\ link[cli] = "down"
    /\ job' = Idle
    /\ SessionEnds
    /\ UNCHANGED <<queueVars, serverVars, link, up, dedup, history, bounds>>

(* It ends, well, badly or by its timeout; the response is sent once. *)
AgentResponds(m) ==
    /\ job = [cmd |-> m, phase |-> "running"]
    /\ job' = Idle
    /\ \E kind \in Outcomes : ToServer(cli, m, kind)
    /\ UNCHANGED <<queueVars, serverVars, link, down, cli, dedup, history, bounds>>

AgentNotices ==
    /\ cli # None
    /\ job = Idle
    /\ link[cli] = "down"
    /\ SessionEnds
    /\ UNCHANGED <<queueVars, serverVars, link, up, job, dedup, history, bounds>>

(* The process ends (restart_agent, a signal, a crash) and is started      *)
(* again: the window of ids was in its memory.                             *)
AgentRestarts ==
    /\ boots < MaxBoot
    /\ boots' = boots + 1
    /\ cli' = None
    /\ job' = Idle
    /\ dedup' = <<>>
    /\ link' = [s \in Session |-> IF s = cli THEN "down" ELSE link[s]]
    /\ down' = [s \in Session |-> IF s = cli THEN <<>> ELSE down[s]]
    /\ UNCHANGED <<queueVars, serverVars, up, history, crashes>>

-----------------------------------------------------------------------------
CallNext(m) == Issue(m) \/ CallAnswered(m) \/ CallTimesOut(m)

HandlerNext(s) ==
    \/ Register(s) \/ AuthFails(s)
    \/ StartDispatch(s) \/ AckRaises(s)
    \/ \E m \in Cmd : VisitExpired(s, m) \/ VisitSkipped(s, m) \/ VisitPending(s, m)
    \/ DispatchDone(s)
    \/ ServerReceives(s) \/ ServerNotices(s)

AgentNext(m) ==
    \/ AgentIgnores(m) \/ AgentRejects(m) \/ AgentFindsExpired(m)
    \/ AgentAccepts(m) \/ AgentSendRaises(m)
    \/ AgentStarts(m) \/ AgentAbandons(m) \/ AgentResponds(m)

Next ==
    \/ \E m \in Cmd : CallNext(m) \/ AgentNext(m) \/ Expires(m)
    \/ \E x \in sends : SendReturns(x) \/ SendRaises(x)
    \/ \E s \in Session : HandlerNext(s) \/ LinkBreaks(s) \/ Connect(s)
    \/ Prune
    \/ ServerRestarts
    \/ AgentNotices
    \/ AgentRestarts

Spec == Init /\ [][Next]_vars
=============================================================================
